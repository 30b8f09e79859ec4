SPECIFICATION Spec
CONSTANTS
    History <- Established
    Traffic = {"chat", "flag", "signal"}
    MaxLog = 7
    PageSize = 2
    Window = 9
    SignalLimit = 1
    PullFaults = {"refused"}
    FlagFaults = {"refused"}
    MarkFaults = {"database"}
    StoreFails = FALSE
    Removable = {}
    StampInLogin = TRUE
    MaxFaults = 2
INVARIANT NoGap
PROPERTY ResetMeansFetched
PROPERTY DrainedMeansFetched
PROPERTY Mirrors
