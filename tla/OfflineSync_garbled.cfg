SPECIFICATION Spec
CONSTANTS
    History <- Established
    Traffic = {"chat"}
    MaxLog = 6
    PageSize = 1
    Window = 9
    SignalLimit = 0
    PullFaults = {"garbled"}
    FlagFaults = {}
    MarkFaults = {}
    StoreFails = FALSE
    Removable = {}
    StampInLogin = TRUE
    MaxFaults = 1
PROPERTY DrainedMeansFetched
