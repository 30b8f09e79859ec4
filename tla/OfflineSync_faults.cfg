SPECIFICATION FairSpec
CONSTANTS
    History <- Empty
    Traffic = {"chat", "mark"}
    MaxLog = 3
    PageSize = 1
    Window = 1
    SignalLimit = 0
    PullFaults = {"refused", "garbled"}
    FlagFaults = {"refused", "denied"}
    MarkFaults = {"request", "database"}
    StoreFails = TRUE
    Removable = {2}
    StampInLogin = TRUE
    MaxFaults = 2
PROPERTY NeverBackwards
PROPERTY SyncEnds
