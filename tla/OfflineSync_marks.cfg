SPECIFICATION FairSpec
CONSTANTS
    History <- Established
    Traffic = {"group", "mark"}
    MaxLog = 6
    PageSize = 1
    Window = 9
    SignalLimit = 0
    PullFaults = {"refused"}
    FlagFaults = {}
    MarkFaults = {"database"}
    StoreFails = FALSE
    Removable = {}
    StampInLogin = TRUE
    MaxFaults = 5
INVARIANT TypeOK
INVARIANT MarksFollowMessages
INVARIANT SyncedMeansComplete
PROPERTY MarksResetMeansFetched
PROPERTY EventuallyHeld
