SPECIFICATION FairSpec
CONSTANTS
    Tasks = {"page", "live", "group", "flags"}
    Direct = {"flags"}
    Batches <- PageLiveGroupFlags
    Careless = {"group"}
    DiskFaults = {"begin", "row", "commit"}
    MaxFaults = 2
CHECK_DEADLOCK FALSE
INVARIANT TypeOK
INVARIANT WholeUnlessCrossed
INVARIANT AnswersTell
INVARIANT LaterPartsFollow
PROPERTY Atomic
PROPERTY EveryCallReturns
