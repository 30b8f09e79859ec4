SPECIFICATION FairSpec
CONSTANTS
    Pools = {"db", "http"}
    Ends = {"db"}
    Jobs = {"fetch", "post", "save", "mark"}
    PoolOf <- Places
    Inner <- Saving
    Notifies = TRUE
CHECK_DEADLOCK FALSE
INVARIANT TypeOK
INVARIANT NoLostTask
INVARIANT RunsInOrder
INVARIANT ThrownNeverRuns
PROPERTY NoCallerHangs
