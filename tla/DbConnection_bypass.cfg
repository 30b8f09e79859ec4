SPECIFICATION Spec
CONSTANTS
    Tasks = {"page", "flags"}
    Direct = {"flags"}
    Batches <- PageAndFlags
    Careless = {}
    DiskFaults = {}
    MaxFaults = 0
CHECK_DEADLOCK FALSE
INVARIANT AllOrNothing
