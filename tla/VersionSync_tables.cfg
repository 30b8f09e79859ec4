SPECIFICATION Spec
CONSTANTS
    Kinds = {"groups", "staff", "settings", "medals", "replies"}
    Keys = {"top", "remark", "mute"}
    SubKey <- Contact
    Before <- TwoSettings
    login = login
    handler = handler
    Callers = {login, handler}
    MaxLog = 5
    MaxFaults = 1
SYMMETRY Alike
CONSTRAINT Unspoiled
CHECK_DEADLOCK FALSE
INVARIANT TypeOK
INVARIANT Catchable
INVARIANT ThroughMeansDone
