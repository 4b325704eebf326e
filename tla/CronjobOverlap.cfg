SPECIFICATION Spec
CONSTANTS
    Entries = {e1, e2}
    Requests = {}
    MaxRecords = 2
    MaxCrash = 0
    Retain = 1
    DbMayFail = FALSE
INVARIANT OneAtATime
