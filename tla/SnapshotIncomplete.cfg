\* MaxTasks ends every behaviour.
CHECK_DEADLOCK FALSE
SPECIFICATION Spec
CONSTANTS
    Workers = {a}
    MaxTasks = 2
    MaxRows = 1
    MaxCrash = 0
    Master = FALSE
    SitesInside = FALSE
    MayMiss = {}
    DbMayFail = FALSE
    MaxCauses = 0
INVARIANT SuccessIsComplete
