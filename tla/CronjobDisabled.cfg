CHECK_DEADLOCK FALSE
SPECIFICATION Spec
CONSTANTS
    Requests = {a}
    Names = {n1}
    MaxRows = 1
    MaxOps = 3
    MaxCrash = 0
    DbMayFail = FALSE
INVARIANT DisabledDoesNotRun
