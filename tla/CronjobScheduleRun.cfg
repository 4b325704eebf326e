\* The bounds on rows, requests and crashes end every behaviour.
CHECK_DEADLOCK FALSE
SPECIFICATION Spec
SYMMETRY Symmetry
CONSTANTS
    Requests = {a, b}
    Names = {n1, n2}
    MaxRows = 2
    MaxOps = 4
    MaxCrash = 1
    DbMayFail = TRUE
INVARIANTS TypeOK NoOrphans EnabledIsScheduled NamesAreUnique
PROPERTIES OthersKeepRunning
