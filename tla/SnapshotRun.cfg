\* MaxTasks and MaxRows end every behaviour.
CHECK_DEADLOCK FALSE
SPECIFICATION Spec
SYMMETRY Symmetry
CONSTRAINT FewCauses
CONSTANTS
    Workers = {a, b}
    MaxTasks = 3
    MaxRows = 1
    MaxCrash = 1
    Master = TRUE
    SitesInside = FALSE
    MayMiss = {"base", "db"}
    DbMayFail = TRUE
    MaxCauses = 3
INVARIANTS TypeOK  StepIsOfTheRightTask WaitingHasTask
           DbIsReplacedLast WayBack
 
