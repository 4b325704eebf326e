\* One Task object of up to two subtasks, beside other objects of its id, with an
\* agent that crashes at any moment and a database whose updates may be lost.
SPECIFICATION Spec
CONSTANTS
    MaxSub = 2
    MaxRetry = 1
    MaxRuns = 1
    DbMayFail = TRUE
    Others = TRUE
INVARIANTS
    TypeOK
    SuccessMeansDone
    Compensation
    OnlyTimedActionsOutlive
    StopReachesFirstSubTask
PROPERTIES
    ImplementsSaga
