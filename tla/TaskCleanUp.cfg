\* The clean-up of Executing rows after a restart, against a task that started
\* since.
SPECIFICATION Spec
CONSTANTS
    MaxSub = 1
    MaxRetry = 0
    MaxRuns = 1
    DbMayFail = FALSE
    Others = FALSE
INVARIANTS
    RestartFailureIsReal
