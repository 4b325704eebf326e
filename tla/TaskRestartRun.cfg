\* Two Task objects for one id, of one subtask each, one after the other, beside
\* other objects of the id, across crashes and restarts of the agent.
SPECIFICATION FairSpec
CONSTANTS
    MaxSub = 1
    MaxRetry = 0
    MaxRuns = 2
    DbMayFail = FALSE
    Others = TRUE
INVARIANTS
    RowSettled
PROPERTIES
    RunEnds
    NoStaleExecuting
