SPECIFICATION FairSpec
CONSTANTS
    Entries = {e1}
    Requests = {q1}
    MaxRecords = 2
    MaxCrash = 2
    Retain = 1
    DbMayFail = TRUE
INVARIANTS TypeOK FlagHasOwner WaitingHasOwner OverlapHasCause RecordTellsOutcome
PROPERTIES WaitingSettles
