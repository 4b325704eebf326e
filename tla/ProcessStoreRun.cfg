\* Three visits, so that a page is left and opened again while events of the
\* sockets of two earlier visits are still to come.
CONSTANTS
    MaxVisits = 3
    MaxSearches = 1
SPECIFICATION FairSpec
INVARIANTS TypeOK OneRequestAtATime RowsMatchTable SocketsAreOwned
PROPERTY SearchIsAnswered
CHECK_DEADLOCK FALSE
