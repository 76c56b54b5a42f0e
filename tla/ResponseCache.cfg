SPECIFICATION FairSpec
CONSTANTS
    Requests = {q1, q2, q3}
    Duration = 1
    Forgets = TRUE
    MaxTime = 2
INVARIANTS
    RepliesAreRecent
PROPERTIES
    StoreMovesOn
    RequestsEnd
CHECK_DEADLOCK FALSE
