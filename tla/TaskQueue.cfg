SPECIFICATION FairSpec
CONSTANTS
    w1 = w1
    w2 = w2
    g1 = g1
    Cache = 1
    Workers = {w1, w2}
    Getters = {g1}
    Signature <- AddKey
    MaxTasks = 2
INVARIANTS
    TaskLedger
PROPERTIES
    TaskServed
    StoppedWorkerQuits
CHECK_DEADLOCK FALSE
