SPECIFICATION FairSpec
CONSTANTS
    Workers = {w1, w2}
    Keys = {k1, k2}
    Bodies = {b1, b2}
    TTL = 2
    Lag = 1
    MaxOp = 2
    MaxTime = 4
    MaxOps = 3
    StoreFaults = FALSE
    w1 = w1
    w2 = w2
    k1 = k1
    k2 = k2
    b1 = b1
    b2 = b2
INVARIANTS
    TypeOK
    InProgressOwned
    RepliesMatchBody
    MutualExclusion
PROPERTIES
    InterruptedNeverRuns
    NoKeyStuck
CHECK_DEADLOCK FALSE
