SPECIFICATION Spec
CONSTANTS
    Workers = {w1, w2, w3}
    Keys = {k1}
    Bodies = {b1, b2}
    TTL = 2
    Lag = 1
    MaxOp = 8
    MaxTime = 8
    MaxOps = 4
    StoreFaults = TRUE
    w1 = w1
    w2 = w2
    w3 = w3
    k1 = k1
    b1 = b1
    b2 = b2
SYMMETRY Symmetry
INVARIANTS
    AtMostOnce
    RepliesBacked
PROPERTIES
    ResultRetained
CHECK_DEADLOCK FALSE
