SPECIFICATION Spec

CONSTANTS
    Threads = {t1, t2}
    Keys = {k1, k2}
    Challengers = {c1}
    Suites = {s1, s2}
    Images = {i1, i2}
    Modules = {m1, m2}
    m1 = m1
    m2 = m2
    i1 = i1
    i2 = i2
    Weight <- MCWeight
    Passes <- MCPasses
    Limit = 1
    Window = 2
    Retention = 2
    OpTime = 2
    MaxTime = 3
    MaxFaults = 1
    None = None

SYMMETRY Symmetry

INVARIANTS
    QuotaRespected
    ScoreEarned
    AttemptsAccounted

CHECK_DEADLOCK FALSE
