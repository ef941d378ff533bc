SPECIFICATION Spec
CONSTANTS
    Artifacts = {a1, a2, a3, a4}
    Subjects = {s1}
    Threads = {t1, t2}
    Suites = {u1}
    Summary <- MCSummary
    Score <- MCScore
    MinDelta = 20
    Threshold = 6
    RequireSoD = FALSE
    MaxGen = 5
    MaxFresh = 1
    None = None
    a1 = a1
    a2 = a2
    a3 = a3
    a4 = a4
    s1 = s1
    t1 = t1
    t2 = t2
    u1 = u1
SYMMETRY Symmetry
INVARIANTS
    RollbackRestoresPrior
CHECK_DEADLOCK FALSE
