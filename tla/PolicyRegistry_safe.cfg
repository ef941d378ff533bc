SPECIFICATION Spec
CONSTANTS
    Artifacts = {a1, a2, a3}
    Subjects = {s1}
    Threads = {t1, t2}
    Suites = {u1, u2}
    Summary <- MCSummary
    Score <- MCScore
    MinDelta = 20
    Threshold = 6
    RequireSoD = FALSE
    MaxGen = 4
    MaxFresh = 1
    None = None
    a4 = a4
    a1 = a1
    a2 = a2
    a3 = a3
    s1 = s1
    t1 = t1
    t2 = t2
    u1 = u1
    u2 = u2
SYMMETRY Symmetry
INVARIANTS
    TypeOK
    AuditLineage
    HiddenGatesHeld
    RollbackToFormerChampion
CHECK_DEADLOCK FALSE
