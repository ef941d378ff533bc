SPECIFICATION Spec
CONSTANTS
    Artifacts = {a1, a2, a3, a4}
    Subjects = {s1, s2}
    Threads = {t1, t2}
    Suites = {u1}
    Summary <- MCSummary
    Score <- MCScore
    MinDelta = 20
    Threshold = 6
    RequireSoD = TRUE
    MaxGen = 1
    MaxFresh = 1
    None = None
    a1 = a1
    a2 = a2
    a3 = a3
    a4 = a4
    s1 = s1
    s2 = s2
    t1 = t1
    t2 = t2
    u1 = u1
SYMMETRY Symmetry
PROPERTIES
    SeparationOfDuties
CHECK_DEADLOCK FALSE
