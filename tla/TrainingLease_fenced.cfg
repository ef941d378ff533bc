SPECIFICATION FairSpec
CONSTANTS
    Trainers = {t1, t2}
    TrainingIds = {i1, i2}
    LeaseSeconds = 3
    LeaseCap = 4
    Episodes = 2
    Lag = 1
    MaxTime = 6
    MaxToken = 3
    StoreFaults = TRUE
    None = None
    t1 = t1
    t2 = t2
    i1 = i1
    i2 = i2
INVARIANTS
    TypeOK
    TokensUnique
    TrainerKeepsLease
PROPERTIES
    FencedCommits
    LeaseTakenOnlyWhenLost
    LeaseComesBack
CHECK_DEADLOCK FALSE
