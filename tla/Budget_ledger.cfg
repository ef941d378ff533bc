SPECIFICATION FairSpec
CONSTANTS
    Clients = {c1, c2, c3}
    Ids = {i1, i2, i3}
    Units = {1, 2}
    Limit = 3
    StoreFaults = TRUE
    None = None
    c1 = c1
    c2 = c2
    c3 = c3
    i1 = i1
    i2 = i2
    i3 = i3
INVARIANTS
    TypeOK
    SpendWithinLimit
    WorkPaidOnce
    NoLeakedReservation
PROPERTIES
    EverythingSettles
CHECK_DEADLOCK FALSE
