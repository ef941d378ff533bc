SPECIFICATION FairSpec
CONSTANTS
    Digests = {d1}
    Bundles = {b1, b2}
    Restorers = {r1, r2}
    MaxFaults = 2
    None = None
    d1 = d1
    b1 = b1
    b2 = b2
    r1 = r1
    r2 = r2
INVARIANTS
    AllOrNothing
    NeverMixed
    SnapshotReadable
PROPERTIES
    RestoreCompletes
CHECK_DEADLOCK FALSE
