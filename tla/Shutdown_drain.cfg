SPECIFICATION FairSpec
CONSTANTS
    Requests = {r1, r2}
    Slots <- MCSlots
    r1 = r1
    r2 = r2
INVARIANTS
    AdmissionExact
    ChildrenOwned
    PassedHonestly
    NoOrphanedCandidate
PROPERTIES
    ImplementsGate
CHECK_DEADLOCK FALSE
