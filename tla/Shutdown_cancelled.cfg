SPECIFICATION Spec
CONSTANTS
    Requests = {r1}
    Slots <- MCSlots
    r1 = r1
INVARIANTS
    CancelledFailsClosed
CHECK_DEADLOCK FALSE
