SPECIFICATION FairSpec
CONSTANTS
    c1 = c1
    c2 = c2
    c3 = c3
    Nobody = Nobody
    Calls = {c1, c2, c3}
    Cancellable = {c1}
INVARIANTS
    NotDispatchedNeverRan
PROPERTIES
    TaskCompletes
    SlotReleased
CHECK_DEADLOCK FALSE
