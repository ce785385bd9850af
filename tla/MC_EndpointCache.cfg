SPECIFICATION Spec
CONSTANTS
    Instances = {1, 2}
    EventLists <- MCLists
    Errors = {e1, e2}
    NoErr = NoErr
    Readers = {r1, r2}
    InvalidateTimeout = 2
    MaxTime = 4
    MaxMade = 4
SYMMETRY MCSymmetry
INVARIANTS ServedAreOpen ClosedOnce NoLeak
PROPERTIES SurvivorsPersist OutageHonoured
