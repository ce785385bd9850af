SPECIFICATION Spec
CONSTANTS
    Instances = {1}
    EventLists <- MCDuplicateLists
    Errors = {e1, e2}
    NoErr = NoErr
    Readers = {r1, r2}
    InvalidateTimeout = 2
    MaxTime = 4
    MaxMade = 4
SYMMETRY MCSymmetry
INVARIANT NoLeak
