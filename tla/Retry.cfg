SPECIFICATION Spec
CONSTANTS
    Callers = {k1, k2}
    MaxLen = 3
    MaxRetries = 2
    MaxAttempts = 3
    W = 2
INVARIANTS SendNeverBlocks CallIsServed ReturnAccountsForAttempts EvenPicks
PROPERTIES CallReturns
