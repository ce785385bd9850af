SPECIFICATION Spec
CONSTANTS
    Conns = {c1, c2, c3, c4}
    Nil = Nil
    Writers = {w1, w2}
    Dialers = {d1, d2}
    MaxBackoff = 3
INVARIANTS TypeOK NeverStranded OneAtATime
PROPERTIES BackoffGrows WriteReturns Reconnects
