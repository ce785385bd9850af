SPECIFICATION Spec
CONSTANTS
    Loops = {g1, g2}
    Chans = {q1, q2, q3}
    Nil = Nil
PROPERTY DeregisterSticks
