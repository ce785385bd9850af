SPECIFICATION Spec
CONSTANTS
    Callers = {k1, k2}
    Loops = {g1, g2}
    None = None
INVARIANTS OneLoop DeregisterIsServed
PROPERTIES DeregisterSticks CallsReturn ComesBack
