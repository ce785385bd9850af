SPECIFICATION Spec
CONSTANTS
    Subscribers = {s1, s2}
    Events <- MCEvents
    ZeroEvent = "zero"
    SortOf <- MCSortOf
    Updater = Updater
    None = None
INVARIANTS SendsHaveReceivers NobodyLeftBehind
PROPERTIES Implements CloseEnds EveryChangeArrives
