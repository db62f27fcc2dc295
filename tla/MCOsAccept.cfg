CONSTANTS
    Workers = {w1, w2}
    Conns = {c1, c2}
    None = None
    Modes <- MCModes
    MaxSignals = 2
    MaxDeaths = 1
SPECIFICATION Spec
INVARIANTS
    LockedInside
    OneAfterShutdown
PROPERTIES
    QueuedIsTaken
    ImplementsListener
CHECK_DEADLOCK FALSE
