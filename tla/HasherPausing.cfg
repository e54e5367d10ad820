SPECIFICATION FairSpec
CONSTANTS
    Files = {f1, f2}
    Pausers = {p1, p2}
    Dialog = TRUE
    UnsignedMax = 7
    MaxRebuilds = 1
    MaxSignals = 4
INVARIANTS
    NoLostWakeup
    PausedHasOwner
PROPERTIES
    FilesTakenUp
    PauseTakesEffect
    ShutdownEnds
CHECK_DEADLOCK FALSE
