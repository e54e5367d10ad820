SPECIFICATION Spec
CONSTANTS
    Users = {u1, u2}
    Files = {f1, f2}
    Items = {i1, i2}
    MaxPriority = 1
    KeepFinished = FALSE
    Rechecks = FALSE
    NoItem = NoItem
    NoDownload = NoDownload
INVARIANTS
    UserQueueIsCache
    RunningIsListed
    AssertionsHold
CHECK_DEADLOCK FALSE
