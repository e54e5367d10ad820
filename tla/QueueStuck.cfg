SPECIFICATION Spec
CONSTANTS
    Users = {u1, u2}
    Files = {f1}
    Items = {i1}
    MaxPriority = 1
    KeepFinished = FALSE
    Rechecks = TRUE
    NoItem = NoItem
    NoDownload = NoDownload
INVARIANTS
    UserQueueIsCache
CHECK_DEADLOCK FALSE
