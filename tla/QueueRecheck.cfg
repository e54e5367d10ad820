SPECIFICATION Spec
CONSTANTS
    Users = {u1}
    Files = {f1, f2}
    Items = {i1, i2}
    MaxPriority = 1
    KeepFinished = TRUE
    Rechecks = TRUE
    NoItem = NoItem
    NoDownload = NoDownload
INVARIANTS
    OneTarget
    SourcesDisjoint
SYMMETRY Symmetry
CHECK_DEADLOCK FALSE
