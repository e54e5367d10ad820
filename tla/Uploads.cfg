SPECIFICATION Spec
CONSTANTS
    Users = {u1, u2}
    Conns = {c1, c2}
    NmdcUsers = {u2}
    Favorites = {}
    MiniUsers = {u1}
    Operators = {}
    Slots = 1
    MaxExtraSlots = 1
    AutoSlots = TRUE
    NoUser = NoUser
    MaxPrivileged = 1
    MaxOverlaps = 1
INVARIANTS
    TypeOK
    SlotsCounted
    WaitingAgree
    HolderDoesNotWait
    CalledFitSlots
CHECK_DEADLOCK FALSE
