SPECIFICATION FairSpec
CONSTANTS
    Users = {u1, u2}
    Conns = {c1, c2}
    NmdcUsers = {}
    Favorites = {}
    MiniUsers = {}
    Operators = {}
    Slots = 1
    MaxExtraSlots = 1
    AutoSlots = FALSE
    NoUser = NoUser
    MaxPrivileged = 1
    MaxOverlaps = 0
PROPERTY
    WaitingEnds
CHECK_DEADLOCK FALSE
