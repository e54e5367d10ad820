SPECIFICATION Spec
CONSTANTS
    Users = {u1, u2}
    TreeUsers = {u1}
    Size = 5
    TreeBlock = 2
    MinBlockSize = 1
    MaxSizeWoTree = 9
    ChunkSizes = {4}
    Modes = {TRUE}
    Operations = {"lose", "abandon", "rebuild", "recheck"}
    MaxFaults = 2
    Positions = {0, 1, 2, 3, 4}
INVARIANTS
    TypeOK
    DisjointDownloads
CHECK_DEADLOCK FALSE
