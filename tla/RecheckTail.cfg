SPECIFICATION FairSpec
CONSTANTS
    Users = {u1}
    TreeUsers = {u1}
    Size = 5
    TreeBlock = 2
    MinBlockSize = 1
    MaxSizeWoTree = 9
    ChunkSizes = {0, 4}
    Modes = {TRUE}
    Operations = {"recheck"}
    MaxFaults = 1
PROPERTY
    EventuallyFinished
CHECK_DEADLOCK FALSE
