SPECIFICATION FairSpec
CONSTANTS
    Users = {u1, u2}
    TreeUsers = {u1}
    Size = 5
    TreeBlock = 2
    MinBlockSize = 1
    MaxSizeWoTree = 9
    ChunkSizes = {0, 4}
    Modes = {TRUE, FALSE}
    Operations = {"crash", "lose"}
    MaxFaults = 2
INVARIANTS
    
    
    TreeAlone

    
    
    
CHECK_DEADLOCK FALSE
