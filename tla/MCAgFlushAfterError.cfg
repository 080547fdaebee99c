SPECIFICATION Spec
CONSTANTS
    root = root
    i1 = i1
    AgLen = 17
    Headers = {0}
    Agfl = {1}
    Inodes <- MCInodes
    HasRmap = TRUE
    HasFinobt = TRUE
    LeafMax <- FullLeafMax
    NodeMax <- MCNodeMax
    InodesPerBlock = 2
    ChunkBlocks = 1
    InodeAlign = 1
    MaxExtent = 3
    ReserveSlack = 1
    ReserveShare = 13
    MaxTries = 4
    Wants = {1, 3}
    Nears = {0, 11}
    MaxTaken = 1
    MaxForks = 3
    MaxCalls = 6
    Images <- FullImages
INVARIANT
    FlushedIsAccounted
CHECK_DEADLOCK FALSE
