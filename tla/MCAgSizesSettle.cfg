SPECIFICATION Spec
CONSTANTS
    root = root
    i1 = i1
    AgLen = 18
    Headers = {0}
    Agfl = {1}
    Inodes <- MCInodes
    HasRmap = FALSE
    HasFinobt = FALSE
    LeafMax <- SettleLeafMax
    NodeMax <- MCNodeMax
    InodesPerBlock = 2
    ChunkBlocks = 1
    InodeAlign = 1
    MaxExtent = 3
    ReserveSlack = 1
    ReserveShare = 8
    MaxTries = 32
    Wants = {1, 3}
    Nears = {0, 10}
    MaxTaken = 1
    MaxForks = 3
    MaxCalls = 3
    Images <- SettleImages
INVARIANT
    SizesSettle
CHECK_DEADLOCK FALSE
