SPECIFICATION Spec
CONSTANTS
    root = root
    i1 = i1
    AgLen = 17
    Headers = {0}
    Agfl = {1}
    Inodes <- MCInodes
    HasRmap = TRUE
    HasFinobt = TRUE
    LeafMax <- MCLeafMax
    NodeMax <- MCNodeMax
    InodesPerBlock = 2
    ChunkBlocks = 1
    InodeAlign = 1
    MaxExtent = 3
    ReserveSlack = 1
    ReserveShare = 17
    MaxTries = 4
    Wants = {1, 3}
    Nears = {0, 15}
    MaxTaken = 1
    MaxForks = 4
    MaxCalls = 5
    Images <- MCImages
INVARIANTS
    TypeOK
    FreeMapOK
    TotalExact
    NoSharing
    NoLeak
    NoCorruption
    RmapExact
    CleanIsOnDisk
    TreesFit
PROPERTIES
    PoolSpec
    RebuildEnds
CHECK_DEADLOCK FALSE
