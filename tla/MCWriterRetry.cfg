SPECIFICATION Spec
CONSTANTS
    n1 = n1
    n2 = n2
    n3 = n3
    c1 = c1
    c2 = c2
    NAgs = 2
    AgBlocks <- MCAgBlocks
    Reserve <- MCReserve
    ChunkInodes = 2
    MaxInodes = 6
    Root = 0
    Names = {n1, n2, n3}
    Contents = {c1, c2}
    Size <- MCSize
    DirShort = 1
    DirBlock = 2
    BmbtSizes = {0, 1}
    LinkSizes = {0, 2}
    Volumes <- MCVolumes
    MaxCalls = 4
    Perms = {0, 1}
    MaxFaults = 1
INVARIANT
    FlushedIsUpToDate
CHECK_DEADLOCK FALSE
