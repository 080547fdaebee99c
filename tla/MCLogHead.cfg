SPECIFICATION SessionSpec
CONSTANTS
    Sizes = {7, 13}
    RecBbs = 3
    MaxIclogs = 2
    HeaderBlocks = {1, 2}
    Starts <- MCStarts
    MaxRecords = 3
    Superblocks <- MCSuperblocks
    SessionRecords = 1
INVARIANTS
    TypeOK
    HeadExact
    HeadOrRefusal
    DirtyNeverClean
    UnmountedIsClean
    DirtyRangeCovers
    NeverWrittenUnready
CHECK_DEADLOCK FALSE
