SPECIFICATION Spec
CONSTANTS
    r = r
    d = d
    f = f
    l1 = l1
    l2 = l2
    Inodes <- MCInodes
    Root = r
    Names <- MCNames
    Up = 0
    MaxSymlinks = 3
    Trees <- MCTrees
    Paths <- MCPaths
INVARIANTS
    ResolvesMeaning
PROPERTY
    LookupEnds
CHECK_DEADLOCK FALSE
