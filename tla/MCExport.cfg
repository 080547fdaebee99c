SPECIFICATION Spec
CONSTANTS
    r = r
    d = d
    e = e
    x = x
    y = y
    Inodes <- MCInodes
    Trees <- MCTrees
INVARIANTS
    WalkExact
    CopyFaithful
    LockedFromInside
PROPERTY
    Ends
CHECK_DEADLOCK FALSE
