SPECIFICATION Spec
CONSTANTS
    r = r
    d = d
    e = e
    x = x
    y = y
    Inodes <- MCInodes
    Trees <- MCTrees
INVARIANT
    LinksHaveTargets
CHECK_DEADLOCK FALSE
