SPECIFICATION Spec
CONSTANTS
    Trees <- McTrees
    Forks <- McForks
    Rings <- McRings
    Dirs <- McDirs
    Files <- McFiles
    Links <- McLinks
    Attrs <- McAttrs
    Geometries <- McGeometries
    Archives <- McArchives
    WalkLimit = 100
    Narrow <- McNarrow
    Block = 16
    NameMax = 5
    IdMax = 8
    SizeMax = 300
    Giga = 1000
INVARIANTS
    TreeReadsBack
    TreeFinds
    DamageFoundOut
    DirReadsBack
    DirIndexSound
    ContentsReadBack
    TarReadsBack
    NumbersExact
PROPERTY
    ReadsEnd
CHECK_DEADLOCK FALSE
