CONSTANTS
    root = root
    i1 = i1
    i2 = i2
    i3 = i3
    n1 = n1
    n2 = n2
    NoName = NoName
    Inodes <- MCInodes
    Root = root
    Names <- MCNames
    PerBlock = 2
    MaxSlots = 3
    MaxEntries = 3
    MaxLinks = 3
    MaxDepth = 2
SPECIFICATION Spec
SYMMETRY Symmetry
CONSTRAINT Bounded
INVARIANTS TypeOK LinksCover LinksExact AllReachable
PROPERTIES NamespaceKept
CHECK_DEADLOCK FALSE
