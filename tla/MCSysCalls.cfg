CONSTANTS
    d = d
    e = e
    i1 = i1
    i2 = i2
    o1 = o1
    o2 = o2
    NoDrive = NoDrive
    Names <- MCNames
    Images <- MCImages
    Spellings <- MCSpellings
    ImageOf <- MCImageOf
    Letters <- MCLetters
    Drives <- MCDrives
    Lower <- MCLower
    Operands <- MCOperands
    Opened <- MCOpened
    Pairs <- MCPairs
    Lines <- MCLines
    SizesOf <- MCSizesOf
    PerBlocksOf <- MCPerBlocksOf
    Objs <- MCObjs
    FdCount = 2
    MaxLines = 2
    MaxNodes = 2
    SectorBytes = 4
    InodeBytes = 3
    InodeCount = 3
    MaxPerBlock = 2
SPECIFICATION Spec
INVARIANTS TypeOK  WalkAgrees SplitAgrees CwdSound DescriptorsOwn LayoutSound
SYMMETRY Symmetry
CHECK_DEADLOCK FALSE
