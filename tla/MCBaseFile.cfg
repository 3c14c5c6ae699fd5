CONSTANTS
    b1 = b1
    b2 = b2
    b3 = b3
    s1 = s1
    s2 = s2
    s3 = s3
    NoBlock = NoBlock
    Inodes <- MCInodes
    Slots <- MCSlots
    Blocks <- MCBlocks
    MaxBlocks = 2
    MaxLinks = 2
SPECIFICATION Spec
SYMMETRY Symmetry
CONSTRAINT Bounded
INVARIANTS TypeOK BlocksExclusive DiskExclusive UsedBlocksCover UsedInodesCover OpenFilesExist ClosedIsDurable
CHECK_DEADLOCK FALSE
