CONSTANTS
    f = f
    g = g
    NoFile = NoFile
    Junk = Junk
    Files <- MCFiles
    Byte <- MCByte
    Handles <- MCHandles
    Blocks <- MCBlocks
    Counts <- MCCounts
    Texts <- MCTexts
    BlockBytes = 2
    EntryBytes = 2
    Buffer = 3
    MaxSize = 4
    MaxOpen = 1
    MaxSlots = 2
SPECIFICATION Spec
INVARIANTS TypeOK SpaceAccounted CopyExact NothingLeftOut
PROPERTIES StreamsKept CommandEnds
CHECK_DEADLOCK FALSE
