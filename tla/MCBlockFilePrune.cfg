CONSTANTS
    f1 = f1
    f2 = f2
    Files <- MCFiles
    Direct = 1
    PerIndex = 2
    Count = 15
    MaxSize = 8
SPECIFICATION Spec
CONSTRAINT ContractKept
PROPERTIES PruneFreesWhatWasCut
CHECK_DEADLOCK FALSE
