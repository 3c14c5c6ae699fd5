CONSTANTS
    Stack = 4
    Count = 6
    MaxGroup = 2
SPECIFICATION Spec
INVARIANTS TypeOK ChainIntact Conserved UsedCounted RefusalMeansEmpty
PROPERTIES PoolRefined
CHECK_DEADLOCK FALSE
