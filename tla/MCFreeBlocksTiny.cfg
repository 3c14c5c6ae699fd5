CONSTANTS
    Stack = 4
    Count = 1
    MaxGroup = 2
SPECIFICATION Spec
INVARIANTS TopNeverEmpty
CHECK_DEADLOCK FALSE
