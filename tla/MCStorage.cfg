CONSTANTS
    CleanUpInterval = 2
    MaxKey = 3
    MaxTime = 2
    MaxSize = 4
SPECIFICATION Spec
CHECK_DEADLOCK FALSE
INVARIANTS
    Sorted
    GetCovers
    GetExact
PROPERTIES
    RefinesMatchStore
