CONSTANTS
    Setup <- Setups
    Window = 1
    CleanUpInterval = 2
    MaxEvents = 5
    MaxGap = 1
SPECIFICATION Spec
CHECK_DEADLOCK FALSE
INVARIANTS
    ReportsAllButAdjacent
    ReportedOnce
