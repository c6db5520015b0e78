CONSTANTS
    Positive <- PositiveXBY
    Negated = "n"
    TypeOf <- TypeXBY
    PatternOrder <- OrderXBY
    Precedes <- PrecedesXBY
    Window = 1
    Val = {0}
    Setup <- SetupsAll
    UpdateWindow = 0
    RatesWindow = 1
    Threshold = 50
    MaxEvents = 5
    MaxGap = 1
SPECIFICATION Spec
CHECK_DEADLOCK FALSE
INVARIANTS
    ReportsExactly
    ReportedOnce
    UnpreventedReported
    RatesCountWindow
PROPERTIES
    DiscardedWereReported
