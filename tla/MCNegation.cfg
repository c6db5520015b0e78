CONSTANTS
    Positive <- PositiveAC
    Chain <- ChainBD
    Operator = "SEQ"
    Index <- IndexSeq
    TypeOf <- TypeSeq
    Condition <- SameAD
    Window = 1
    Kind <- KindSeq
    CleanUpInterval = 1
    MaxEvents = 5
    MaxGap = 1
SPECIFICATION FairSpec
CHECK_DEADLOCK FALSE
INVARIANTS
    TypeOK
    ReportedNeverPrevented
    EveryMatchAccountedFor
PROPERTIES
    RefinesNegation
    OutputCloses
