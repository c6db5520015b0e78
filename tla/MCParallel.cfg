CONSTANTS
    Positive <- PositiveAC
    Chain <- ChainB
    Operator = "SEQ"
    Index <- IndexBetween
    TypeOf <- TypeABC
    Condition <- SameKey
    Window = 1
    Kind <- Kinds
    Algorithms <- AllAlgorithms
    UnitsNumber = 3
    Interval = 1
    Shape <- SquareOfFour
    Dimensions <- DimensionsA
    InputLengths <- Three
    MaxGap = 1
SPECIFICATION FairSpec
CHECK_DEADLOCK FALSE
INVARIANTS
    TypeOK
    KeptMatchesDemanded
PROPERTIES
    RefinesResult
    OutputCloses
