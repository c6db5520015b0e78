CONSTANTS
    Leaf <- LeafABA
    Inner <- InnerABA
    Left <- LeftABA
    Right <- RightABA
    Parents <- ParentsABA
    Subtree <- SubtreeABA
    Operator <- OpsABA
    Index <- IndexABA
    EventDefs <- DefsABA
    Window <- WindowABA
    TypeOf <- TypeOfABA
    EventType = {"A", "B"}
    Val = {0, 1}
    Pattern <- OneABC
    Root <- RootABA
    PatternWindow <- PatternWindow1
    Precedes <- PrecedesABA
    Condition <- ConditionABA
    Strategy = "any"
    SingleType = {}
    FlatSequences <- NoSequences
    FreezeNames = {}
    CleanUpInterval = 2
    MaxEvents = 4
    MaxGap = 1
SPECIFICATION Spec
CHECK_DEADLOCK FALSE
INVARIANTS
    TypeOK
    Sound
    StoresComplete
PROPERTIES
    NoDuplicateAdd
    RefinesSemantics
