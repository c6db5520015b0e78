CONSTANTS
    Leaf <- LeafABC
    Inner <- InnerLD
    Left <- LeftLD
    Right <- RightLD
    Parents <- ParentsLD
    Subtree <- SubtreeLD
    Operator <- SeqLD
    Index <- IndexABC
    EventDefs <- DefsLD
    Window <- Window1LD
    TypeOf <- Letters
    EventType = {"A", "B", "C"}
    Val = {0}
    Pattern <- OneABC
    Root <- RootLD
    PatternWindow <- PatternWindow1
    Precedes <- PrecedesABC
    Condition <- NoCondition
    Strategy = "next"
    SingleType = {"A", "B"}
    FlatSequences <- SequenceABC
    FreezeNames = {"b"}
    CleanUpInterval = 1
    MaxEvents = 6
    MaxGap = 1
SPECIFICATION Spec
CHECK_DEADLOCK FALSE
INVARIANTS
    NextUnique
    FreezeRespected
