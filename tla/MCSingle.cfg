CONSTANTS
    Leaf <- LeafABC
    Inner <- InnerLD
    Left <- LeftLD
    Right <- RightLD
    Parents <- ParentsLD
    Subtree <- SubtreeLD
    Operator <- SeqLD
    Index <- IndexABC
    EventDefs <- DefsLD
    Window <- Window1LD
    TypeOf <- Letters
    EventType = {"A", "B", "C", "X"}
    Val = {0}
    Pattern <- OneABC
    Root <- RootLD
    PatternWindow <- PatternWindow1
    Precedes <- PrecedesABC
    Condition <- NoCondition
    Strategy = "single"
    SingleType = {"B"}
    FlatSequences <- NoSequences
    FreezeNames = {}
    CleanUpInterval = 1
    MaxEvents = 4
    MaxGap = 1
SPECIFICATION FairSpec
CHECK_DEADLOCK FALSE
INVARIANTS
    SingleUse
    SingleMaximal
PROPERTIES
    EventFinishes
