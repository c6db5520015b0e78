CONSTANTS
    Leaf <- LeafABC
    Inner <- InnerDag
    Left <- LeftDag
    Right <- RightDag
    Parents <- ParentsDag
    Subtree <- SubtreeDag
    Operator <- OpsDag
    Index <- IndexABC
    EventDefs <- DefsDag
    Window <- WindowDag
    TypeOf <- Letters
    EventType = {"A", "B", "C"}
    Val = {0, 1}
    Pattern <- Patterns123
    Root <- RootDag
    PatternWindow <- PatternWindowDag
    Precedes <- PrecedesDag
    Condition <- ConditionDag
    Strategy = "any"
    SingleType = {}
    FlatSequences <- NoSequences
    FreezeNames = {}
    CleanUpInterval = 1
    MaxEvents = 4
    MaxGap = 1
SPECIFICATION Spec
CHECK_DEADLOCK FALSE
INVARIANTS
    OrderedPatternsSatisfied
PROPERTIES
    RefinesSemantics
