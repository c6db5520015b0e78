CONSTANTS
    LeftName = {"a", "b"}
    RightName = {"c"}
    Priority <- PriorityABC
    Conditions <- AllConditions
    Val = {0, 1, 2}
    MaxSize = 2
SPECIFICATION Spec
CHECK_DEADLOCK FALSE
INVARIANTS
    LostOnlyByKeys
