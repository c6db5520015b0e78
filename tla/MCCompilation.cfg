CONSTANTS
    InName <- PartOfName
    Setups <- SetupsAll
    Join <- BinaryNode
    PlainLeaf <- BareLeaf
    Cost <- PlanCost
SPECIFICATION Spec
CHECK_DEADLOCK FALSE
INVARIANTS
    AlternativesPreserved
    ConditionsPlaced
    
    CheapestOfItsShape
    CostIsOfOrder
    InvariantsTight
    MergedPlansFaithful
