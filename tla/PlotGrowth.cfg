CONSTANTS
    Maturity = 7
    BaseRate = 3
    FertilizerRate = 2
    FertilizerTime = 2
    PestTime = 2
    BaseYield = 3
    StealQuantity = 2
    MaxStealTimes = 2
    ProtectedOwnerYield = 1
    PestRate <- MinusOne
    Visitors = {v1, v2}
    Workers = {w1, w2}
    MaxTime = 5
SPECIFICATION Spec
INVARIANT GrowthExact
INVARIANT SavableInOrder
SYMMETRY Symmetry
INVARIANT Inv
INVARIANT YieldShared
CHECK_DEADLOCK FALSE
