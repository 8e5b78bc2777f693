CONSTANTS
    Maturity = 10
    BaseRate = 3
    FertilizerRate = 2
    FertilizerTime = 2
    PestTime = 2
    BaseYield = 3
    StealQuantity = 2
    MaxStealTimes = 2
    ProtectedOwnerYield = 1
    PestRate <- MinusOne
    Visitors = {v1, v2}
    Workers = {w1, w2}
    MaxTime = 4
SPECIFICATION Spec
INVARIANT Savable
CHECK_DEADLOCK FALSE
