CONSTANTS
    g1 = g1
    g2 = g2
    w1 = w1
    w2 = w2
    Gifts = {g1}
    Workers = {w1, w2}
    Quantity <- OneEach
    InitialCrops = 2
    MaxHarvests = 0
    MaxFaults = 0
SPECIFICATION Spec
INVARIANT GiftsSerialized
CHECK_DEADLOCK FALSE
