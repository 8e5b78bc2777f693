CONSTANTS
    g1 = g1
    g2 = g2
    w1 = w1
    w2 = w2
    Gifts = {g1}
    Workers = {w1, w2}
    Quantity <- OneEach
    InitialCrops = 2
    MaxHarvests = 1
    MaxFaults = 2
SPECIFICATION FairSpec
PROPERTY AwaitEnds
INVARIANT Inv
INVARIANT OneMail
INVARIANT ChargedIsClaimed
INVARIANT ChargedOnce
CHECK_DEADLOCK FALSE
