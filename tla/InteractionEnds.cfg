CONSTANTS
    i1 = i1
    i2 = i2
    i3 = i3
    d1 = d1
    d2 = d2
    r = r
    Sagas = {i1}
    Directs = {i3}
    Steals = {i3}
    Requests = {d1}
    Reconciler = r
    Room = 1
    MaxHarvests = 0
    MaxFaults = 1
SPECIFICATION FairSpec
PROPERTY RetriedEnds
INVARIANT CreditedWasApplied
CHECK_DEADLOCK FALSE
