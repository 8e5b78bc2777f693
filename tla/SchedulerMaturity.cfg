SPECIFICATION FairSpec
CONSTANTS
    Players = {p1}
    Workers = {"w1", "w2"}
    GrowTimes = {1, 2}
    MaxTime = 3
    MaxCommands = 3
    MaxEvicts = 1
PROPERTY MaturesUnlessOverlapped
INVARIANT Inv
INVARIANT DeadlineCovered
CHECK_DEADLOCK FALSE
