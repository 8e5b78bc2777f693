SPECIFICATION FairSpec
CONSTANTS
    Zones = {z1}
    Players = {p1}
    Workers = {"w1", "w2"}
    Ops = {"steal", "claim"}
    SyncOps = {"steal"}
    OutboxOps = {"claim"}
    Nobody = Nobody
    NoOp = "none"
    MaxEpoch = 1
    MaxFaults = 0
    MaxStops = 0
PROPERTY EventuallyDurable
CHECK_DEADLOCK FALSE
