SPECIFICATION FairSpec
CONSTANTS
    Zones = {z1}
    Players = {p1}
    Workers = {"w1"}
    Ops = {"plant", "claim"}
    SyncOps = {}
    OutboxOps = {"claim"}
    Nobody = Nobody
    NoOp = "none"
    MaxEpoch = 1
    MaxFaults = 1
    MaxStops = 0
PROPERTY EventuallyDurable
CHECK_DEADLOCK FALSE
