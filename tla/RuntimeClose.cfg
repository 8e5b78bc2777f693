SPECIFICATION Spec
CONSTANTS
    Zones = {z1}
    Players = {p1, p2}
    Workers = {"w1"}
    Ops = {"plant", "sell"}
    SyncOps = {}
    OutboxOps = {}
    Nobody = Nobody
    NoOp = "none"
    MaxEpoch = 1
    MaxFaults = 0
    MaxStops = 1
PROPERTY CloseFlushesDirty
CHECK_DEADLOCK FALSE
