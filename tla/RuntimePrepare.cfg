SPECIFICATION Spec
CONSTANTS
    Zones = {z1, z2}
    Players = {p1}
    Workers = {"w1"}
    Ops = {"claim"}
    SyncOps = {}
    OutboxOps = {"claim"}
    Nobody = Nobody
    NoOp = "none"
    MaxEpoch = 2
    MaxFaults = 0
    MaxStops = 2
PROPERTY PrepareAcceptsManifest
CHECK_DEADLOCK FALSE
