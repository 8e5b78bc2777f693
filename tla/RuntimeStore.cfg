SPECIFICATION Spec
CONSTANTS
    Zones = {z1}
    Players = {p1}
    Workers = {"w1"}
    Ops = {"steal", "claim"}
    SyncOps = {"steal"}
    OutboxOps = {"claim"}
    Nobody = Nobody
    NoOp = "none"
    MaxEpoch = 1
    MaxFaults = 2
    MaxStops = 1
INVARIANT OutboxFollowsCheckpoint
INVARIANT DirtyTracked
PROPERTY RemovalLosesNothing
CHECK_DEADLOCK FALSE
