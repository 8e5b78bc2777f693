SPECIFICATION Spec
CONSTANTS
    Zones = {z1, z2}
    Players = {p1}
    Workers = {"w1"}
    Ops = {"steal"}
    SyncOps = {"steal"}
    OutboxOps = {}
    Nobody = Nobody
    NoOp = "none"
    MaxEpoch = 2
    MaxFaults = 1
    MaxStops = 0
SYMMETRY Symm
INVARIANT AckedDurable
PROPERTY RowExtends
CHECK_DEADLOCK FALSE
