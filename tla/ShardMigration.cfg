SPECIFICATION Spec
CONSTANTS
    Replicas = {"r1", "r2"}
    Zones = {"z1", "z2"}
    Home = "z1"
    FirstLeader = "r1"
    Priorities = {2}
    NoReplica = NoReplica
    Nobody = Nobody
    MaxTasks = 1
    MaxFaults = 1
INVARIANT Inv
PROPERTY Owned
CHECK_DEADLOCK FALSE
