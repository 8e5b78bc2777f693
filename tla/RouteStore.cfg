CONSTANTS
    s1 = s1
    s2 = s2
    z1 = z1
    z2 = z2
    c1 = c1
    c2 = c2
    None = None
    Shards = {s1, s2}
    Zones = {z1, z2}
    Transitions = {"t"}
    Clients = {c1, c2}
    Home <- Homes
    MaxVersion = 3
    MaxFaults = 1
SYMMETRY Replicas
CONSTRAINT Bounded
SPECIFICATION Spec
INVARIANT Inv
INVARIANT LoadedIsCommitted
PROPERTY Atomic
