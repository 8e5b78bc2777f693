CONSTANTS
    i1 = i1
    i2 = i2
    i3 = i3
    d1 = d1
    d2 = d2
    r = r
    Sagas = {i1, i2}
    Directs = {}
    Steals = {i1, i2}
    Requests = {d1}
    Reconciler = r
    Room = 1
    MaxHarvests = 1
    MaxFaults = 1
SPECIFICATION Spec
INVARIANT Inv
INVARIANT OneEffectEach
INVARIANT CreditedWasApplied
INVARIANT OutcomeAgrees
INVARIANT ReservationsFit
INVARIANT AppliedCanCommit
SYMMETRY Symmetry
CHECK_DEADLOCK FALSE
