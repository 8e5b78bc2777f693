CONSTANTS
    a = a
    b = b
    c = c
    ab = ab
    ab2 = ab2
    cb = cb
    d1 = d1
    r = r
    Links = {ab}
    CodeOwner <- Owners
    Redeemer <- Redeemers
    MaxFriends = 1
    Requests = {d1}
    Reconciler = r
    MaxFaults = 1
SPECIFICATION Spec
INVARIANT ClaimedIsMailed
CHECK_DEADLOCK FALSE
