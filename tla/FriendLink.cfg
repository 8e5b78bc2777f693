CONSTANTS
    a = a
    b = b
    c = c
    ab = ab
    ab2 = ab2
    cb = cb
    d1 = d1
    r = r
    Links = {ab, ab2}
    CodeOwner <- Owners
    Redeemer <- Redeemers
    MaxFriends = 1
    Requests = {d1}
    Reconciler = r
    MaxFaults = 1
SPECIFICATION FairSpec
PROPERTY RetriedLinkEnds
INVARIANT Inv
INVARIANT WithinLimit
INVARIANT FriendsAreMutual
INVARIANT CreditedOnce
INVARIANT RewardedOnce
CHECK_DEADLOCK FALSE
