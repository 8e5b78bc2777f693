---------------------------- MODULE MCFriendLink ----------------------------
EXTENDS FriendLink, TLC

CONSTANTS a, b, c, ab, ab2, cb, d1, r

\* b redeems two codes of a and one of c.
Owners == [l \in Links |-> IF l = cb THEN c ELSE a]
Redeemers == [l \in Links |-> b]

\* Once the redeemer has claimed the first-friend reward, both mails are created:
\* a Saga that claimed it does not end without them.
ClaimedIsMailed ==
    \A l \in rewarded : saga[l].status \in Terminal =>
        Cardinality({m \in mails : m.for = Redeemer[l]}) = 2

\* "before the Reconciler is allowed to release it back to the pool": a Saga that
\* has ended holds no slot.
EndedHoldsNothing ==
    \A l \in Links : saga[l].status \in Terminal =>
        \A p \in Pair(l) : l \notin list[p].reservations
=============================================================================
