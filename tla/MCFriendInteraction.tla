------------------------ MODULE MCFriendInteraction ------------------------
EXTENDS FriendInteraction, TLC

CONSTANTS i1, i2, i3, d1, d2, r

Symmetry == Permutations({i1, i2})

\* "The owner definitively rejected the action ... without mutating: this is
\* deterministic, not ambiguous, so release and abort now": what was aborted has
\* not changed the owner's farm.
AbortedNotApplied ==
    \A i \in Sagas : record[i].status \in {"RELEASING", "ABORTED"} => i \notin everApplied

\* AbortedError: "RELEASING already ran (or needed nothing to release), so the
\* visitor holds no live reservation".
AbortedHoldsNothing ==
    \A i \in Sagas : record[i].status = "ABORTED" => visitor.reservations[i] # "RESERVED"

\* ApplyStealOnOwner "durably (synchronous SaveCAS) appends an OWNER
\* FriendInteractionReceipt": what the visitor was credited for is in the owner's
\* state.
CreditedIsKept ==
    \A i \in Sagas : record[i].status = "COMPLETED" => i \in owner.receipts
=============================================================================
