--------------------------- MODULE ShardOwnership ---------------------------
(***************************************************************************)
(* What the coordinator promises about one shard, whoever moves it: the     *)
(* fence names the only Zone and owner epoch whose checkpoint writes are     *)
(* accepted, requests are routed to nobody else, the fence moves only while  *)
(* nobody is routed to, and every move takes a higher epoch.                *)
(***************************************************************************)
EXTENDS Integers

CONSTANTS
    Zones,   \* the Zones that can own the shard
    Nobody   \* the shard is routed to no Zone

VARIABLES
    writer,  \* the Zone and owner epoch the fence lets write
    routed   \* the Zone and owner epoch requests are sent to, or Nobody

ownership == <<writer, routed>>

Grants == [owner : Zones, epoch : Nat]

Init ==
    /\ writer \in Grants
    /\ routed = writer

\* The route leaves ACTIVE.
Withdraw ==
    /\ routed # Nobody
    /\ routed' = Nobody
    /\ writer' = writer

\* The fence lets another owner write; the old one is refused from now on.
Move ==
    /\ routed = Nobody
    /\ writer' \in Grants
    /\ writer'.epoch > writer.epoch
    /\ routed' = Nobody

\* The route is ACTIVE again, for the owner the fence names.
Grant ==
    /\ routed = Nobody
    /\ routed' = writer
    /\ writer' = writer

Next == Withdraw \/ Move \/ Grant

Spec == Init /\ [][Next]_ownership
=============================================================================
