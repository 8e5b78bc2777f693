-------------------------- MODULE MCActorScheduler --------------------------
(* Small instances of ActorScheduler, and the promise of the architecture   *)
(* document that they are checked against.                                  *)
EXTENDS ActorScheduler

\* The architecture document allows a maturity push about one second of
\* delay: a due plot of a resident Actor matures without another request.
MaturesInTime == \A p \in Players : Overdue(p) ~> ~Overdue(p)
=============================================================================
