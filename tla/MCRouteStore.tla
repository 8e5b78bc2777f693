---------------------------- MODULE MCRouteStore ----------------------------
(* Two shards, two Zones and two replicas of the Coordinator.              *)
EXTENDS RouteStore, TLC

CONSTANTS s1, s2, z1, z2, c1, c2

Homes == [s \in Shards |-> z1]

\* The replicas are interchangeable.
Replicas == Permutations(Clients)

\* Two bootstraps may fail on each other's updates for ever.
MaxRecord == 4

Bounded == \A s \in Shards : row[s].rec <= MaxRecord
=============================================================================
