----------------------------- MODULE RouteMap -----------------------------
(***************************************************************************)
(* What the durable route store promises to the Coordinator: a map from    *)
(* shard to route that changes one route at a time, by a legal change, and *)
(* counts its changes.  RouteStore.tla implements it with two kinds of     *)
(* Tcaplus records and no transaction.                                     *)
(***************************************************************************)
EXTENDS Naturals

CONSTANTS
    Shards,         \* logical shard IDs
    Zones,          \* Zone IDs
    Transitions,    \* transition UUIDs
    None            \* the empty string of an optional field

VARIABLES
    mapVersion,     \* ShardMapMeta.map_version
    entries         \* the committed RouteEntry of each shard

vars == <<mapVersion, entries>>

\* RouteEntry without its endpoint, lease and times.
Entry ==
    {e \in [owner : Zones, epoch : Nat \ {0}, version : Nat \ {0},
            state : {"ACTIVE", "PREPARING"},
            previous : Zones \cup {None}, transition : Transitions \cup {None}] :
        e.state = "PREPARING" => e.previous # None /\ e.epoch > 1}

\* validatePreparing: an owned shard is promised to another Zone.
ValidPreparing(current, next) ==
    /\ current.state = "ACTIVE" /\ next.state = "PREPARING"
    /\ next.owner # current.owner
    /\ next.previous = current.owner
    /\ next.epoch > current.epoch
    /\ next.version = current.version + 1
    /\ next.transition # None

\* validateActive: the promise is kept.
ValidActive(current, next) ==
    /\ current.state = "PREPARING" /\ next.state = "ACTIVE"
    /\ next.owner = current.owner
    /\ next.epoch = current.epoch
    /\ next.version = current.version + 1
    /\ next.transition = current.transition

\* validateRestoredSource: the promise is withdrawn.
ValidRestored(current, next) ==
    /\ current.state = "PREPARING" /\ next.state = "ACTIVE"
    /\ next.owner = current.previous
    /\ next.version > current.version

Legal(current, next) ==
    \/ ValidPreparing(current, next)
    \/ ValidActive(current, next)
    \/ ValidRestored(current, next)

Init ==
    /\ mapVersion = 1
    /\ entries \in [Shards -> {e \in Entry : e.state = "ACTIVE"}]

Commit(s) ==
    /\ mapVersion' = mapVersion + 1
    /\ entries' = [entries EXCEPT ![s] = entries'[s]]
    /\ Legal(entries[s], entries'[s])

Next == \E s \in Shards : Commit(s)

Spec == Init /\ [][Next]_vars
===========================================================================
