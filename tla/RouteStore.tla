----------------------------- MODULE RouteStore -----------------------------
(***************************************************************************)
(* The Tcaplus route store (internal/coordinator/routestore/tcaplus.go).   *)
(* One ShardMapMeta record holds the map version and at most one pending   *)
(* commit; one ShardRoute record per shard holds the route.  A commit is   *)
(* three updates, each conditional on the record version that was read:    *)
(* the intent, the route, the map version.  Whoever loads the store and    *)
(* finds an intent finishes it.  The Clients are the replicas of the       *)
(* Coordinator: the leader commits, the followers poll with Load, and a    *)
(* deposed leader may still be in the middle of a commit.                  *)
(***************************************************************************)
EXTENDS Naturals, Sequences

CONSTANTS
    Shards, Zones, Transitions, None,
    Clients,            \* Coordinator replicas
    Home,               \* Home[s]: the owner that bootstrap gives to shard s
    MaxVersion,         \* bound on the map version
    MaxFaults           \* bound on errors, cancellations and crashes

ASSUME ConstantsOK ==
    /\ Shards # {} /\ Home \in [Shards -> Zones]
    /\ None \notin Zones \cup Transitions
    /\ MaxVersion \in Nat /\ MaxFaults \in Nat

VARIABLES
    meta,       \* the ShardMapMeta record and its record version
    row,        \* the ShardRoute records and their record versions
    client,     \* what each replica is doing inside the store
    snap,       \* the snapshot each replica holds in its routing.Map
    history,    \* history[v]: the routes of map version v (never read)
    overwritten, \* a bootstrap has replaced a committed route (never read)
    faults

vars == <<meta, row, client, snap, history, overwritten, faults>>

\* The map that the records stand for: an intent counts as soon as it is written.
MapVersion == meta.version + (IF meta.pending = {} THEN 0 ELSE 1)

Route(s) ==
    IF \E p \in meta.pending : p.shard = s
    THEN (CHOOSE p \in meta.pending : p.shard = s).entry
    ELSE row[s].entry

RM == INSTANCE RouteMap WITH mapVersion <- MapVersion,
                             entries <- [s \in Shards |-> Route(s)]

-----------------------------------------------------------------------------

Intents == [shard : Shards, entry : RM!Entry]

\* "rec" is the record version that a conditional update names.
Metas == [version : Nat \ {0}, pending : SUBSET Intents, rec : Nat]

Rows == [entry : RM!Entry, committed : Nat \ {0}, rec : Nat]

\* Version 0: the process has no snapshot of the store yet.
Snapshots == [version : Nat, entries : [Shards -> RM!Entry]]

BootSteps == {"boot", "boot_routes", "boot_update"}

Steps == BootSteps \cup
    {"idle", "load_meta", "load_routes", "reload_meta",
     "recover", "rewrite_row", "refinalize",
     "commit_meta", "commit_route", "set_pending", "write_row", "finalize"}

\* What a replica keeps while it is inside the store; "rows" are the routes read so far.
Calls ==
    [pc : Steps, meta : Metas, rows : [Shards -> Rows \cup {None}], row : Rows,
     target : Intents]

\* metaRecord, routeRecord: the records of a bootstrap.  The candidate is made of the
\* fence rows, which no migration moves before there is a map: all replicas propose
\* the same owners and epochs.
BootEntry(s) ==
    [owner |-> Home[s], epoch |-> 1, version |-> 1, state |-> "ACTIVE",
     previous |-> None, transition |-> None]

BootRow(s, rec) == [entry |-> BootEntry(s), committed |-> 1, rec |-> rec]

BootMeta(rec) == [version |-> 1, pending |-> {}, rec |-> rec]

\* Where an operation has read nothing yet.
AnyShard == CHOOSE s \in Shards : TRUE

NothingRead == [s \in Shards |-> None]

Call(pc) ==
    [pc |-> pc, meta |-> BootMeta(1), rows |-> NothingRead, row |-> BootRow(AnyShard, 1),
     target |-> [shard |-> AnyShard, entry |-> BootEntry(AnyShard)]]

NoSnapshot == [version |-> 0, entries |-> [s \in Shards |-> BootEntry(s)]]

(***************************************************************************)
(* The store is empty: no record has been inserted, which is record        *)
(* version 0.  Every replica bootstraps before it stands for election.     *)
(***************************************************************************)
Init ==
    /\ meta = BootMeta(0)
    /\ row = [s \in Shards |-> BootRow(s, 0)]
    /\ client = [c \in Clients |-> Call("boot")]
    /\ snap = [c \in Clients |-> NoSnapshot]
    /\ history = <<[s \in Shards |-> BootEntry(s)]>>
    /\ overwritten = FALSE
    /\ faults = 0

At(c, pc) == client[c].pc = pc

Goto(c, pc) == client' = [client EXCEPT ![c].pc = pc]

\* The operation goes on to this step with nothing of what it has read.
Begin(c, pc) == client' = [client EXCEPT ![c] = Call(pc)]

\* Without a snapshot the process ends with an error, and starts again.
Rest(version) == IF version = 0 THEN "boot" ELSE "idle"

\* An error returns from the store: nothing is kept of the operation.
Fails(c) == Begin(c, Rest(snap[c].version))

\* pendingRoute: the intent in the metadata that call k has read.
Pending(k) == CHOOSE p \in k.meta.pending : TRUE

\* routeRecord: the record that carries out this intent.
Intended(k, rec) ==
    [entry |-> Pending(k).entry, committed |-> k.meta.version + 1, rec |-> rec]

-----------------------------------------------------------------------------
\* Load.

\* A follower's poll, a leader's reload, or the executor before a commit.
BeginLoad(c) ==
    /\ At(c, "idle")
    /\ Begin(c, "load_meta")
    /\ UNCHANGED <<meta, row, snap, history, overwritten, faults>>

(***************************************************************************)
(* The routes that Load traverses next to a pending commit are read again  *)
(* after the recovery, so the first traversal is left out.                 *)
(***************************************************************************)
LoadMeta(c) ==
    /\ \/ At(c, "load_meta")
       \/ At(c, "reload_meta")
    /\ client' = [client EXCEPT
         ![c].meta = meta,
         ![c].rows = NothingRead,
         ![c].pc = IF At(c, "load_meta") /\ meta.pending # {}
                   THEN "recover" ELSE "load_routes"]
    /\ UNCHANGED <<meta, row, snap, history, overwritten, faults>>

\* Traverse returns the routes one after the other, in any order.
LoadRoute(c, s) ==
    /\ At(c, "load_routes")
    /\ client[c].rows[s] = None
    /\ client' = [client EXCEPT ![c].rows[s] = row[s]]
    /\ UNCHANGED <<meta, row, snap, history, overwritten, faults>>

\* The check is forgotten.
AssemblesAny(c) == TRUE

\* snapshotFromRecords: no route may be ahead of the metadata.
Assembles(c) ==
    \A s \in Shards : client[c].rows[s].committed <= client[c].meta.version

\* A newer snapshot replaces the routing.Map, an older one is refused.
Assemble(c) ==
    /\ At(c, "load_routes")
    /\ \A s \in Shards : client[c].rows[s] # None
    /\ snap' = IF Assembles(c) /\ client[c].meta.version > snap[c].version
               THEN [snap EXCEPT ![c] =
                        [version |-> client[c].meta.version,
                         entries |-> [s \in Shards |-> client[c].rows[s].entry]]]
               ELSE snap
    /\ Begin(c, Rest(snap'[c].version))
    /\ UNCHANGED <<meta, row, history, overwritten, faults>>

\* The route may be overwritten if the change is legal and it is the last one committed.
Recoverable(k, r) ==
    /\ RM!Legal(r.entry, Pending(k).entry)
    /\ r.committed = k.meta.version

\* recoverPending: the route is written already, or may be, or is called corrupt.
Recover(c) ==
    LET r == row[Pending(client[c]).shard] IN
    /\ At(c, "recover")
    /\ \/ /\ r = Intended(client[c], r.rec)
          /\ Goto(c, "refinalize")
       \/ /\ r # Intended(client[c], r.rec) /\ Recoverable(client[c], r)
          /\ client' = [client EXCEPT ![c].row = r, ![c].pc = "rewrite_row"]
       \/ /\ r # Intended(client[c], r.rec) /\ ~Recoverable(client[c], r)
          /\ Fails(c)
    /\ UNCHANGED <<meta, row, snap, history, overwritten, faults>>

\* The update of the route names the record version that was read.
SameRow(k) == row[Pending(k).shard].rec = k.row.rec

WriteRow(c) ==
    LET s == Pending(client[c]).shard IN
    /\ At(c, "write_row") \/ At(c, "rewrite_row")
    /\ \/ /\ SameRow(client[c])
          /\ row' = [row EXCEPT ![s] = Intended(client[c], row[s].rec + 1)]
          /\ Goto(c, IF At(c, "write_row") THEN "finalize" ELSE "refinalize")
       \/ /\ ~SameRow(client[c])
          /\ Fails(c)
          /\ UNCHANGED row
    /\ UNCHANGED <<meta, snap, history, overwritten, faults>>

\* The update is not conditional.
AnyMeta(k) == TRUE

\* The update of the metadata names the record version that was read.  (It leaves
\* VersionPolicy out; the repository's fake then compares versions all the same.)
SameMeta(k) == meta.rec = k.meta.rec

(***************************************************************************)
(* finalizeMeta: commit goes on to Load; Load goes on to read the metadata *)
(* and the routes again, and does not look for another pending commit.     *)
(***************************************************************************)
FinalizeMeta(c) ==
    /\ At(c, "finalize") \/ At(c, "refinalize")
    /\ \/ /\ SameMeta(client[c])
          /\ meta' = [version |-> client[c].meta.version + 1, pending |-> {},
                      rec |-> meta.rec + 1]
          /\ Begin(c, IF At(c, "finalize") THEN "load_meta" ELSE "reload_meta")
       \/ /\ ~SameMeta(client[c])
          /\ Fails(c)
          /\ UNCHANGED meta
    /\ UNCHANGED <<row, snap, history, overwritten, faults>>

-----------------------------------------------------------------------------
\* commit: CommitPreparing, CommitActive and RestoreSource.

\* What the callers make of the route e they know.
Proposals(e) ==
    IF e.state = "ACTIVE"
    THEN {[owner |-> z, epoch |-> e.epoch + 1, version |-> e.version + 1,
           state |-> "PREPARING", previous |-> e.owner, transition |-> t] :
                z \in Zones \ {e.owner}, t \in Transitions}
    ELSE {[e EXCEPT !.state = "ACTIVE", !.version = e.version + 1],
          [owner |-> e.previous, epoch |-> e.epoch - 1, version |-> e.version + 1,
           state |-> "ACTIVE", previous |-> None, transition |-> None]}

BeginCommit(c, s, next) ==
    /\ At(c, "idle")
    /\ snap[c].version < MaxVersion
    /\ next \in Proposals(snap[c].entries[s])
    /\ client' = [client EXCEPT ![c].pc = "commit_meta",
                                ![c].target = [shard |-> s, entry |-> next]]
    /\ UNCHANGED <<meta, row, snap, history, overwritten, faults>>

CommitLoadMeta(c) ==
    /\ At(c, "commit_meta")
    /\ client' = [client EXCEPT ![c].meta = meta, ![c].pc = "commit_route"]
    /\ UNCHANGED <<meta, row, snap, history, overwritten, faults>>

(***************************************************************************)
(* The same commit, pending or finished, is answered with Load.  The       *)
(* stored times are cut to milliseconds and those of the caller are not,   *)
(* so the comparison may also fail for the same commit.                    *)
(***************************************************************************)
SameCommit(c, r) ==
    LET m == client[c].meta  t == client[c].target IN
    \/ m.pending = {t} /\ m.version = snap[c].version
    \/ /\ m.pending = {} /\ m.version = snap[c].version + 1
       /\ r.entry = t.entry /\ r.committed = m.version

\* A commit that is pending is not noticed.
ExpectedVersion(c) == client[c].meta.version = snap[c].version

Expected(c) ==
    /\ client[c].meta.pending = {}
    /\ client[c].meta.version = snap[c].version

CommitLoadRoute(c) ==
    LET r == row[client[c].target.shard]
        valid == Expected(c) /\ RM!Legal(r.entry, client[c].target.entry)
    IN
    /\ At(c, "commit_route")
    /\ \/ /\ SameCommit(c, r)
          /\ Begin(c, "load_meta")
       \/ /\ valid
          /\ client' = [client EXCEPT ![c].row = r, ![c].pc = "set_pending"]
       \/ /\ ~valid
          /\ Fails(c)
    /\ UNCHANGED <<meta, row, snap, history, overwritten, faults>>

\* The routes once this intent is carried out.
Committed(c) ==
    [s \in Shards |-> IF s = client[c].target.shard THEN client[c].target.entry
                      ELSE row[s].entry]

SetPending(c) ==
    /\ At(c, "set_pending")
    /\ \/ /\ SameMeta(client[c])
          /\ meta' = [meta EXCEPT !.pending = {client[c].target}, !.rec = meta.rec + 1]
          /\ client' = [client EXCEPT ![c].meta = meta', ![c].pc = "write_row"]
          /\ history' = Append(history, Committed(c))
       \/ /\ ~SameMeta(client[c])
          /\ Fails(c)
          /\ UNCHANGED <<meta, history>>
    /\ UNCHANGED <<row, snap, overwritten, faults>>

-----------------------------------------------------------------------------

\* BootstrapIfEmpty: metadata that exists is loaded.
Bootstrap(c) ==
    /\ At(c, "boot")
    /\ Begin(c, IF meta.rec = 0 THEN "boot_routes" ELSE "load_meta")
    /\ UNCHANGED <<meta, row, snap, history, overwritten, faults>>

\* A route is inserted, in any order; one that exists is read, to be overwritten.
BootstrapRoute(c, s) ==
    /\ At(c, "boot_routes")
    /\ client[c].rows[s] = None
    /\ \/ /\ row[s].rec = 0
          /\ row' = [row EXCEPT ![s] = BootRow(s, 1)]
          /\ client' = [client EXCEPT ![c].rows[s] = BootRow(s, 1)]
       \/ /\ row[s].rec > 0
          /\ client' = [client EXCEPT ![c].row = row[s], ![c].target.shard = s,
                                      ![c].pc = "boot_update"]
          /\ UNCHANGED row
    /\ UNCHANGED <<meta, snap, history, overwritten, faults>>

\* The update names the record version that was read, whatever the record says.
BootstrapUpdate(c) ==
    LET s == client[c].target.shard IN
    /\ At(c, "boot_update")
    /\ \/ /\ row[s].rec = client[c].row.rec
          /\ row' = [row EXCEPT ![s] = BootRow(s, row[s].rec + 1)]
          /\ overwritten' = (overwritten \/ row[s].committed > 1)
          /\ client' = [client EXCEPT ![c].rows[s] = BootRow(s, 1), ![c].pc = "boot_routes"]
       \/ /\ row[s].rec # client[c].row.rec
          /\ Fails(c)
          /\ UNCHANGED <<row, overwritten>>
    /\ UNCHANGED <<meta, snap, history, faults>>

\* The metadata is inserted last; if another replica was first, its map is loaded.
BootstrapMeta(c) ==
    /\ At(c, "boot_routes")
    /\ \A s \in Shards : client[c].rows[s] # None
    /\ meta' = IF meta.rec = 0 THEN BootMeta(1) ELSE meta
    /\ Begin(c, "load_meta")
    /\ UNCHANGED <<row, snap, history, overwritten, faults>>

-----------------------------------------------------------------------------

\* A request fails, after its effect or before it, or the context is cancelled.
Stop(c) ==
    /\ ~At(c, "idle")
    /\ faults < MaxFaults
    /\ faults' = faults + 1
    /\ Fails(c)
    /\ UNCHANGED <<meta, row, snap, history, overwritten>>

\* The process ends, and its successor starts.
Restart(c) ==
    /\ faults < MaxFaults
    /\ faults' = faults + 1
    /\ snap' = [snap EXCEPT ![c] = NoSnapshot]
    /\ Begin(c, "boot")
    /\ UNCHANGED <<meta, row, history, overwritten>>

\* The steps of an operation that has begun.
Proceed(c) ==
    \/ LoadMeta(c) \/ (\E s \in Shards : LoadRoute(c, s)) \/ Assemble(c)
    \/ Recover(c) \/ WriteRow(c) \/ FinalizeMeta(c)
    \/ CommitLoadMeta(c) \/ CommitLoadRoute(c) \/ SetPending(c)
    \/ Bootstrap(c) \/ (\E s \in Shards : BootstrapRoute(c, s))
    \/ BootstrapUpdate(c) \/ BootstrapMeta(c)

Next ==
    \E c \in Clients :
        \/ BeginLoad(c)
        \/ \E s \in Shards : \E next \in Proposals(snap[c].entries[s]) : BeginCommit(c, s, next)
        \/ Proceed(c)
        \/ Stop(c)
        \/ Restart(c)

Spec == Init /\ [][Next]_vars

-----------------------------------------------------------------------------

TypeOK ==
    /\ meta \in Metas
    /\ row \in [Shards -> Rows]
    /\ client \in [Clients -> Calls]
    /\ snap \in [Clients -> Snapshots]
    /\ history \in Seq([Shards -> RM!Entry])
    /\ overwritten \in BOOLEAN
    /\ faults \in 0 .. MaxFaults

\* The steps of a replica that works with the metadata it has read.
HoldsMeta == {"load_routes", "recover", "rewrite_row", "refinalize",
              "commit_route", "set_pending", "write_row", "finalize"}

\* Nothing but bootstraps goes on before the metadata exists.
BootFirst ==
    /\ meta.rec = 0 =>
        /\ meta = BootMeta(0)
        /\ \A c \in Clients : client[c].pc \in BootSteps /\ snap[c].version = 0
        /\ \A s \in Shards : row[s].committed = 1
    /\ \A s \in Shards :
        /\ row[s].rec = 0 => row[s].committed = 1
        /\ row[s].committed = 1 => row[s].entry = BootEntry(s)

\* A call that carries out an intent has read one.
HasIntent(k) ==
    k.pc \in {"recover", "rewrite_row", "refinalize", "write_row", "finalize"} =>
        k.meta.pending # {}

\* Only the pending route is ahead of the map, and then it is the intended one.
RowsBehindMap ==
    \A s \in Shards :
        \/ row[s].committed <= meta.version
        \/ \E p \in meta.pending :
            p.shard = s /\ row[s].entry = p.entry /\ row[s].committed = meta.version + 1

\* The history ends with the map that the records stand for.
HistoryKept ==
    /\ Len(history) = MapVersion
    /\ \A s \in Shards : \A v \in 1 .. meta.version :
        row[s].committed <= v => history[v][s] = row[s].entry
    /\ \A p \in meta.pending :
        /\ history[meta.version + 1][p.shard] = p.entry
        /\ \A s \in Shards \ {p.shard} :
            history[meta.version + 1][s] = history[meta.version][s]

OnePending == \A p, q \in meta.pending : p = q

\* Equal record versions mean equal records.
MetaCopy(k) ==
    k.pc \in HoldsMeta =>
        /\ k.meta.rec <= meta.rec
        /\ k.meta.version <= meta.version
        /\ SameMeta(k) => k.meta = meta

\* A call that is about to write an intent has read the route of this very map.
ReadyToIntend(k) ==
    k.pc = "set_pending" =>
        /\ k.meta.pending = {}
        /\ RM!Legal(k.row.entry, k.target.entry)
        /\ k.row.rec <= row[k.target.shard].rec
        /\ SameMeta(k) =>
            /\ k.row.entry = row[k.target.shard].entry
            /\ k.row.committed = row[k.target.shard].committed

\* A call that is about to recover a commit that is over finds its route too new.
ReadyToRecover(k) ==
    k.pc = "recover" =>
        SameMeta(k) \/ row[Pending(k).shard].committed > k.meta.version

\* A call that may still write a route writes the one that is pending.
ReadyToWrite(k) ==
    k.pc \in {"write_row", "rewrite_row"} =>
        /\ k.row.committed <= k.meta.version
        /\ k.row.rec <= row[Pending(k).shard].rec
        /\ SameRow(k) => SameMeta(k) /\ k.row = row[Pending(k).shard]

\* A call that may still raise the version has seen the pending route written.
ReadyToFinalize(k) ==
    (k.pc \in {"finalize", "refinalize"} /\ SameMeta(k)) =>
        row[Pending(k).shard] = Intended(k, row[Pending(k).shard].rec)

\* What a traversal has read is what its version had, unless Assembles refuses it.
ReadsKept(k) ==
    k.pc = "load_routes" =>
        \A s \in Shards :
            \/ k.rows[s] = None
            \/ k.rows[s].committed > k.meta.version
            \/ k.rows[s].entry = history[k.meta.version][s]

CallOK(k) ==
    /\ MetaCopy(k)
    /\ ReadyToIntend(k) /\ ReadyToRecover(k) /\ ReadyToWrite(k) /\ ReadyToFinalize(k)
    /\ ReadsKept(k)

SnapshotsKept ==
    \A c \in Clients : snap[c].version > 0 =>
        /\ snap[c].version <= Len(history)
        /\ snap[c].entries = history[snap[c].version]

\* What the records, the calls and the snapshots are while nothing is overwritten.
Sound ==
    /\ RowsBehindMap
    /\ HistoryKept
    /\ OnePending
    /\ SnapshotsKept
    /\ \A c \in Clients : CallOK(client[c])

(***************************************************************************)
(* The inductive invariant: until a bootstrap replaces a committed route,  *)
(* no conditional update succeeds on a copy that is out of date, so a      *)
(* recovery and the commit that it completes never undo each other.        *)
(***************************************************************************)
Inv ==
    /\ TypeOK
    /\ BootFirst
    /\ \A c \in Clients : HasIntent(client[c])
    /\ overwritten \/ Sound

(***************************************************************************)
(* A snapshot that Load returns is exactly the map of some version: the    *)
(* metadata and the routes are read one by one, next to commits that write *)
(* them one by one and to other replicas that start, and still no half of  *)
(* a commit is ever applied, unless a bootstrap has undone a commit.       *)
(***************************************************************************)
LoadedIsCommitted == overwritten \/ SnapshotsKept

(***************************************************************************)
(* The records behave as one map that changes atomically: an intent, its   *)
(* route and its version are one commit, made when the intent is written,  *)
(* wherever a replica stops and whatever the others do, until a bootstrap  *)
(* that began when the store was empty replaces a route that has been      *)
(* committed since.                                                        *)
(***************************************************************************)
Atomic == RM!Init /\ [][RM!Next \/ overwritten']_(RM!vars)

(***************************************************************************)
(* "repeat and concurrent bootstrap load the winner without overwriting    *)
(* Current" (2026-08-12-durable-current-shard-route.md).                   *)
(***************************************************************************)
NeverOverwritten == ~overwritten

(***************************************************************************)
(* recoverPending calls the store corrupt only if it is: what a stopped    *)
(* commit left behind can always be finished.                              *)
(***************************************************************************)
InterruptedIsRecoverable ==
    \A c \in Clients :
        LET r == row[Pending(client[c]).shard] IN
        (At(c, "recover") /\ SameMeta(client[c])) =>
            r = Intended(client[c], r.rec) \/ Recoverable(client[c], r)
=============================================================================
