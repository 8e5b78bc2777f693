--------------------------- MODULE PlayerRuntime ---------------------------
(***************************************************************************)
(* The Player Actor runtime of a Zone: activation of Actors from the       *)
(* checkpoint store, commands on the Actor mailbox, synchronous Saga steps *)
(* that are settled before they are answered, the dirty flusher, idle      *)
(* eviction, and the drain / prepare pair of a shard migration.  Several   *)
(* Zones share one checkpoint store and the shard's fence; RPCs to the     *)
(* store may time out and still land later; a Zone may crash or close.     *)
(*                                                                         *)
(* One logical shard is modelled.  The business content of a checkpoint is *)
(* the set of mutations it contains, so that a lost or overwritten         *)
(* mutation is visible.                                                    *)
(***************************************************************************)
EXTENDS Integers, FiniteSets

CONSTANTS
    Zones,       \* Zone processes that can own the shard
    Players,     \* players whose Actors live on the shard
    Workers,     \* concurrent request goroutines of one Zone
    Ops,         \* business mutations (one request or Saga step each)
    SyncOps,     \* those settled durably before they are answered
    OutboxOps,   \* those that append a PendingOutboxRecord
    Nobody, NoOp, \* no player, no mutation
    MaxEpoch,    \* bound: fence epochs
    MaxFaults,   \* bound: timeouts, store errors, crashes, cancelled requests
    MaxStops     \* bound: graceful closes, evictions and drains started

ASSUME RuntimeAssumption ==
    /\ SyncOps \subseteq Ops
    /\ OutboxOps \subseteq Ops
    /\ Nobody \notin Players
    /\ NoOp \notin Ops
    /\ "flusher" \notin Workers
    /\ "exclusive" \notin Workers
    /\ MaxEpoch \in Nat
    /\ MaxFaults \in Nat
    /\ MaxStops \in Nat
    /\ Zones # {}

VARIABLES
    row,       \* PlayerCheckpoint rows with their Tcaplus version
    fence,     \* the ShardFence row: owner and epoch
    outbox,    \* PlayerOutbox rows by player and mutation
    late,      \* store requests whose sender has given up on the answer
    view,      \* the epoch a Zone is authorized for (0: none)
    status,    \* life of the Zone process
    inc,       \* incarnation of the Zone process
    actor,     \* Runtime.actors
    dirty,     \* Runtime.dirtyRevision (0: no entry)
    task,      \* the goroutines that touch Actors
    acked,     \* Saga steps reported as done, per player
    manifest,  \* result of the last complete drain
    faults, stops

store == <<row, outbox, late>>
env == <<fence, view, status, inc>>
obs == <<acked, manifest>>
bounds == <<faults, stops>>
vars == <<row, fence, outbox, late, view, status, inc, actor, dirty, task,
          acked, manifest, faults, stops>>

Threads == Workers \cup {"flusher", "exclusive"}

----------------------------------------------------------------------------
(* Data.                                                                   *)

\* A checkpoint: revision, owner epoch, the mutations it contains, its
\* pending outbox entries, and the incarnation that last stamped UpdatedAtMS.
Contents == [rev : Nat, epoch : Nat, data : SUBSET Ops,
             pend : SUBSET OutboxOps, by : Nat]

NoContent == [rev |-> 0, epoch |-> 0, data |-> {}, pend |-> {}, by |-> 0]

\* ver = 0 is the absent row.
Rows == [c : Contents, ver : Nat]

Requests == [z : Zones, p : Players, snap : Contents, exp : Nat, tok : Nat]

Lives == {"absent", "loading", "creating", "inserting", "reconciling",
          "ready", "evicting"}

Actors == [life : Lives, want : Nat, st : Contents, prev : Nat, ptok : Nat,
           marks : [SyncOps -> Nat]]

NoMarks == [o \in SyncOps |-> 0]

NoActor == [life |-> "absent", want |-> 0, st |-> NoContent, prev |-> 0,
            ptok |-> 0, marks |-> NoMarks]

Jobs == {"none", "command", "flush", "evict", "drain", "prepare"}

\* Phases of SaveCAS and of its callers' reaction, shared by every job.
SavePcs == {"fence", "update", "recon", "outbox", "ack", "verify"}

PCs == {"idle", "wait", "dirty", "inspect", "mark", "flush", "confirm",
        "next"} \cup SavePcs

NoRevs == [p \in Players |-> 0]

Tasks == [pc : PCs, job : Jobs, p : Players \cup {Nobody},
          op : Ops \cup {NoOp}, todo : SUBSET Players, epoch : Nat,
          plan : [Players -> Nat], target : Nat, mrev : Nat,
          snap : Contents, exp : Nat, tok : Nat, newtok : Nat]

IdleTask == [pc |-> "idle", job |-> "none", p |-> Nobody, op |-> NoOp,
             todo |-> {}, epoch |-> 0, plan |-> NoRevs,
             target |-> 0, mrev |-> 0,
             snap |-> NoContent, exp |-> 0, tok |-> 0, newtok |-> 0]

Manifests == [epoch : Nat, revs : [Players -> Nat]]
NoManifest == [epoch |-> 0, revs |-> NoRevs]

TypeOK ==
    /\ row \in [Players -> Rows]
    /\ fence \in [owner : Zones, epoch : Nat]
    /\ outbox \in [Players -> [OutboxOps -> {"none", "pending", "delivered"}]]
    /\ late \subseteq Requests
    /\ view \in [Zones -> Nat]
    /\ status \in [Zones -> {"up", "closing", "down"}]
    /\ inc \in [Zones -> Nat]
    /\ actor \in [Zones -> [Players -> Actors]]
    /\ dirty \in [Zones -> [Players -> Nat]]
    /\ task \in [Zones -> [Threads -> Tasks]]
    /\ acked \in [Players -> SUBSET SyncOps]
    /\ manifest \in Manifests
    /\ faults \in 0..MaxFaults
    /\ stops \in 0..MaxStops

----------------------------------------------------------------------------
(* Helpers.                                                                *)

SetTask(z, k, t) == task' = [task EXCEPT ![z][k] = t]
EndTask(z, k) == SetTask(z, k, IdleTask)
SetActor(z, p, a) == actor' = [actor EXCEPT ![z][p] = a]

\* The shard's RWMutex: requests and the flusher's visit of one player read,
\* eviction, drain and prepare write.
Reading(z) == \/ \E k \in Workers : task[z][k].pc # "idle"
              \/ task[z]["flusher"].pc \notin {"idle", "next"}
Writing(z) == task[z]["exclusive"].pc # "idle"

Fault == faults < MaxFaults /\ faults' = faults + 1
NoFault == UNCHANGED faults
Stop == stops < MaxStops /\ stops' = stops + 1

\* markDirty keeps the highest revision.
Dirtied(z, p, rev) ==
    dirty' = [dirty EXCEPT ![z][p] = IF rev > @ THEN rev ELSE @]

\* One business mutation: every one advances CheckpointRevision by one.
Mutate(c, op, z) ==
    [c EXCEPT !.rev = @ + 1, !.data = @ \cup {op},
              !.pend = @ \cup ({op} \cap OutboxOps), !.by = inc[z]]

\* An update that only asks whether the row exists.
MatchesExisting(r) == (r.tok = 0) = (row[r.p].ver = 0)

\* Conditional update (version and checkpoint_revision), insert-if-absent
\* being the case tok = 0.
Matches(r) == row[r.p].ver = r.tok /\ row[r.p].c.rev = r.exp
Write(r) ==
    row' = [row EXCEPT ![r.p] = [c |-> r.snap, ver |-> row[r.p].ver + 1]]

RequestOf(z, t) ==
    [z |-> z, p |-> t.p, snap |-> t.snap, exp |-> t.exp, tok |-> t.tok]

\* ensureOutbox over the entries S: rows that exist are left alone.
Ensure(p, S) ==
    outbox' = [outbox EXCEPT ![p] =
        [o \in OutboxOps |-> IF o \in S /\ @[o] = "none"
                             THEN "pending" ELSE @[o]]]

\* Entries that have a row already, delivered or not.
DeliveredOrPending(p) == {o \in row[p].c.pend : outbox[p][o] # "none"}

\* TcaplusDurableCheckpointStore.Load: delivered entries are dropped from the
\* loaded state, which then runs one revision ahead of the row.
Delivered(p) == {o \in row[p].c.pend : outbox[p][o] = "delivered"}
Loaded(p) ==
    [row[p].c EXCEPT !.pend = @ \ Delivered(p),
                     !.rev = IF Delivered(p) = {} THEN @ ELSE @ + 1]

\* checkpointWriteError # nil: requests, the flusher and prepare give up;
\* eviction and drain first look whether the row was committed after all.
Failed(t) ==
    IF t.job \in {"evict", "drain"} THEN [t EXCEPT !.pc = "verify"]
    ELSE IdleTask

----------------------------------------------------------------------------
(* Requests: Handle and the synchronous Saga steps.                        *)

\* Take the read lock; getOrCreateLoadingActor publishes a missing Actor.
StartRequest(z, k, p, op) ==
    /\ status[z] = "up"
    /\ view[z] > 0
    /\ task[z][k].pc = "idle"
    /\ ~Writing(z)
    /\ SetTask(z, k, [IdleTask EXCEPT !.pc = "wait", !.job = "command",
                                      !.p = p, !.op = op, !.epoch = view[z]])
    /\ IF actor[z][p].life = "absent"
       THEN SetActor(z, p, [NoActor EXCEPT !.life = "loading",
                                           !.want = view[z]])
       ELSE UNCHANGED actor
    /\ UNCHANGED <<store, env, dirty, obs, bounds>>

\* actorFor found the Actor ready, but for another epoch.
RequestNotOwner(z, k) ==
    LET t == task[z][k] IN
    /\ t.pc = "wait"
    /\ actor[z][t.p].life = "ready"
    /\ actor[z][t.p].st.epoch # t.epoch
    /\ EndTask(z, k)
    /\ UNCHANGED <<store, env, actor, dirty, obs, bounds>>

\* The mailbox job of a command: replay, or mutate.
Execute(z, k) ==
    LET t  == task[z][k]
        a  == actor[z][t.p]
        st == Mutate(a.st, t.op, z)
    IN
    /\ t.pc = "wait"
    /\ a.life = "ready"
    /\ a.st.epoch = t.epoch
    /\ \/ /\ t.op \in a.st.data
          /\ SetTask(z, k, IF t.op \in SyncOps
                           THEN [t EXCEPT !.pc = "inspect"] ELSE IdleTask)
          /\ UNCHANGED actor
       \/ /\ t.op \notin a.st.data
          /\ t.op \in SyncOps
          /\ SetActor(z, t.p, [a EXCEPT !.st = st,
                                        !.marks[t.op] = st.rev])
          /\ SetTask(z, k, [t EXCEPT !.pc = "inspect"])
       \/ /\ t.op \notin a.st.data
          /\ t.op \notin SyncOps
          /\ SetActor(z, t.p, [a EXCEPT !.st = st])
          /\ SetTask(z, k, [t EXCEPT !.pc = "dirty", !.target = st.rev])
    /\ UNCHANGED <<store, env, dirty, obs, bounds>>

\* markDirty after the mailbox job; the request of an ordinary command ends.
MarkDirty(z, k) ==
    LET t == task[z][k] IN
    /\ t.pc = "dirty"
    /\ Dirtied(z, t.p, t.target)
    /\ EndTask(z, k)
    /\ UNCHANGED <<store, env, actor, obs, bounds>>

\* Retire the marker; the caller now answers that the step is done.
Retire(z, k) ==
    LET t == task[z][k] IN
    /\ SetActor(z, t.p, [actor[z][t.p] EXCEPT !.marks[t.op] = 0])
    /\ acked' = [acked EXCEPT ![t.p] = @ \cup {t.op}]
    /\ EndTask(z, k)

\* settleSyncStepLocked: look for the durable-pending marker.  Without one,
\* or with a revision that is already persisted, the step is done.
SettleInspect(z, k) ==
    LET t == task[z][k]
        a == actor[z][t.p]
    IN
    /\ t.pc = "inspect"
    /\ IF a.prev < a.marks[t.op]
       THEN /\ SetTask(z, k, [t EXCEPT !.pc = "mark", !.target = a.st.rev,
                                       !.mrev = a.marks[t.op]])
            /\ UNCHANGED <<actor, acked>>
       ELSE Retire(z, k)
    /\ UNCHANGED <<store, env, dirty, manifest, bounds>>

SettleMarkDirty(z, k) ==
    LET t == task[z][k] IN
    /\ t.pc = "mark"
    /\ Dirtied(z, t.p, t.target)
    /\ SetTask(z, k, [t EXCEPT !.pc = "flush"])
    /\ UNCHANGED <<store, env, actor, obs, bounds>>

\* The flush returned nil: done only if it covers the marked revision.
SettleConfirm(z, k) ==
    LET t == task[z][k] IN
    /\ t.pc = "confirm"
    /\ IF actor[z][t.p].prev < t.mrev
       THEN EndTask(z, k) /\ UNCHANGED <<actor, acked>>
       ELSE Retire(z, k)
    /\ UNCHANGED <<store, env, dirty, manifest, bounds>>

\* The request's context ends at a point where the goroutine looks at it.
CancelRequest(z, k) ==
    /\ task[z][k].pc \in {"wait", "inspect", "flush", "ack", "confirm"}
    /\ Fault
    /\ EndTask(z, k)
    /\ UNCHANGED <<store, env, actor, dirty, obs, stops>>

----------------------------------------------------------------------------
(* Activation: the first mailbox job of an Actor.  It does not depend on   *)
(* the request that caused it and goes on when that request is cancelled.  *)

\* Publish the Actor.  A state behind the epoch it was activated for adopts
\* the epoch in memory only; what runs ahead of the row is marked dirty.
BecomeReady(z, p, c, prev, ptok) ==
    LET want == actor[z][p].want
        st == IF c.epoch = want THEN c
              ELSE [c EXCEPT !.epoch = want, !.rev = @ + 1, !.by = inc[z]]
    IN
    /\ SetActor(z, p, [NoActor EXCEPT !.life = "ready", !.want = want,
                           !.st = st, !.prev = prev, !.ptok = ptok])
    /\ IF st.rev > prev THEN Dirtied(z, p, st.rev) ELSE UNCHANGED dirty
    /\ UNCHANGED task

\* fail(err): the Actor is removed with its dirty entry and every request
\* waiting for it gets the error.
ActivationFailed(z, p) ==
    /\ SetActor(z, p, NoActor)
    /\ dirty' = [dirty EXCEPT ![z][p] = 0]
    /\ task' = [task EXCEPT ![z] =
                   [k \in Threads |->
                       IF @[k].pc = "wait" /\ @[k].p = p
                       THEN IdleTask ELSE @[k]]]

\* Load reads the row and then the outbox row of every entry it carries; the reads
\* are one step, since a row that is delivered between them is dropped or kept like
\* one that is delivered before or after the Load.
ActivateLoad(z, p) ==
    /\ actor[z][p].life = "loading"
    /\ \/ /\ row[p].ver = 0
          /\ SetActor(z, p, [actor[z][p] EXCEPT !.life = "creating"])
          /\ UNCHANGED <<outbox, dirty, task>>
       \/ /\ row[p].ver > 0
          /\ Ensure(p, row[p].c.pend)
          /\ IF row[p].c.epoch > actor[z][p].want
             THEN ActivationFailed(z, p)
             ELSE BecomeReady(z, p, Loaded(p), row[p].c.rev, row[p].ver)
    /\ UNCHANGED <<row, late, env, obs, bounds>>

InitialContent(z, p) ==
    [NoContent EXCEPT !.rev = 1, !.epoch = actor[z][p].want, !.by = inc[z]]
InsertRequest(z, p) ==
    [z |-> z, p |-> p, snap |-> InitialContent(z, p), exp |-> 0, tok |-> 0]

\* CreateInitial first reads the fence ...
CreateInitialFence(z, p) ==
    /\ actor[z][p].life = "creating"
    /\ IF fence.owner = z /\ fence.epoch = actor[z][p].want
       THEN /\ SetActor(z, p, [actor[z][p] EXCEPT !.life = "inserting"])
            /\ UNCHANGED <<dirty, task>>
       ELSE ActivationFailed(z, p)
    /\ UNCHANGED <<store, env, obs, bounds>>

\* ... and then inserts the row if it is absent.
CreateInitialInsert(z, p) ==
    /\ actor[z][p].life = "inserting"
    /\ \/ /\ Matches(InsertRequest(z, p))
          /\ Write(InsertRequest(z, p))
          /\ BecomeReady(z, p, InitialContent(z, p), 1, 1)
          /\ UNCHANGED <<late, faults>>
       \/ /\ row[p].ver > 0
          /\ SetActor(z, p, [actor[z][p] EXCEPT !.life = "reconciling"])
          /\ UNCHANGED <<row, late, dirty, task, faults>>
       \/ /\ Fault
          /\ late' = late \cup {InsertRequest(z, p)}
          /\ SetActor(z, p, [actor[z][p] EXCEPT !.life = "reconciling"])
          /\ UNCHANGED <<row, dirty, task>>
    /\ UNCHANGED <<outbox, env, obs, stops>>

\* The insert was not acknowledged: the row counts only if it is our own.
ReconcileInitialCheckpoint(z, p) ==
    /\ actor[z][p].life = "reconciling"
    /\ IF row[p].ver > 0 /\ row[p].c = InitialContent(z, p)
       THEN BecomeReady(z, p, row[p].c, 1, row[p].ver)
       ELSE ActivationFailed(z, p)
    /\ UNCHANGED <<store, env, obs, bounds>>

\* A store error, or a drain that cancelled loadCtx.
ActivationError(z, p) ==
    /\ actor[z][p].life \in {"loading", "creating", "reconciling"}
    /\ IF task[z]["exclusive"].job = "drain" THEN NoFault ELSE Fault
    /\ ActivationFailed(z, p)
    /\ UNCHANGED <<store, env, obs, stops>>

----------------------------------------------------------------------------
(* Saving a checkpoint: flushPlayerLocked and SaveCAS.                     *)

\* flushPlayerLocked returned nil.
Flushed(t) ==
    IF t.job = "command" THEN [t EXCEPT !.pc = "confirm"]
    ELSE [IdleTask EXCEPT !.pc = "next", !.job = "flush", !.todo = t.todo]

\* Look up the Actor and its dirty revision, snapshot inside the mailbox.
Snapshot(z, t) ==
    LET a == actor[z][t.p] IN
    IF a.life # "ready" \/ dirty[z][t.p] = 0 THEN Flushed(t)
    ELSE IF a.st.rev < dirty[z][t.p] THEN IdleTask
    ELSE [t EXCEPT !.pc = "fence", !.snap = a.st, !.exp = a.prev,
                   !.tok = a.ptok]

SettleFlush(z, k) ==
    /\ task[z][k].pc = "flush"
    /\ SetTask(z, k, Snapshot(z, task[z][k]))
    /\ UNCHANGED <<store, env, actor, dirty, obs, bounds>>

\* SaveCAS reads the fence row ...
SaveFence(z, k) ==
    LET t == task[z][k] IN
    /\ t.pc = "fence"
    /\ \/ NoFault /\ SetTask(z, k,
              IF fence.owner = z /\ fence.epoch = t.snap.epoch
              THEN [t EXCEPT !.pc = "update"] ELSE Failed(t))
       \/ Fault /\ SetTask(z, k, Failed(t))
    /\ UNCHANGED <<store, env, actor, dirty, obs, stops>>

\* ... and then updates the checkpoint row, in a second RPC.
SaveUpdate(z, k) ==
    LET t == task[z][k]
        r == RequestOf(z, t)
    IN
    /\ t.pc = "update"
    /\ \/ /\ t.snap.rev <= t.exp
          /\ SetTask(z, k, Failed(t))
          /\ UNCHANGED <<row, late, faults>>
       \/ /\ t.snap.rev > t.exp
          /\ Matches(r)
          /\ Write(r)
          /\ SetTask(z, k, [t EXCEPT !.pc = "outbox",
                                     !.newtok = row[t.p].ver + 1])
          /\ UNCHANGED <<late, faults>>
       \/ /\ t.snap.rev > t.exp
          /\ ~Matches(r)
          /\ SetTask(z, k, [t EXCEPT !.pc = "recon"])
          /\ UNCHANGED <<row, late, faults>>
       \/ /\ t.snap.rev > t.exp
          /\ Fault
          /\ late' = late \cup {r}
          /\ SetTask(z, k, [t EXCEPT !.pc = "recon"])
          /\ UNCHANGED row
    /\ UNCHANGED <<env, outbox, actor, dirty, obs, stops>>

\* A row at the snapshot's revision, whoever wrote it.
SameRevision(t) == row[t.p].c.rev = t.snap.rev

OwnWrite(t) == row[t.p].c = t.snap

\* reconcileFailedCAS: only our own content counts as applied.
ReconcileFailedCAS(z, k) ==
    LET t == task[z][k] IN
    /\ t.pc = "recon"
    /\ \/ NoFault /\ SetTask(z, k,
              IF OwnWrite(t)
              THEN [t EXCEPT !.pc = "outbox", !.newtok = row[t.p].ver]
              ELSE Failed(t))
       \/ Fault /\ SetTask(z, k, Failed(t))
    /\ UNCHANGED <<store, env, actor, dirty, obs, stops>>

\* The PlayerOutbox rows of the written checkpoint.  A failure here reports
\* a retryable failure although the checkpoint row has advanced.
SaveOutbox(z, k) ==
    LET t == task[z][k] IN
    /\ t.pc = "outbox"
    /\ \/ /\ NoFault
          /\ Ensure(t.p, t.snap.pend)
          /\ SetTask(z, k, IF t.job = "prepare"
                           THEN [t EXCEPT !.pc = "next"]
                           ELSE [t EXCEPT !.pc = "ack"])
       \/ /\ Fault
          /\ t.snap.pend # {}
          /\ \E S \in SUBSET t.snap.pend : Ensure(t.p, S)
          /\ SetTask(z, k, Failed(t))
    /\ UNCHANGED <<row, late, env, actor, dirty, obs, stops>>

\* checkpointWasCommitted, asked by eviction and drain after a failed save.
CheckpointWasCommitted(z, k) ==
    LET t == task[z][k] IN
    /\ t.pc = "verify"
    /\ \/ /\ NoFault
          /\ row[t.p].ver > 0
          /\ Ensure(t.p, row[t.p].c.pend)
          /\ Loaded(t.p) = t.snap
          /\ SetTask(z, k, [t EXCEPT !.pc = "ack", !.newtok = row[t.p].ver])
          /\ UNCHANGED actor
       \/ /\ \/ Fault /\ UNCHANGED outbox
             \/ /\ NoFault
                /\ Loaded(t.p) # t.snap
                /\ Ensure(t.p, row[t.p].c.pend)
          /\ EndTask(z, k)
          /\ IF t.job = "evict"
             THEN SetActor(z, t.p, [actor[z][t.p] EXCEPT !.life = "ready"])
             ELSE UNCHANGED actor
    /\ UNCHANGED <<row, late, env, dirty, obs, stops>>

\* The live state's revision taken for the saved one.
AckedLatest(a, t) == [a EXCEPT !.prev = a.st.rev, !.ptok = t.newtok]

AckedActor(a, t) == [a EXCEPT !.prev = t.snap.rev, !.ptok = t.newtok]

\* The entry removed whatever was marked meanwhile; counted down instead.
ClearDirtyAlways(z, t) == dirty' = [dirty EXCEPT ![z][t.p] = 0]
ClearDirtyCounting(z, t) ==
    dirty' = [dirty EXCEPT ![z][t.p] = IF @ = 0 THEN 0 ELSE @ - t.snap.rev]

ClearDirty(z, t) ==
    dirty' = [dirty EXCEPT ![z][t.p] =
                 IF t.job = "evict" \/ @ <= t.snap.rev THEN 0 ELSE @]

\* Acknowledge in the mailbox, then clear the dirty entry unless a later
\* revision was marked meanwhile.  Eviction ends with the Actor's removal.  (The
\* two critical sections are one step; a command in between is like one before, as
\* it marks its own later revision.  A context that ends before the job, in a drain
\* or an eviction, leaves the Actor as a failed save does.)
Acknowledge(z, k) ==
    LET t == task[z][k]
        a == actor[z][t.p]
    IN
    /\ t.pc = "ack"
    /\ IF t.job = "evict" THEN SetActor(z, t.p, NoActor)
       ELSE IF t.job = "drain" \/ (a.prev = t.exp /\ a.ptok = t.tok)
       THEN SetActor(z, t.p, AckedActor(a, t))
       ELSE UNCHANGED actor
    /\ ClearDirty(z, t)
    /\ SetTask(z, k,
           CASE t.job \in {"command", "flush"} -> Flushed(t)
             [] t.job = "drain" ->
                    [IdleTask EXCEPT !.pc = "next", !.job = "drain",
                        !.epoch = t.epoch, !.todo = t.todo]
             [] OTHER -> IdleTask)
    /\ UNCHANGED <<store, env, obs, bounds>>

----------------------------------------------------------------------------
(* The dirty flusher and graceful close.                                   *)

DirtyPlayers(z) == {p \in Players : dirty[z][p] > 0}

\* flushDirty collects the dirty players ...
StartFlush(z) ==
    /\ status[z] = "up"
    /\ task[z]["flusher"].pc = "idle"
    /\ DirtyPlayers(z) # {}
    /\ SetTask(z, "flusher", [IdleTask EXCEPT !.pc = "next", !.job = "flush",
                                              !.todo = DirtyPlayers(z)])
    /\ UNCHANGED <<store, env, actor, dirty, obs, bounds>>

\* ... and visits them one after the other, in map order.  The first error
\* ends the pass (Failed returns the idle task).
FlushNext(z) ==
    LET t == task[z]["flusher"] IN
    /\ t.pc = "next"
    /\ \/ /\ t.todo = {}
          /\ EndTask(z, "flusher")
       \/ \E p \in t.todo :
             /\ ~Writing(z)
             /\ SetTask(z, "flusher", Snapshot(z, [t EXCEPT !.p = p,
                                                        !.todo = @ \ {p}]))
    /\ UNCHANGED <<store, env, actor, dirty, obs, bounds>>

\* Close stops the background goroutines and makes one last flush pass.
StartClose(z) ==
    /\ status[z] = "up"
    /\ Stop
    /\ \A k \in Threads : task[z][k].pc = "idle"
    /\ status' = [status EXCEPT ![z] = "closing"]
    /\ SetTask(z, "flusher", [IdleTask EXCEPT !.pc = "next", !.job = "flush",
                                              !.todo = DirtyPlayers(z)])
    /\ UNCHANGED <<store, fence, view, inc, actor, dirty, obs, faults>>

\* Store requests a stopping process may have sent without an answer.
InFlight(z) ==
    {RequestOf(z, task[z][k]) :
        k \in {x \in Threads : /\ task[z][x].pc = "update"
                               /\ task[z][x].snap.rev > task[z][x].exp}}
    \cup {InsertRequest(z, p) :
        p \in {q \in Players : actor[z][q].life = "inserting"}}

\* Whatever the pass achieved, the Actors are dropped.
FinishClose(z) ==
    /\ status[z] = "closing"
    /\ task[z]["flusher"].pc = "idle"
    /\ status' = [status EXCEPT ![z] = "down"]
    /\ view' = [view EXCEPT ![z] = 0]
    /\ actor' = [actor EXCEPT ![z] = [p \in Players |-> NoActor]]
    /\ dirty' = [dirty EXCEPT ![z] = [p \in Players |-> 0]]
    /\ late' = late \cup InFlight(z)
    /\ UNCHANGED <<row, outbox, fence, inc, task, obs, bounds>>

----------------------------------------------------------------------------
(* Holders of the shard's write lock: eviction, drain, prepare.            *)

\* The lock taken without waiting for the readers.
ExcludedWriters(z) == ~Writing(z) /\ status[z] = "up"

Excluded(z) == ~Reading(z) /\ ~Writing(z) /\ status[z] = "up"

\* The last revision taken for a saved one.
UnsavedByTwo(a) == a.st.rev > a.prev + 1

Unsaved(a) == a.st.rev > a.prev

\* evictIdleActor: which Actor is idle is left open.
StartEvict(z, p) ==
    LET a == actor[z][p] IN
    /\ Excluded(z)
    /\ Stop
    /\ a.life = "ready"
    /\ IF Unsaved(a)
       THEN /\ SetActor(z, p, [a EXCEPT !.life = "evicting"])
            /\ SetTask(z, "exclusive",
                   [IdleTask EXCEPT !.pc = "fence", !.job = "evict", !.p = p,
                       !.snap = a.st, !.exp = a.prev, !.tok = a.ptok])
            /\ UNCHANGED dirty
       ELSE /\ SetActor(z, p, NoActor)
            /\ dirty' = [dirty EXCEPT ![z][p] = 0]
            /\ UNCHANGED task
    /\ UNCHANGED <<store, env, obs, faults>>

\* BeginDrain refuses new requests, then DrainShardForMigration starts.
StartDrain(z) ==
    /\ Excluded(z)
    /\ Stop
    /\ view[z] > 0
    /\ view' = [view EXCEPT ![z] = 0]
    /\ manifest' = NoManifest
    /\ SetTask(z, "exclusive",
           [IdleTask EXCEPT !.pc = "next", !.job = "drain",
               !.epoch = view[z],
               !.todo = {p \in Players : actor[z][p].life # "absent"}])
    /\ UNCHANGED <<store, fence, status, inc, actor, dirty, acked, faults>>

\* The mailbox job of one player: it runs after the activation job.
DrainNext(z) ==
    LET t == task[z]["exclusive"] IN
    /\ t.pc = "next"
    /\ t.job = "drain"
    /\ \E p \in t.todo :
        LET a == actor[z][p]
            rest == [t EXCEPT !.todo = @ \ {p}]
        IN
        \/ /\ a.life = "absent"
           /\ SetTask(z, "exclusive", rest)
           /\ UNCHANGED dirty
        \/ /\ a.life = "ready"
           /\ a.st.epoch # t.epoch
           /\ EndTask(z, "exclusive")
           /\ UNCHANGED dirty
        \/ /\ a.life = "ready"
           /\ a.st.epoch = t.epoch
           /\ IF Unsaved(a)
              THEN /\ SetTask(z, "exclusive",
                          [rest EXCEPT !.pc = "fence", !.p = p,
                              !.snap = a.st, !.exp = a.prev, !.tok = a.ptok])
                   /\ Dirtied(z, p, a.st.rev)
              ELSE SetTask(z, "exclusive", rest) /\ UNCHANGED dirty
    /\ UNCHANGED <<store, env, actor, obs, bounds>>

\* All saved: the Actors are removed and the manifest names what is durable.
FinishDrain(z) ==
    LET t == task[z]["exclusive"] IN
    /\ t.pc = "next"
    /\ t.job = "drain"
    /\ t.todo = {}
    /\ manifest' = [epoch |-> t.epoch,
                    revs |-> [p \in Players |-> actor[z][p].st.rev]]
    /\ actor' = [actor EXCEPT ![z] = [p \in Players |-> NoActor]]
    /\ dirty' = [dirty EXCEPT ![z] = [p \in Players |-> 0]]
    /\ EndTask(z, "exclusive")
    /\ UNCHANGED <<store, env, acked, bounds>>

\* PrepareShardForMigration on the new owner, for the epoch after the drain.
StartPrepare(z) ==
    /\ Excluded(z)
    /\ Stop
    /\ fence.owner = z
    /\ manifest.epoch > 0
    /\ manifest.epoch + 1 = fence.epoch
    /\ \A p \in Players : actor[z][p].life = "absent"
    /\ SetTask(z, "exclusive",
           [IdleTask EXCEPT !.pc = "next", !.job = "prepare",
               !.epoch = fence.epoch, !.plan = manifest.revs,
               !.todo = {p \in Players : manifest.revs[p] > 0}])
    /\ UNCHANGED <<store, env, actor, dirty, obs, faults>>

\* One player of the manifest: already rewritten, mismatch, or rewrite.
PrepareNext(z) ==
    LET t == task[z]["exclusive"] IN
    /\ t.pc = "next"
    /\ t.job = "prepare"
    /\ \/ /\ t.todo = {}
          /\ EndTask(z, "exclusive")
          /\ UNCHANGED outbox
       \/ \E p \in t.todo :
            LET c == Loaded(p)
                rev == t.plan[p]
                rest == [t EXCEPT !.todo = @ \ {p}]
            IN
            /\ row[p].ver > 0
            /\ Ensure(p, row[p].c.pend)
            /\ SetTask(z, "exclusive",
                   IF c.epoch = t.epoch /\ c.rev = rev + 1 THEN rest
                   ELSE IF c.epoch + 1 # t.epoch \/ c.rev # rev THEN IdleTask
                   ELSE [rest EXCEPT !.pc = "fence", !.p = p,
                            !.snap = [c EXCEPT !.epoch = t.epoch,
                                               !.rev = @ + 1,
                                               !.by = inc[z]],
                            !.exp = c.rev, !.tok = row[p].ver])
    /\ UNCHANGED <<row, late, env, actor, dirty, obs, bounds>>

----------------------------------------------------------------------------
(* Environment: the store, the outbox relay, the coordinator, crashes.     *)

\* A request whose sender gave up reaches the store after all.
Land(r) ==
    /\ r \in late
    /\ Matches(r)
    /\ Write(r)
    /\ late' = late \ {r}
    /\ UNCHANGED <<outbox, env, actor, dirty, task, obs, bounds>>

\* The outbox relay marks a row delivered.
Relay(p, o) ==
    /\ outbox[p][o] = "pending"
    /\ outbox' = [outbox EXCEPT ![p][o] = "delivered"]
    /\ UNCHANGED <<row, late, env, actor, dirty, task, obs, bounds>>

\* The coordinator moves the fence: planned migration or failover.
AdvanceFence(z) ==
    /\ fence.epoch < MaxEpoch
    /\ fence' = [owner |-> z, epoch |-> fence.epoch + 1]
    /\ UNCHANGED <<store, view, status, inc, actor,
                   dirty, task, obs, bounds>>

\* A Zone learns that it owns the shard at the fenced epoch: a new route, or
\* resume after a drain that is not followed by a migration.
Authorize(z) ==
    /\ status[z] = "up"
    /\ fence.owner = z
    /\ view[z] # fence.epoch
    /\ ~Writing(z)
    /\ view' = [view EXCEPT ![z] = fence.epoch]
    /\ manifest' = IF manifest.epoch = fence.epoch THEN NoManifest
                   ELSE manifest
    /\ UNCHANGED <<store, fence, status, inc, actor,
                   dirty, task, acked, bounds>>

\* It learns that it does not; until then it serves under its old epoch.
Revoke(z) ==
    /\ view[z] > 0
    /\ view[z] # fence.epoch \/ fence.owner # z
    /\ view' = [view EXCEPT ![z] = 0]
    /\ UNCHANGED <<store, fence, status, inc, actor,
                   dirty, task, obs, bounds>>

Crash(z) ==
    /\ status[z] # "down"
    /\ Fault
    /\ status' = [status EXCEPT ![z] = "down"]
    /\ view' = [view EXCEPT ![z] = 0]
    /\ actor' = [actor EXCEPT ![z] = [p \in Players |-> NoActor]]
    /\ dirty' = [dirty EXCEPT ![z] = [p \in Players |-> 0]]
    /\ task' = [task EXCEPT ![z] = [k \in Threads |-> IdleTask]]
    /\ late' = late \cup InFlight(z)
    /\ UNCHANGED <<row, outbox, fence, inc, obs, stops>>

Restart(z) ==
    /\ status[z] = "down"
    /\ status' = [status EXCEPT ![z] = "up"]
    /\ inc' = [inc EXCEPT ![z] = @ + 1]
    /\ UNCHANGED <<store, fence, view, actor, dirty, task, obs, bounds>>

----------------------------------------------------------------------------
Init ==
    /\ row = [p \in Players |-> [c |-> NoContent, ver |-> 0]]
    /\ fence \in [owner : Zones, epoch : {1}]
    /\ outbox = [p \in Players |-> [o \in OutboxOps |-> "none"]]
    /\ late = {}
    /\ view = [z \in Zones |-> 0]
    /\ status = [z \in Zones |-> "up"]
    /\ inc = [z \in Zones |-> 1]
    /\ actor = [z \in Zones |-> [p \in Players |-> NoActor]]
    /\ dirty = [z \in Zones |-> [p \in Players |-> 0]]
    /\ task = [z \in Zones |-> [k \in Threads |-> IdleTask]]
    /\ acked = [p \in Players |-> {}]
    /\ manifest = NoManifest
    /\ faults = 0
    /\ stops = 0

\* A step of one request goroutine after it has started.
RequestStep(z, k) ==
    \/ RequestNotOwner(z, k)
    \/ Execute(z, k)
    \/ MarkDirty(z, k)
    \/ SettleInspect(z, k)
    \/ SettleMarkDirty(z, k)
    \/ SettleFlush(z, k)
    \/ SettleConfirm(z, k)

ActivationStep(z, p) ==
    \/ ActivateLoad(z, p)
    \/ CreateInitialFence(z, p)
    \/ CreateInitialInsert(z, p)
    \/ ReconcileInitialCheckpoint(z, p)

SaveStep(z, k) ==
    \/ SaveFence(z, k)
    \/ SaveUpdate(z, k)
    \/ ReconcileFailedCAS(z, k)
    \/ SaveOutbox(z, k)
    \/ CheckpointWasCommitted(z, k)
    \/ Acknowledge(z, k)

FlusherStep(z) == StartFlush(z) \/ FlushNext(z)

ExclusiveStep(z) == DrainNext(z) \/ FinishDrain(z) \/ PrepareNext(z)

ZoneStep(z) ==
    \/ \E k \in Workers, p \in Players, op \in Ops : StartRequest(z, k, p, op)
    \/ \E k \in Workers : RequestStep(z, k) \/ CancelRequest(z, k)
    \/ \E p \in Players : ActivationStep(z, p) \/ ActivationError(z, p)
    \/ \E k \in Threads : SaveStep(z, k)
    \/ FlusherStep(z)
    \/ StartClose(z) \/ FinishClose(z)
    \/ \E p \in Players : StartEvict(z, p)
    \/ StartDrain(z) \/ StartPrepare(z) \/ ExclusiveStep(z)
    \/ AdvanceFence(z) \/ Authorize(z) \/ Revoke(z)
    \/ Crash(z) \/ Restart(z)

StoreStep ==
    \/ \E r \in late : Land(r)
    \/ \E p \in Players, o \in OutboxOps : Relay(p, o)

Next == StoreStep \/ \E z \in Zones : ZoneStep(z)

Spec == Init /\ [][Next]_vars

\* Started goroutines are scheduled, the flusher's ticker keeps firing, and a
\* stopping process finishes.  Nothing is assumed of clients, of the
\* coordinator, of the relay, or of requests that were given up.
Fairness ==
    \A z \in Zones :
        /\ \A k \in Workers : WF_vars(RequestStep(z, k))
        /\ \A k \in Threads : WF_vars(SaveStep(z, k))
        /\ \A p \in Players : WF_vars(ActivationStep(z, p))
        /\ WF_vars(FlusherStep(z))
        /\ WF_vars(ExclusiveStep(z))
        /\ WF_vars(FinishClose(z))

FairSpec == Spec /\ Fairness

----------------------------------------------------------------------------
(* Properties.                                                             *)

\* A Saga step that settleSyncStepLocked reported as done is in the player's
\* checkpoint row, and stays there through evictions, drains, failovers,
\* crashes and requests that land late.
AckedDurable == \A p \in Players : acked[p] \subseteq row[p].c.data

\* A checkpoint write never drops a mutation an earlier write made durable,
\* and revision, version and owner epoch of the row only go forward: no two
\* writers ever overwrite each other, whatever they believe they own.
RowExtends ==
    [][\A p \in Players : row'[p] # row[p] =>
          /\ row[p].c.data \subseteq row'[p].c.data
          /\ row[p].c.rev < row'[p].c.rev
          /\ row[p].c.epoch <= row'[p].c.epoch]_vars

\* An outbox row exists only for a mutation that is durable, and a durable
\* mutation that owes an event still has it pending in the checkpoint or has
\* had it delivered: ordered steps replace the missing transaction.
OutboxFollowsCheckpoint ==
    \A p \in Players, o \in OutboxOps :
        /\ outbox[p][o] # "none" => o \in row[p].c.data
        /\ o \in row[p].c.data =>
              o \in row[p].c.pend \/ outbox[p][o] = "delivered"

\* Eviction and drain remove an Actor only when everything it holds is in
\* the checkpoint row (a crash and a close that could not flush may lose it).
RemovalLosesNothing ==
    [][\A z \in Zones, p \in Players :
          /\ actor[z][p].life \in {"ready", "evicting"}
          /\ actor'[z][p].life = "absent"
          /\ status'[z] = "up"
          => actor[z][p].st.data \subseteq row'[p].c.data]_vars

\* An ordinary command that was executed is in the row, or its player is in
\* the dirty map, or the goroutine that executed it is about to put it there.
DirtyTracked ==
    \A z \in Zones, p \in Players :
        actor[z][p].life = "ready" =>
            \A o \in actor[z][p].st.data \ (SyncOps \cup row[p].c.data) :
                \/ dirty[z][p] > 0
                \/ \E k \in Workers :
                      task[z][k].pc = "dirty" /\ task[z][k].p = p

\* Write-back makes progress: what a resident Actor holds reaches the row, or
\* the Actor stops being resident.
EventuallyDurable ==
    \A z \in Zones, p \in Players, o \in Ops :
        (actor[z][p].life = "ready" /\ o \in actor[z][p].st.data)
            ~> (o \in row[p].c.data \/ actor[z][p].life = "absent")
=============================================================================
