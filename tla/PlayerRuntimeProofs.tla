------------------------ MODULE PlayerRuntimeProofs ------------------------
(***************************************************************************)
(* Proofs about the runtime of PlayerRuntime, for any number of Zones,     *)
(* players, requests, faults and epochs: an answered Saga step is durable  *)
(* (AckedDurable), checkpoint writes only extend the row (RowExtends),     *)
(* outbox rows follow the checkpoint (OutboxFollowsCheckpoint), no command *)
(* is forgotten by the dirty map (DirtyTracked), and neither eviction nor  *)
(* drain removes an Actor that holds something unsaved                     *)
(* (RemovalLosesNothing).                                                  *)
(*                                                                         *)
(* One section per part of the invariant: DurableInv, OutboxInv and        *)
(* WriteBackInv; the later ones use the earlier.                           *)
(***************************************************************************)
EXTENDS PlayerRuntimeInv, TLAPS

USE RuntimeAssumption

----------------------------------------------------------------------------
(* The values actions put into the state have the right types.             *)

LEMMA ConstantsType ==
    /\ NoContent \in Contents
    /\ NoActor \in Actors
    /\ IdleTask \in Tasks
    /\ NoManifest \in Manifests
  BY DEF NoContent, Contents, NoActor, Actors, Lives, NoMarks, IdleTask,
         Tasks, PCs, Jobs, NoManifest, Manifests, NoRevs

LEMMA FailedType ==
  ASSUME NEW t \in Tasks
  PROVE Failed(t) \in Tasks
  BY ConstantsType DEF Failed, Tasks, PCs, SavePcs

LEMMA FlushedType ==
  ASSUME NEW t \in Tasks
  PROVE Flushed(t) \in Tasks
  BY ConstantsType DEF Flushed, Tasks, PCs, SavePcs, Jobs

LEMMA SnapshotType ==
  ASSUME TypeOK, NEW z \in Zones, NEW t \in Tasks, t.p \in Players
  PROVE Snapshot(z, t) \in Tasks
  <1> DEFINE a == actor[z][t.p]
  <1>1. a \in Actors
    BY DEF TypeOK
  <1>2. a.st \in Contents /\ a.prev \in Nat /\ a.ptok \in Nat
    BY <1>1 DEF Actors
  <1>3. [t EXCEPT !.pc = "fence", !.snap = a.st, !.exp = a.prev,
                  !.tok = a.ptok] \in Tasks
    <2> HIDE DEF a
    <2> QED BY <1>2 DEF Tasks, PCs, SavePcs
  <1> QED
    BY <1>3, ConstantsType, FlushedType DEF Snapshot

LEMMA MutateType ==
  ASSUME TypeOK, NEW z \in Zones, NEW c \in Contents, NEW op \in Ops
  PROVE Mutate(c, op, z) \in Contents
  <1>1. inc[z] \in Nat
    BY DEF TypeOK
  <1>2. /\ c.rev + 1 \in Nat
        /\ c.data \cup {op} \in SUBSET Ops
        /\ c.pend \cup ({op} \cap OutboxOps) \in SUBSET OutboxOps
    BY DEF Contents
  <1> QED
    BY <1>1, <1>2 DEF Mutate, Contents

LEMMA RequestType ==
  ASSUME NEW z \in Zones, NEW t \in Tasks, t.p \in Players
  PROVE RequestOf(z, t) \in Requests
  BY DEF RequestOf, Requests, Tasks

LEMMA InsertType ==
  ASSUME TypeOK, NEW z \in Zones, NEW p \in Players
  PROVE InitialContent(z, p) \in Contents /\ InsertRequest(z, p) \in Requests
  <1>1. actor[z][p] \in Actors /\ inc[z] \in Nat
    BY DEF TypeOK
  <1> QED
  BY <1>1 DEF InitialContent, InsertRequest, NoContent, Contents, Requests, Actors

LEMMA LoadedType ==
  ASSUME TypeOK, NEW p \in Players
  PROVE Loaded(p) \in Contents
  <1>1. row[p].c \in Contents
    BY DEF TypeOK, Rows
  <1>2. /\ row[p].c.pend \ Delivered(p) \in SUBSET OutboxOps
        /\ (IF Delivered(p) = {} THEN row[p].c.rev ELSE row[p].c.rev + 1) \in Nat
    BY <1>1 DEF Contents
  <1> QED
    BY <1>1, <1>2 DEF Loaded, Contents

LEMMA SetTaskType ==
  ASSUME TypeOK, NEW z \in Zones, NEW k \in Threads, NEW t \in Tasks,
         SetTask(z, k, t)
  PROVE task' \in [Zones -> [Threads -> Tasks]]
  BY DEF TypeOK, SetTask

LEMMA SetActorType ==
  ASSUME TypeOK, NEW z \in Zones, NEW p \in Players, NEW a \in Actors,
         SetActor(z, p, a)
  PROVE actor' \in [Zones -> [Players -> Actors]]
  BY DEF TypeOK, SetActor

LEMMA DirtiedType ==
  ASSUME TypeOK, NEW z \in Zones, NEW p \in Players, NEW rev \in Nat,
         Dirtied(z, p, rev)
  PROVE dirty' \in [Zones -> [Players -> Nat]]
  BY DEF TypeOK, Dirtied

LEMMA WriteType ==
  ASSUME TypeOK, NEW r \in Requests, Write(r)
  PROVE row' \in [Players -> Rows]
  <1>1. r.p \in Players /\ r.snap \in Contents
    BY DEF Requests
  <1>2. row[r.p].ver + 1 \in Nat
    BY <1>1 DEF TypeOK, Rows
  <1>3. [c |-> r.snap, ver |-> row[r.p].ver + 1] \in Rows
    BY <1>1, <1>2 DEF Rows
  <1> QED
    BY <1>3 DEF Write, TypeOK

LEMMA EnsureType ==
  ASSUME TypeOK, NEW p \in Players, NEW S, Ensure(p, S)
  PROVE outbox' \in [Players ->
                       [OutboxOps -> {"none", "pending", "delivered"}]]
  BY DEF TypeOK, Ensure

LEMMA BoundsType ==
  ASSUME TypeOK
  PROVE /\ Fault => faults' \in 0..MaxFaults
        /\ Stop => stops' \in 0..MaxStops
  BY DEF TypeOK, Fault, Stop

\* What the type of a task or an Actor says about its fields.
LEMMA TaskFields ==
  ASSUME TypeOK, NEW z \in Zones, NEW k \in Threads
  PROVE /\ task[z][k] \in Tasks
        /\ task[z][k].p \in Players \cup {Nobody}
        /\ task[z][k].op \in Ops \cup {NoOp}
        /\ task[z][k].snap \in Contents
        /\ task[z][k].todo \in SUBSET Players
        /\ task[z][k].plan \in [Players -> Nat]
        /\ task[z][k].epoch \in Nat
        /\ task[z][k].target \in Nat
        /\ task[z][k].mrev \in Nat
        /\ task[z][k].exp \in Nat
        /\ task[z][k].tok \in Nat
        /\ task[z][k].newtok \in Nat
  <1>1. task[z][k] \in Tasks
    BY DEF TypeOK
  <1> QED
    BY <1>1 DEF Tasks

LEMMA ActorFields ==
  ASSUME TypeOK, NEW z \in Zones, NEW p \in Players
  PROVE /\ actor[z][p] \in Actors
        /\ actor[z][p].st \in Contents
        /\ actor[z][p].want \in Nat
        /\ actor[z][p].prev \in Nat
        /\ actor[z][p].ptok \in Nat
        /\ actor[z][p].marks \in [SyncOps -> Nat]
        /\ actor[z][p].life \in Lives
  <1>1. actor[z][p] \in Actors
    BY DEF TypeOK
  <1> QED
    BY <1>1 DEF Actors

LEMMA RowFields ==
  ASSUME TypeOK, NEW p \in Players
  PROVE row[p] \in Rows /\ row[p].c \in Contents /\ row[p].ver \in Nat
  BY DEF TypeOK, Rows

----------------------------------------------------------------------------
(* Rows and Actors only grow, and growth keeps the other parties' part of  *)
(* the invariant.                                                          *)

RowGrows(r, r2) ==
    r2 = r \/ (r.ver < r2.ver /\ r.c.data \subseteq r2.c.data)

\* a2 is a later state of the same resident Actor; a Saga step it holds that
\* is not in the row keeps its marker, or was executed just now.
ActorGrows(a, a2, r2) ==
    a.life \in Live =>
        /\ a2.life \in Live
        /\ a.st.data \subseteq a2.st.data
        /\ a.st.rev <= a2.st.rev
        /\ a.st.epoch <= a2.st.epoch
        /\ \A o \in SyncOps :
              /\ o \in a.st.data => a2.marks[o] <= a.marks[o]
              /\ o \in a2.st.data /\ o \notin r2.c.data =>
                    \/ o \in a.st.data /\ a2.marks[o] = a.marks[o]
                    \/ a2.marks[o] > a.st.rev

LEMMA ExtendsGrows ==
  ASSUME NEW c \in Contents, NEW tok \in Nat, NEW r \in Rows, NEW r2 \in Rows,
         Extends(c, tok, r), RowGrows(r, r2)
  PROVE Extends(c, tok, r2)
  BY DEF Extends, RowGrows, Rows

LEMMA ActorRowGrows ==
  ASSUME NEW a \in Actors, NEW r \in Rows, NEW r2 \in Rows,
         ActorOK(a, r), RowGrows(r, r2)
  PROVE ActorOK(a, r2)
  <1>1. a.st \in Contents /\ a.ptok \in Nat
    BY DEF Actors
  <1>2. r.c.data \subseteq r2.c.data
    BY DEF RowGrows
  <1> QED
    BY <1>1, <1>2, ExtendsGrows DEF ActorOK

LEMMA SaveGrows ==
  ASSUME NEW t \in Tasks, NEW a \in Actors, NEW a2 \in Actors,
         NEW r \in Rows, NEW r2 \in Rows,
         SaveOK(t, a, r), RowGrows(r, r2), ActorGrows(a, a2, r2)
  PROVE SaveOK(t, a2, r2)
  <1>1. t.snap \in Contents /\ t.tok \in Nat /\ t.newtok \in Nat
        /\ t.snap.rev \in Nat /\ t.snap.epoch \in Nat
    BY DEF Tasks, Contents
  <1>2. r.c.data \subseteq r2.c.data
    BY DEF RowGrows
  <1>3. /\ a.st.rev \in Nat /\ a2.st.rev \in Nat
        /\ a.st.epoch \in Nat /\ a2.st.epoch \in Nat
        /\ \A o \in SyncOps : a.marks[o] \in Nat /\ a2.marks[o] \in Nat
    BY DEF Actors, Contents
  <1>4. SUFFICES ASSUME t.pc \in SavePcs
                 PROVE  /\ Extends(t.snap, t.tok, r2)
                        /\ t.pc \in {"outbox", "ack"} => WrittenOK(t, r2)
                        /\ t.job # "prepare" => SnapOK(t, a2, r2)
                        /\ t.job = "prepare" => t.pc \notin {"ack", "verify"}
    BY DEF SaveOK
  <1>5. Extends(t.snap, t.tok, r2)
    BY <1>1, <1>4, ExtendsGrows DEF SaveOK
  <1>6. t.pc \in {"outbox", "ack"} => WrittenOK(t, r2)
    BY <1>1, <1>2, <1>4, ExtendsGrows DEF SaveOK, WrittenOK
  <1>7. ASSUME t.job # "prepare" PROVE SnapOK(t, a2, r2)
    <2>1. SnapOK(t, a, r)
      BY <1>4, <1>7 DEF SaveOK
    <2>2. a2.life \in Live /\ t.snap.data \subseteq a2.st.data
          /\ t.snap.rev <= a2.st.rev /\ t.snap.epoch <= a2.st.epoch
      BY <2>1, <1>1, <1>3 DEF SnapOK, ActorGrows
    <2>3. ASSUME NEW o \in SyncOps, o \in a2.st.data,
                 a2.marks[o] <= t.snap.rev
          PROVE  o \in t.snap.data \/ o \in r2.c.data
      BY <2>1, <2>3, <1>1, <1>2, <1>3 DEF SnapOK, ActorGrows
    <2> QED
      BY <2>2, <2>3 DEF SnapOK
  <1> QED
    BY <1>4, <1>5, <1>6, <1>7 DEF SaveOK

LEMMA SettleGrows ==
  ASSUME NEW t \in Tasks, NEW a \in Actors, NEW a2 \in Actors, NEW r2,
         SettleOK(t, a), ActorGrows(a, a2, r2)
  PROVE SettleOK(t, a2)
  <1>1. /\ t.mrev \in Nat
        /\ \A o \in SyncOps : a.marks[o] \in Nat /\ a2.marks[o] \in Nat
    BY DEF Tasks, Actors
  <1> QED
    BY <1>1 DEF SettleOK, ActorGrows

\* What an action has to show: the rows grow, every Actor, task and given-up
\* request it touches is in order, the lock discipline holds, and a step it
\* answers is in the row.
LEMMA Preserve ==
  ASSUME DurableInv, TypeOK',
         \A p \in Players : RowGrows(row[p], row'[p]) /\ RowOK(row'[p]),
         \A z \in Zones, p \in Players :
            actor'[z][p] = actor[z][p] \/ ActorOK(actor'[z][p], row'[p]),
         \A z \in Zones, k \in Threads :
            \/ TaskOK(k, task'[z][k], actor'[z], row')
            \/ /\ task'[z][k] = task[z][k]
               /\ \A p \in Players :
                     ActorGrows(actor[z][p], actor'[z][p], row'[p]),
         \A r \in late' : r \in late \/ LateOK(r, row'[r.p]),
         \A z \in Zones : LockOK(z)',
         \A p \in Players : acked'[p] \subseteq acked[p] \cup row'[p].c.data
  PROVE DurableInv'
  <1>1. /\ \A p \in Players : row[p] \in Rows /\ row'[p] \in Rows
        /\ \A z \in Zones, p \in Players :
              actor[z][p] \in Actors /\ actor'[z][p] \in Actors
        /\ \A z \in Zones, k \in Threads : task[z][k] \in Tasks
    BY DEF DurableInv, TypeOK
  <1>2. \A z \in Zones, p \in Players : ActorOK(actor'[z][p], row'[p])
    BY <1>1, ActorRowGrows DEF DurableInv
  <1>3. ASSUME NEW z \in Zones, NEW k \in Threads
        PROVE  TaskOK(k, task'[z][k], actor'[z], row')
    <2>1. SUFFICES ASSUME task'[z][k] = task[z][k],
                          \A p \in Players :
                             ActorGrows(actor[z][p], actor'[z][p], row'[p])
                   PROVE  TaskOK(k, task[z][k], actor'[z], row')
      BY <2>1
    <2>2. TaskOK(k, task[z][k], actor[z], row)
      BY DEF DurableInv
    <2>3. ShapeOK(k, task[z][k])
      BY <2>2 DEF TaskOK
    <2>4. ASSUME task[z][k].pc \notin {"idle", "next"}
          PROVE  SaveOK(task[z][k], actor'[z][task[z][k].p],
                        row'[task[z][k].p])
      <3>1. task[z][k].p \in Players
        BY <2>3, <2>4 DEF ShapeOK
      <3>2. SaveOK(task[z][k], actor[z][task[z][k].p], row[task[z][k].p])
        BY <2>2, <2>4 DEF TaskOK
      <3> QED
        BY <1>1, <2>1, <3>1, <3>2, SaveGrows
    <2>5. ASSUME k \in Workers, task[z][k].pc # "idle"
          PROVE  SettleOK(task[z][k], actor'[z][task[z][k].p])
      <3>1. task[z][k].p \in Players
        BY <2>3, <2>5 DEF ShapeOK
      <3>2. SettleOK(task[z][k], actor[z][task[z][k].p])
        BY <2>2, <2>5 DEF TaskOK
      <3> QED
        BY <1>1, <2>1, <3>1, <3>2, SettleGrows
    <2> QED
      BY <2>3, <2>4, <2>5 DEF TaskOK
  <1>4. ASSUME NEW r \in late' PROVE LateOK(r, row'[r.p])
    <2>1. CASE r \in late
      <3>1. LateOK(r, row[r.p]) /\ r \in Requests
        BY <2>1 DEF DurableInv, TypeOK
      <3>2. r.p \in Players /\ r.snap \in Contents /\ r.tok \in Nat
        BY <3>1 DEF Requests
      <3> QED
        BY <1>1, <3>1, <3>2, ExtendsGrows DEF LateOK
    <2> QED
      BY <2>1
  <1>5. AckedDurable'
    <2>1. \A p \in Players : row[p].c.data \subseteq row'[p].c.data
      BY DEF RowGrows
    <2> QED
      BY <2>1 DEF DurableInv, AckedDurable
  <1> QED
    BY <1>2, <1>3, <1>4, <1>5 DEF DurableInv

LEMMA ActorGrowsRefl ==
  ASSUME NEW a \in Actors, NEW r2
  PROVE ActorGrows(a, a, r2)
  <1>1. /\ a.st.rev \in Nat /\ a.st.epoch \in Nat
        /\ \A o \in SyncOps : a.marks[o] \in Nat
    BY DEF Actors, Contents
  <1> QED
    BY <1>1 DEF ActorGrows

LEMMA LockOther ==
  ASSUME NEW z, LockOK(z), task'[z] = task[z], actor'[z] = actor[z],
         status'[z] = status[z]
  PROVE LockOK(z)'
  BY DEF LockOK, Reading, Writing

\* The facts about one task that the invariant gives to a step it takes.
LEMMA TaskFacts ==
  ASSUME DurableInv, NEW z \in Zones, NEW k \in Threads
  PROVE /\ TaskOK(k, task[z][k], actor[z], row)
        /\ ShapeOK(k, task[z][k])
        /\ task[z][k].pc \notin {"idle", "next"} =>
              /\ task[z][k].p \in Players
              /\ SaveOK(task[z][k], actor[z][task[z][k].p],
                        row[task[z][k].p])
              /\ k \in Workers => /\ task[z][k].op \in Ops
                                  /\ SettleOK(task[z][k],
                                              actor[z][task[z][k].p])
        /\ LockOK(z)
  BY DEF DurableInv, TaskOK, ShapeOK

\* An action that moves one goroutine and leaves rows and Actors alone.
LEMMA TaskStep ==
  ASSUME DurableInv, TypeOK', NEW z \in Zones, NEW k \in Threads, NEW t,
         SetTask(z, k, t), TaskOK(k, t, actor[z], row), LockOK(z)',
         UNCHANGED <<row, late, actor, status, acked>>
  PROVE DurableInv'
  <1>1. task[z] \in [Threads -> Tasks] /\ task \in [Zones -> [Threads -> Tasks]]
    BY DEF DurableInv, TypeOK
  <1>2. \A y \in Zones, j \in Threads :
           task'[y][j] = IF y = z /\ j = k THEN t ELSE task[y][j]
    BY <1>1 DEF SetTask
  <1>3. \A y \in Zones : y # z => task'[y] = task[y]
    BY <1>1 DEF SetTask
  <1>4. \A y \in Zones, p \in Players :
           ActorGrows(actor[y][p], actor'[y][p], row'[p])
    BY ActorGrowsRefl DEF DurableInv, TypeOK
  <1>5. \A y \in Zones : LockOK(y)'
    BY <1>3, LockOther DEF DurableInv
  <1>6. \A p \in Players : RowGrows(row[p], row'[p]) /\ RowOK(row'[p])
    BY DEF RowGrows, DurableInv
  <1>7. \A y \in Zones, j \in Threads :
            \/ TaskOK(j, task'[y][j], actor'[y], row')
            \/ /\ task'[y][j] = task[y][j]
               /\ \A p \in Players :
                     ActorGrows(actor[y][p], actor'[y][p], row'[p])
    BY <1>2, <1>4
  <1> QED
    BY <1>5, <1>6, <1>7, Preserve

LEMMA IdleOK ==
  ASSUME NEW k \in Threads, NEW acts, NEW rows
  PROVE TaskOK(k, IdleTask, acts, rows)
  BY DEF TaskOK, ShapeOK, IdleTask, SavePcs, Threads

\* Moving a goroutine keeps the lock discipline when it does not take a lock
\* it had not, and an eviction goes on as one.
LEMMA MoveLock ==
  ASSUME DurableInv, NEW z \in Zones, NEW k \in Threads, NEW t \in Tasks,
         SetTask(z, k, t), status' = status,
         \A p \in Players : actor'[z][p].life = "evicting" =>
                               actor[z][p].life = "evicting",
         \/ t.pc = "idle"
         \/ k \in Workers /\ task[z][k].pc # "idle"
         \/ /\ k = "flusher"
            /\ t.pc = "next" \/ task[z][k].pc \notin {"idle", "next"}
         \/ k = "flusher" /\ ~Writing(z)
         \/ k = "exclusive" /\ task[z][k].pc # "idle",
         k = "exclusive" /\ task[z][k].job = "evict" =>
             \/ t.job = "evict" /\ t.p = task[z][k].p /\ t.pc \in SavePcs
             \/ actor'[z][task[z][k].p].life # "evicting"
  PROVE LockOK(z)'
  <1>1. task[z] \in [Threads -> Tasks] /\ task \in [Zones -> [Threads -> Tasks]]
    BY DEF DurableInv, TypeOK
  <1>2. \A j \in Threads : task'[z][j] = IF j = k THEN t ELSE task[z][j]
    BY <1>1 DEF SetTask
  <1>3. LockOK(z)
    BY DEF DurableInv
  <1>4. "exclusive" \in Threads /\ "flusher" \in Threads
        /\ Workers \subseteq Threads
    BY DEF Threads
  <1>5. k \in Workers \/ k = "flusher" \/ k = "exclusive"
    BY DEF Threads
  <1>6. Writing(z)' => ~Reading(z)'
    BY <1>2, <1>3, <1>4, <1>5 DEF LockOK, Reading, Writing
  <1>7. status'[z] # "up" => /\ \A j \in Workers : task'[z][j].pc = "idle"
                             /\ task'[z]["exclusive"].pc = "idle"
    BY <1>2, <1>3, <1>4, <1>5 DEF LockOK, Reading, Writing
  <1>8. ASSUME NEW p \in Players, actor'[z][p].life = "evicting"
        PROVE  /\ task'[z]["exclusive"].pc \in SavePcs
               /\ task'[z]["exclusive"].job = "evict"
               /\ task'[z]["exclusive"].p = p
    BY <1>2, <1>3, <1>4, <1>8 DEF LockOK
  <1> QED
    BY <1>6, <1>7, <1>8 DEF LockOK

LEMMA WorkersAreThreads ==
    /\ Workers \subseteq Threads
    /\ "flusher" \in Threads /\ "exclusive" \in Threads
    /\ \A k \in Workers : k # "flusher" /\ k # "exclusive"
  BY DEF Threads

\* A goroutine that is not evicting ends, and nothing else happens to it.
LEMMA EndStep ==
  ASSUME DurableInv, TypeOK', NEW z \in Zones, NEW k \in Threads, EndTask(z, k),
         k = "exclusive" => task[z][k].job # "evict",
         UNCHANGED <<row, late, actor, status, acked>>
  PROVE DurableInv'
  <1>1. SetTask(z, k, IdleTask) /\ IdleTask \in Tasks /\ IdleTask.pc = "idle"
    BY ConstantsType DEF EndTask, IdleTask
  <1>2. LockOK(z)'
    BY <1>1, MoveLock
  <1> QED
    BY <1>1, <1>2, IdleOK, TaskStep

----------------------------------------------------------------------------
(* Requests.                                                               *)

LEMMA RequestNotOwnerInv ==
  ASSUME DurableInv, NEW z \in Zones, NEW k \in Workers, RequestNotOwner(z, k)
  PROVE DurableInv'
  <1>1. TypeOK'
    BY SetTaskType, ConstantsType, WorkersAreThreads
       DEF DurableInv, TypeOK, RequestNotOwner, EndTask, store, env, obs, bounds
  <1> QED
    BY <1>1, WorkersAreThreads, EndStep
       DEF RequestNotOwner, store, env, obs, bounds

LEMMA MarkDirtyInv ==
  ASSUME DurableInv, NEW z \in Zones, NEW k \in Workers, MarkDirty(z, k)
  PROVE DurableInv'
  <1>1. task[z][k].p \in Players /\ task[z][k].target \in Nat
    BY TaskFacts, TaskFields, WorkersAreThreads DEF MarkDirty, DurableInv
  <1>2. TypeOK'
    BY <1>1, SetTaskType, DirtiedType, ConstantsType, WorkersAreThreads
       DEF DurableInv, TypeOK, MarkDirty, EndTask, store, env, obs, bounds
  <1> QED
    BY <1>2, WorkersAreThreads, EndStep
       DEF MarkDirty, store, env, obs, bounds

LEMMA CancelRequestInv ==
  ASSUME DurableInv, NEW z \in Zones, NEW k \in Workers, CancelRequest(z, k)
  PROVE DurableInv'
  <1>1. TypeOK'
    BY SetTaskType, BoundsType, ConstantsType, WorkersAreThreads
       DEF DurableInv, TypeOK, CancelRequest, EndTask, store, env, obs
  <1> QED
    BY <1>1, WorkersAreThreads, EndStep
       DEF CancelRequest, store, env, obs

\* settleSyncStepLocked marks the player dirty on its way to the flush.
LEMMA SettleMarkDirtyInv ==
  ASSUME DurableInv, NEW z \in Zones, NEW k \in Workers, SettleMarkDirty(z, k)
  PROVE DurableInv'
  <1> DEFINE t == task[z][k]
             t2 == [t EXCEPT !.pc = "flush"]
  <1>1. t \in Tasks /\ t.p \in Players /\ t.target \in Nat /\ t.pc = "mark"
        /\ k \in Threads /\ TaskOK(k, t, actor[z], row)
    BY TaskFacts, TaskFields, WorkersAreThreads DEF SettleMarkDirty, DurableInv
  <1>2. t2 \in Tasks /\ SetTask(z, k, t2)
    BY <1>1 DEF Tasks, PCs, SettleMarkDirty
  <1>3. TypeOK'
    BY <1>1, <1>2, SetTaskType, DirtiedType
       DEF DurableInv, TypeOK, SettleMarkDirty, store, env, obs, bounds
  <1>4. TaskOK(k, t2, actor[z], row)
    BY <1>1 DEF TaskOK, ShapeOK, SaveOK, SettleOK, SettlePcs, SavePcs, Tasks
  <1>5. LockOK(z)'
    BY <1>1, <1>2, WorkersAreThreads, MoveLock
       DEF SettleMarkDirty, env
  <1> QED
    BY <1>1, <1>2, <1>3, <1>4, <1>5, TaskStep
       DEF SettleMarkDirty, store, env, obs

----------------------------------------------------------------------------
(* Saves: what the shared phases do to a task.                             *)

LEMMA FailedOK ==
  ASSUME NEW k \in Threads, NEW t \in Tasks, NEW acts, NEW rows,
         TaskOK(k, t, acts, rows), t.pc \in SavePcs
  PROVE TaskOK(k, Failed(t), acts, rows)
  <1>1. CASE t.job \in {"evict", "drain"}
    <2> DEFINE t2 == [t EXCEPT !.pc = "verify"]
    <2>1. /\ t2.pc = "verify" /\ t2.job = t.job /\ t2.p = t.p /\ t2.op = t.op
          /\ t2.snap = t.snap /\ t2.tok = t.tok /\ t2.newtok = t.newtok
          /\ t2.mrev = t.mrev
      BY DEF Tasks
    <2>2. k \notin Workers /\ k # "flusher" /\ t.p \in Players
      BY <1>1 DEF TaskOK, ShapeOK, SavePcs, Threads
    <2>3. ShapeOK(k, t2)
      <3> HIDE DEF t2
      <3> QED BY <1>1, <2>1, <2>2 DEF TaskOK, ShapeOK, SavePcs
    <2>4. SaveOK(t2, acts[t2.p], rows[t2.p])
      <3>1. SaveOK(t, acts[t.p], rows[t.p])
        BY DEF TaskOK, SavePcs
      <3> HIDE DEF t2
      <3> QED BY <1>1, <2>1, <3>1 DEF SaveOK, SnapOK, SavePcs
    <2>5. TaskOK(k, t2, acts, rows)
      BY <2>2, <2>3, <2>4 DEF TaskOK
    <2> QED
      BY <1>1, <2>5 DEF Failed
  <1>2. CASE t.job \notin {"evict", "drain"}
    BY <1>2, IdleOK DEF Failed
  <1> QED
    BY <1>1, <1>2

\* An eviction whose save fails goes on as an eviction.
LEMMA FailedEvict ==
  ASSUME NEW t \in Tasks, t.job = "evict"
  PROVE /\ Failed(t).job = "evict" /\ Failed(t).p = t.p
        /\ Failed(t).pc \in SavePcs
  BY DEF Failed, Tasks, SavePcs

LEMMA FlushedOK ==
  ASSUME NEW k \in Workers \cup {"flusher"}, NEW t \in Tasks, NEW acts,
         NEW rows,
         k \in Workers => /\ t.job = "command" /\ t.op \in Ops
                          /\ t.p \in Players
                          /\ t.pc \in SettlePcs \ {"inspect"}
                          /\ SettleOK(t, acts[t.p]),
         k = "flusher" => t.job = "flush"
  PROVE TaskOK(k, Flushed(t), acts, rows)
  <1>1. CASE k \in Workers
    <2> DEFINE t2 == [t EXCEPT !.pc = "confirm"]
    <2>1. /\ t2.pc = "confirm" /\ t2.job = "command" /\ t2.p = t.p
          /\ t2.op = t.op /\ t2.mrev = t.mrev
      BY <1>1 DEF Tasks
    <2>2. k # "flusher" /\ k # "exclusive"
      BY <1>1
    <2>3. TaskOK(k, t2, acts, rows)
      <3> HIDE DEF t2
      <3> QED
        BY <1>1, <2>1, <2>2
           DEF TaskOK, ShapeOK, SaveOK, SettleOK, SettlePcs, SavePcs
    <2> QED
      BY <1>1, <2>3 DEF Flushed
  <1>2. CASE k = "flusher"
    <2> DEFINE t2 == [IdleTask EXCEPT !.pc = "next", !.job = "flush",
                                      !.todo = t.todo]
    <2>1. t2.pc = "next" /\ t2.job = "flush" /\ k \notin Workers
      BY <1>2 DEF IdleTask
    <2>2. TaskOK(k, t2, acts, rows)
      <3> HIDE DEF t2
      <3> QED BY <1>2, <2>1 DEF TaskOK, ShapeOK, SavePcs
    <2> QED
      BY <1>2, <2>2 DEF Flushed
  <1> QED
    BY <1>1, <1>2

LEMMA SnapshotOK ==
  ASSUME DurableInv, NEW z \in Zones, NEW k \in Workers \cup {"flusher"},
         NEW t \in Tasks, t.p \in Players,
         k \in Workers => /\ t.job = "command" /\ t.op \in Ops
                          /\ t.pc = "flush"
                          /\ SettleOK(t, actor[z][t.p]),
         k = "flusher" => t.job = "flush"
  PROVE TaskOK(k, Snapshot(z, t), actor[z], row)
  <1> DEFINE a == actor[z][t.p]
             t2 == [t EXCEPT !.pc = "fence", !.snap = a.st, !.exp = a.prev,
                             !.tok = a.ptok]
  <1>1. TaskOK(k, Flushed(t), actor[z], row)
    BY FlushedOK DEF SettlePcs
  <1>2. TaskOK(k, IdleTask, actor[z], row)
    BY IdleOK, WorkersAreThreads
  <1>3. ASSUME a.life = "ready" PROVE TaskOK(k, t2, actor[z], row)
    <2>1. /\ t2.pc = "fence" /\ t2.job = t.job /\ t2.p = t.p /\ t2.op = t.op
          /\ t2.mrev = t.mrev /\ t2.snap = a.st /\ t2.tok = a.ptok
      BY DEF Tasks
    <2>2. ActorOK(a, row[t.p]) /\ a \in Actors /\ a.st \in Contents
          /\ a.st.rev \in Nat /\ a.st.epoch \in Nat
      BY ActorFields DEF DurableInv, Contents
    <2>3. SaveOK(t2, a, row[t.p])
      <3> HIDE DEF t2, a
      <3> QED
        BY <1>3, <2>1, <2>2 DEF SaveOK, SnapOK, ActorOK, Live, SavePcs
    <2>4. k \in Workers => SettleOK(t2, a)
      <3>1. k \in Workers => SettleOK(t, a) /\ t.pc = "flush"
        OBVIOUS
      <3> HIDE DEF t2, a
      <3> QED
        BY <2>1, <3>1 DEF SettleOK, SettlePcs, SavePcs
    <2>5. ShapeOK(k, t2)
      <3> HIDE DEF t2, a
      <3> QED BY <2>1, WorkersAreThreads DEF ShapeOK, SavePcs
    <2>6. t2.p = t.p
      BY <2>1
    <2> HIDE DEF t2
    <2> QED
      BY <2>3, <2>4, <2>5, <2>6 DEF TaskOK
  <1> QED
    BY <1>1, <1>2, <1>3 DEF Snapshot

\* A busy goroutine moves on; rows and Actors stay as they are.
LEMMA BusyStep ==
  ASSUME DurableInv, TypeOK', NEW z \in Zones, NEW k \in Threads, NEW t \in Tasks,
         task[z][k].pc \notin {"idle", "next"}, SetTask(z, k, t),
         TaskOK(k, t, actor[z], row),
         k = "exclusive" /\ task[z][k].job = "evict" =>
             t.job = "evict" /\ t.p = task[z][k].p /\ t.pc \in SavePcs,
         UNCHANGED <<row, late, actor, status, acked>>
  PROVE DurableInv'
  <1>1. k \in Workers \/ k = "flusher" \/ k = "exclusive"
    BY DEF Threads
  <1>2. LockOK(z)'
    BY <1>1, MoveLock
  <1> QED
    BY <1>2, TaskStep

LEMMA SettleFlushInv ==
  ASSUME DurableInv, NEW z \in Zones, NEW k \in Workers, SettleFlush(z, k)
  PROVE DurableInv'
  <1> DEFINE t == task[z][k]
             t2 == Snapshot(z, t)
  <1>1. t \in Tasks /\ t.p \in Players /\ t.pc = "flush" /\ k \in Threads
        /\ t.op \in Ops /\ SettleOK(t, actor[z][t.p]) /\ t.job = "command"
    BY TaskFacts, TaskFields, WorkersAreThreads
       DEF SettleFlush, DurableInv, ShapeOK
  <1>2. TaskOK(k, t2, actor[z], row)
    BY <1>1, WorkersAreThreads, SnapshotOK
  <1>3. t2 \in Tasks /\ SetTask(z, k, t2)
    BY <1>1, SnapshotType DEF DurableInv, SettleFlush
  <1> HIDE DEF t2
  <1>4. TypeOK'
    BY <1>1, <1>3, SetTaskType
       DEF DurableInv, TypeOK, SettleFlush, store, env, obs, bounds
  <1> QED
    BY <1>1, <1>2, <1>3, <1>4, WorkersAreThreads, BusyStep
       DEF SettleFlush, store, env, obs

\* A phase of a save that only decides what comes next.
LEMMA SaveMoves ==
  ASSUME DurableInv, TypeOK', NEW z \in Zones, NEW k \in Threads,
         task[z][k].pc \in SavePcs, NEW t \in Tasks, SetTask(z, k, t),
         \/ t = Failed(task[z][k])
         \/ /\ t.pc \in SavePcs
            /\ t.job = task[z][k].job /\ t.p = task[z][k].p
            /\ TaskOK(k, t, actor[z], row),
         UNCHANGED <<row, late, actor, status, acked>>
  PROVE DurableInv'
  <1>1. task[z][k] \in Tasks /\ TaskOK(k, task[z][k], actor[z], row)
    BY TaskFields, TaskFacts DEF DurableInv
  <1>2. TaskOK(k, t, actor[z], row)
    BY <1>1, FailedOK
  <1>3. task[z][k].job = "evict" =>
            t.job = "evict" /\ t.p = task[z][k].p /\ t.pc \in SavePcs
    BY <1>1, FailedEvict
  <1>4. task[z][k].pc \notin {"idle", "next"}
    BY DEF SavePcs
  <1> QED
    BY <1>2, <1>3, <1>4, BusyStep

LEMMA SaveFenceInv ==
  ASSUME DurableInv, NEW z \in Zones, NEW k \in Threads, SaveFence(z, k)
  PROVE DurableInv'
  <1> DEFINE t == task[z][k]
             t2 == [t EXCEPT !.pc = "update"]
  <1>1. t \in Tasks /\ t.pc = "fence" /\ TaskOK(k, t, actor[z], row)
    BY TaskFields, TaskFacts DEF DurableInv, SaveFence
  <1>2. /\ t2 \in Tasks /\ t2.pc = "update" /\ t2.job = t.job /\ t2.p = t.p
        /\ t2.op = t.op /\ t2.mrev = t.mrev /\ t2.snap = t.snap
        /\ t2.tok = t.tok /\ t2.newtok = t.newtok
    BY <1>1 DEF Tasks, PCs, SavePcs
  <1>3. PICK u \in {t2, Failed(t)} : SetTask(z, k, u)
    BY DEF SaveFence
  <1>4. u \in Tasks
    BY <1>1, <1>2, <1>3, FailedType
  <1>5. TypeOK'
    BY <1>3, <1>4, SetTaskType, BoundsType
       DEF DurableInv, TypeOK, SaveFence, NoFault, store, env, obs
  <1>6. TaskOK(k, t2, actor[z], row)
    <2> HIDE DEF t2, t
    <2> QED
      BY <1>1, <1>2 DEF TaskOK, ShapeOK, SaveOK, SnapOK, SettleOK, SettlePcs,
                        SavePcs
  <1>7. t.pc \in SavePcs /\ t2.pc \in SavePcs
    BY <1>1, <1>2 DEF SavePcs
  <1> HIDE DEF t2
  <1> QED
    BY <1>2, <1>3, <1>4, <1>5, <1>6, <1>7, SaveMoves
       DEF SaveFence, store, env, obs

\* reconcileFailedCAS: a row that equals the snapshot contains it.
LEMMA ReconcileFailedCASInv ==
  ASSUME DurableInv, NEW z \in Zones, NEW k \in Threads, ReconcileFailedCAS(z, k)
  PROVE DurableInv'
  <1> DEFINE t == task[z][k]
             t2 == [t EXCEPT !.pc = "outbox", !.newtok = row[t.p].ver]
  <1>1. t \in Tasks /\ t.pc = "recon" /\ TaskOK(k, t, actor[z], row)
        /\ t.p \in Players
    BY TaskFields, TaskFacts DEF DurableInv, ReconcileFailedCAS
  <1>2. /\ row[t.p].ver \in Nat /\ row[t.p].c.epoch \in Nat
        /\ t.snap.epoch \in Nat
    BY <1>1, RowFields DEF DurableInv, Contents, Tasks
  <1>3. /\ t2 \in Tasks /\ t2.pc = "outbox" /\ t2.job = t.job /\ t2.p = t.p
        /\ t2.op = t.op /\ t2.mrev = t.mrev /\ t2.snap = t.snap
        /\ t2.tok = t.tok /\ t2.newtok = row[t.p].ver
    BY <1>1, <1>2 DEF Tasks, PCs, SavePcs
  <1>4. PICK u \in {t2, Failed(t)} :
           SetTask(z, k, u) /\ (u = Failed(t) \/ row[t.p].c = t.snap)
    BY DEF ReconcileFailedCAS, OwnWrite
  <1>5. u \in Tasks
    BY <1>1, <1>3, <1>4, FailedType
  <1>6. TypeOK'
    BY <1>4, <1>5, SetTaskType, BoundsType
       DEF DurableInv, TypeOK, ReconcileFailedCAS, NoFault, store, env, obs
  <1>7. ASSUME row[t.p].c = t.snap PROVE TaskOK(k, t2, actor[z], row)
    <2>1. SaveOK(t2, actor[z][t.p], row[t.p])
      <3> HIDE DEF t2, t
      <3> QED
        BY <1>1, <1>2, <1>3, <1>7
           DEF TaskOK, SaveOK, SnapOK, WrittenOK, Extends, SavePcs
    <2> HIDE DEF t2, t
    <2> QED
      BY <1>1, <1>3, <2>1 DEF TaskOK, ShapeOK, SettleOK, SettlePcs, SavePcs
  <1>8. t.pc \in SavePcs /\ t2.pc \in SavePcs
    BY <1>1, <1>3 DEF SavePcs
  <1> HIDE DEF t2
  <1> QED
    BY <1>3, <1>4, <1>5, <1>6, <1>7, <1>8, SaveMoves
       DEF ReconcileFailedCAS, store, env, obs

LEMMA SaveOutboxInv ==
  ASSUME DurableInv, NEW z \in Zones, NEW k \in Threads, SaveOutbox(z, k)
  PROVE DurableInv'
  <1> DEFINE t == task[z][k]
             ta == [t EXCEPT !.pc = "ack"]
             tn == [t EXCEPT !.pc = "next"]
  <1>1. t \in Tasks /\ t.pc = "outbox" /\ TaskOK(k, t, actor[z], row)
        /\ t.p \in Players
    BY TaskFields, TaskFacts DEF DurableInv, SaveOutbox
  <1>2. /\ ta \in Tasks /\ ta.pc = "ack" /\ ta.job = t.job /\ ta.p = t.p
        /\ ta.op = t.op /\ ta.mrev = t.mrev /\ ta.snap = t.snap
        /\ ta.tok = t.tok /\ ta.newtok = t.newtok
        /\ tn \in Tasks /\ tn.pc = "next" /\ tn.job = t.job
    BY <1>1 DEF Tasks, PCs, SavePcs
  <1>3. PICK u \in {ta, tn, Failed(t)} :
           /\ SetTask(z, k, u)
           /\ u = ta => t.job # "prepare"
           /\ u = tn => t.job = "prepare"
    <2> HIDE DEF t, ta, tn
    <2>1. ta.pc = "ack" /\ tn.pc = "next"
      BY <1>2
    <2>2. Failed(t) # ta /\ Failed(t) # tn
      BY <2>1, <1>1 DEF Failed, IdleTask, Tasks
    <2> QED
      BY <2>1, <2>2 DEF SaveOutbox, t, ta, tn
  <1>4. u \in Tasks
    BY <1>1, <1>2, <1>3, FailedType
  <1>5. TypeOK'
    <2>1. outbox' \in [Players ->
                         [OutboxOps -> {"none", "pending", "delivered"}]]
      BY <1>1, EnsureType DEF DurableInv, SaveOutbox
    <2>2. task' \in [Zones -> [Threads -> Tasks]]
      BY <1>3, <1>4, SetTaskType DEF DurableInv
    <2>3. faults' \in 0..MaxFaults
      BY BoundsType DEF DurableInv, TypeOK, SaveOutbox, NoFault
    <2> QED
      BY <2>1, <2>2, <2>3 DEF DurableInv, TypeOK, SaveOutbox, env, obs
  <1>6. ASSUME t.job # "prepare" PROVE TaskOK(k, ta, actor[z], row)
    <2> HIDE DEF ta, t
    <2> QED
      BY <1>1, <1>2, <1>6
         DEF TaskOK, ShapeOK, SaveOK, SnapOK, WrittenOK, SettleOK, SettlePcs,
             SavePcs
  <1>7. ASSUME t.job = "prepare" PROVE TaskOK(k, tn, actor[z], row)
    <2> HIDE DEF tn, t
    <2> QED
      BY <1>1, <1>2, <1>7 DEF TaskOK, ShapeOK, SavePcs, Threads
  <1>8. t.pc \in SavePcs /\ ta.pc \in SavePcs /\ t.pc \notin {"idle", "next"}
    BY <1>1, <1>2 DEF SavePcs
  <1>9. UNCHANGED <<row, late, actor, status, acked>>
    BY DEF SaveOutbox, env, obs
  <1> HIDE DEF ta, tn
  <1>10. CASE u = tn
    BY <1>2, <1>3, <1>5, <1>7, <1>8, <1>9, <1>10, BusyStep
  <1>11. CASE u # tn
    BY <1>2, <1>3, <1>4, <1>5, <1>6, <1>8, <1>9, <1>11, SaveMoves
  <1> QED
    BY <1>10, <1>11

----------------------------------------------------------------------------
(* The flusher, drain and prepare.                                         *)

\* A goroutine between two players of its list holds no snapshot.
LEMMA NextOK ==
  ASSUME NEW t, NEW k \in {"flusher", "exclusive"}, NEW acts, NEW rows,
         t.pc = "next",
         t.job \in (IF k = "flusher" THEN {"flush"} ELSE {"drain", "prepare"})
  PROVE TaskOK(k, t, acts, rows)
  BY WorkersAreThreads DEF TaskOK, ShapeOK, SavePcs

LEMMA StartFlushInv ==
  ASSUME DurableInv, NEW z \in Zones, StartFlush(z)
  PROVE DurableInv'
  <1> DEFINE t2 == [IdleTask EXCEPT !.pc = "next", !.job = "flush",
                                    !.todo = DirtyPlayers(z)]
  <1>1. t2 \in Tasks /\ t2.pc = "next" /\ t2.job = "flush"
    BY ConstantsType DEF Tasks, PCs, Jobs, DirtyPlayers
  <1>2. SetTask(z, "flusher", t2)
    BY DEF StartFlush
  <1> HIDE DEF t2
  <1>3. TypeOK'
    BY <1>1, <1>2, SetTaskType, WorkersAreThreads
       DEF DurableInv, TypeOK, StartFlush, store, env, obs, bounds
  <1>4. UNCHANGED <<row, late, actor, status, acked>>
    BY DEF StartFlush, store, env, obs
  <1>5. LockOK(z)'
    BY <1>1, <1>2, <1>4, WorkersAreThreads, MoveLock
  <1> QED
    BY <1>1, <1>2, <1>3, <1>4, <1>5, WorkersAreThreads, NextOK, TaskStep

LEMMA FlushNextInv ==
  ASSUME DurableInv, NEW z \in Zones, FlushNext(z)
  PROVE DurableInv'
  <1> DEFINE t == task[z]["flusher"]
  <1>1. t \in Tasks /\ t.pc = "next" /\ t.job = "flush"
        /\ t.todo \in SUBSET Players
    BY TaskFields, TaskFacts, WorkersAreThreads DEF DurableInv, FlushNext, ShapeOK
  <1>2. UNCHANGED <<row, late, actor, status, acked>>
    BY DEF FlushNext, store, env, obs
  <1>3. CASE EndTask(z, "flusher")
    <2>1. TypeOK'
      BY <1>3, SetTaskType, ConstantsType, WorkersAreThreads
         DEF DurableInv, TypeOK, FlushNext, EndTask, store, env, obs, bounds
    <2> QED
      BY <1>2, <1>3, <2>1, WorkersAreThreads, EndStep
  <1>4. ASSUME NEW p \in t.todo, ~Writing(z),
               SetTask(z, "flusher",
                   Snapshot(z, [t EXCEPT !.p = p, !.todo = @ \ {p}]))
        PROVE  DurableInv'
    <2> DEFINE s == [t EXCEPT !.p = p, !.todo = @ \ {p}]
               t2 == Snapshot(z, s)
    <2>1. s \in Tasks /\ s.p = p /\ s.p \in Players /\ s.job = "flush"
      BY <1>1 DEF Tasks
    <2>2. SetTask(z, "flusher", t2)
      BY <1>4
    <2> HIDE DEF s
    <2>3. t2 \in Tasks /\ TaskOK("flusher", t2, actor[z], row)
      BY <2>1, SnapshotType, SnapshotOK, WorkersAreThreads DEF DurableInv
    <2> HIDE DEF t2
    <2>4. TypeOK'
      BY <2>2, <2>3, SetTaskType, WorkersAreThreads
         DEF DurableInv, TypeOK, FlushNext, store, env, obs, bounds
    <2>5. LockOK(z)'
      BY <1>2, <1>4, <2>2, <2>3, WorkersAreThreads, MoveLock
    <2> QED
      BY <1>2, <2>2, <2>3, <2>4, <2>5, WorkersAreThreads, TaskStep
  <1> QED
    BY <1>3, <1>4 DEF FlushNext

\* Taking the shard's write lock.
LEMMA AcquireLock ==
  ASSUME DurableInv, NEW z \in Zones, Excluded(z), NEW t \in Tasks,
         SetTask(z, "exclusive", t), status' = status,
         \A p \in Players : actor'[z][p].life = "evicting" =>
            t.pc \in SavePcs /\ t.job = "evict" /\ t.p = p
  PROVE LockOK(z)'
  <1>1. task[z] \in [Threads -> Tasks] /\ task \in [Zones -> [Threads -> Tasks]]
    BY DEF DurableInv, TypeOK
  <1>2. task'[z]["exclusive"] = t
        /\ \A j \in Threads : j # "exclusive" => task'[z][j] = task[z][j]
    BY <1>1, WorkersAreThreads DEF SetTask
  <1> QED
    BY <1>2, WorkersAreThreads DEF LockOK, Reading, Writing, Excluded

\* With the write lock free no Actor is being evicted.
LEMMA NoEviction ==
  ASSUME DurableInv, NEW z \in Zones, ~Writing(z), NEW p \in Players
  PROVE actor[z][p].life # "evicting"
  BY DEF DurableInv, LockOK, Writing, SavePcs

LEMMA StartDrainInv ==
  ASSUME DurableInv, NEW z \in Zones, StartDrain(z)
  PROVE DurableInv'
  <1> DEFINE S == {p \in Players : actor[z][p].life # "absent"}
             t2 == [IdleTask EXCEPT !.pc = "next", !.job = "drain",
                        !.epoch = view[z], !.todo = S]
  <1>0. view[z] \in Nat /\ S \in SUBSET Players
    BY DEF DurableInv, TypeOK
  <1> HIDE DEF S
  <1>1. t2 \in Tasks /\ t2.pc = "next" /\ t2.job = "drain"
    BY <1>0, ConstantsType DEF Tasks, PCs, Jobs
  <1>2. SetTask(z, "exclusive", t2) /\ Excluded(z)
    BY DEF StartDrain, S
  <1> HIDE DEF t2
  <1>3. TypeOK'
    <2>1. task' \in [Zones -> [Threads -> Tasks]]
      BY <1>1, <1>2, SetTaskType, WorkersAreThreads DEF DurableInv
    <2>2. stops' \in 0..MaxStops /\ manifest' \in Manifests
          /\ view' \in [Zones -> Nat]
      BY BoundsType, ConstantsType DEF DurableInv, TypeOK, StartDrain
    <2> QED
      BY <2>1, <2>2 DEF DurableInv, TypeOK, StartDrain, store
  <1>4. UNCHANGED <<row, late, actor, status, acked>>
    BY DEF StartDrain, store
  <1>5. LockOK(z)'
    BY <1>1, <1>2, <1>4, AcquireLock, NoEviction DEF Excluded
  <1> QED
    BY <1>1, <1>2, <1>3, <1>4, <1>5, WorkersAreThreads, NextOK, TaskStep

LEMMA StartPrepareInv ==
  ASSUME DurableInv, NEW z \in Zones, StartPrepare(z)
  PROVE DurableInv'
  <1> DEFINE S == {p \in Players : manifest.revs[p] > 0}
             t2 == [IdleTask EXCEPT !.pc = "next", !.job = "prepare",
                        !.epoch = fence.epoch, !.plan = manifest.revs,
                        !.todo = S]
  <1>0. fence.epoch \in Nat /\ manifest.revs \in [Players -> Nat]
        /\ S \in SUBSET Players
    BY DEF DurableInv, TypeOK, Manifests
  <1> HIDE DEF S
  <1>1. t2 \in Tasks /\ t2.pc = "next" /\ t2.job = "prepare"
    BY <1>0, ConstantsType DEF Tasks, PCs, Jobs
  <1>2. SetTask(z, "exclusive", t2) /\ Excluded(z)
    BY DEF StartPrepare, S
  <1> HIDE DEF t2
  <1>3. TypeOK'
    <2>1. task' \in [Zones -> [Threads -> Tasks]]
      BY <1>1, <1>2, SetTaskType, WorkersAreThreads DEF DurableInv
    <2>2. stops' \in 0..MaxStops
      BY BoundsType DEF DurableInv, StartPrepare
    <2> QED
      BY <2>1, <2>2 DEF DurableInv, TypeOK, StartPrepare, store, env, obs
  <1>4. UNCHANGED <<row, late, actor, status, acked>>
    BY DEF StartPrepare, store, env, obs
  <1>5. LockOK(z)'
    BY <1>1, <1>2, <1>4, AcquireLock, NoEviction DEF Excluded
  <1> QED
    BY <1>1, <1>2, <1>3, <1>4, <1>5, WorkersAreThreads, NextOK, TaskStep

\* The holder of the write lock, between two players, moves on.
LEMMA ExclusiveMoves ==
  ASSUME DurableInv, TypeOK', NEW z \in Zones, NEW t \in Tasks,
         task[z]["exclusive"].pc = "next", SetTask(z, "exclusive", t),
         TaskOK("exclusive", t, actor[z], row),
         UNCHANGED <<row, late, actor, status, acked>>
  PROVE DurableInv'
  <1>1. task[z]["exclusive"].job # "evict"
    BY TaskFacts, WorkersAreThreads DEF ShapeOK
  <1>2. LockOK(z)'
    BY <1>1, MoveLock, WorkersAreThreads
  <1> QED
    BY <1>2, WorkersAreThreads, TaskStep

LEMMA DrainNextInv ==
  ASSUME DurableInv, NEW z \in Zones, DrainNext(z)
  PROVE DurableInv'
  <1> DEFINE t == task[z]["exclusive"]
  <1>1. t \in Tasks /\ t.pc = "next" /\ t.job = "drain"
        /\ t.todo \in SUBSET Players
    BY TaskFields, WorkersAreThreads DEF DurableInv, DrainNext
  <1>2. UNCHANGED <<row, late, actor, status, acked>>
    BY DEF DrainNext, store, env, obs
  <1>3. PICK p \in t.todo :
           LET a == actor[z][p]
               rest == [t EXCEPT !.todo = @ \ {p}]
           IN
           \/ SetTask(z, "exclusive", rest) /\ UNCHANGED dirty
           \/ EndTask(z, "exclusive") /\ UNCHANGED dirty
           \/ /\ a.life = "ready"
              /\ SetTask(z, "exclusive",
                     [rest EXCEPT !.pc = "fence", !.p = p,
                         !.snap = a.st, !.exp = a.prev, !.tok = a.ptok])
              /\ Dirtied(z, p, a.st.rev)
    BY DEF DrainNext
  <1> DEFINE a == actor[z][p]
             rest == [t EXCEPT !.todo = @ \ {p}]
             save == [rest EXCEPT !.pc = "fence", !.p = p, !.snap = a.st,
                                  !.exp = a.prev, !.tok = a.ptok]
  <1>4. p \in Players
    BY <1>1, <1>3
  <1>5. /\ a.st \in Contents /\ a.st.rev \in Nat /\ a.st.epoch \in Nat
        /\ a.prev \in Nat /\ a.ptok \in Nat /\ ActorOK(a, row[p])
    BY <1>4, ActorFields DEF DurableInv, Contents
  <1>6. rest \in Tasks /\ rest.pc = "next" /\ rest.job = "drain"
    BY <1>1 DEF Tasks
  <1>7. /\ save \in Tasks /\ save.pc = "fence" /\ save.job = "drain"
        /\ save.p = p /\ save.snap = a.st /\ save.tok = a.ptok
    <2> HIDE DEF a, rest
    <2> QED BY <1>4, <1>5, <1>6 DEF Tasks, PCs, SavePcs
  <1>8. PICK u \in {rest, IdleTask, save} :
           /\ SetTask(z, "exclusive", u)
           /\ u = save => a.life = "ready"
           /\ UNCHANGED dirty \/ Dirtied(z, p, a.st.rev)
    <2>1. rest # save /\ IdleTask # save
      BY <1>6, <1>7 DEF IdleTask
    <2> QED
      BY <1>3, <2>1 DEF EndTask
  <1> HIDE DEF save, rest
  <1>9. u \in Tasks
    BY <1>6, <1>7, <1>8, ConstantsType
  <1>10. TypeOK'
    <2>1. task' \in [Zones -> [Threads -> Tasks]]
      BY <1>8, <1>9, SetTaskType, WorkersAreThreads DEF DurableInv
    <2>2. dirty' \in [Zones -> [Players -> Nat]]
      BY <1>4, <1>5, <1>8, DirtiedType DEF DurableInv, TypeOK
    <2> QED
      BY <2>1, <2>2 DEF DurableInv, TypeOK, DrainNext, store, env, obs, bounds
  <1>11. ASSUME a.life = "ready"
         PROVE  TaskOK("exclusive", save, actor[z], row)
    <2>1. SaveOK(save, a, row[p])
      <3> HIDE DEF a
      <3> QED
        BY <1>5, <1>7, <1>11 DEF SaveOK, SnapOK, ActorOK, Live, SavePcs
    <2> QED
      BY <1>4, <1>7, <2>1, WorkersAreThreads
         DEF TaskOK, ShapeOK, SavePcs
  <1>12. TaskOK("exclusive", u, actor[z], row)
    BY <1>6, <1>8, <1>11, NextOK, IdleOK, WorkersAreThreads
  <1> QED
    BY <1>1, <1>2, <1>8, <1>9, <1>10, <1>12, ExclusiveMoves

\* What prepare writes is the loaded row: it extends the row it was read from.
LEMMA LoadedExtends ==
  ASSUME TypeOK, NEW p \in Players
  PROVE /\ Loaded(p).data = row[p].c.data
        /\ Loaded(p).epoch = row[p].c.epoch
        /\ Loaded(p).rev >= row[p].c.rev
        /\ Extends(Loaded(p), row[p].ver, row[p])
  <1>1. row[p].c \in Contents /\ row[p].ver \in Nat
    BY RowFields
  <1>2. row[p].c.rev \in Nat /\ row[p].c.epoch \in Nat
    BY <1>1 DEF Contents
  <1>3. /\ Loaded(p).data = row[p].c.data
        /\ Loaded(p).epoch = row[p].c.epoch
        /\ Loaded(p).rev >= row[p].c.rev
    BY <1>1, <1>2 DEF Loaded, Contents
  <1> QED
    BY <1>1, <1>2, <1>3 DEF Extends

LEMMA PrepareNextInv ==
  ASSUME DurableInv, NEW z \in Zones, PrepareNext(z)
  PROVE DurableInv'
  <1> DEFINE t == task[z]["exclusive"]
  <1>1. t \in Tasks /\ t.pc = "next" /\ t.job = "prepare"
        /\ t.todo \in SUBSET Players /\ t.epoch \in Nat
    BY TaskFields, WorkersAreThreads DEF DurableInv, PrepareNext
  <1>2. UNCHANGED <<row, late, actor, status, acked>>
    BY DEF PrepareNext, env, obs
  <1>3. CASE EndTask(z, "exclusive") /\ UNCHANGED outbox
    <2>1. TypeOK'
      BY <1>3, SetTaskType, ConstantsType, WorkersAreThreads
         DEF DurableInv, TypeOK, PrepareNext, EndTask, env, obs, bounds
    <2> QED
      BY <1>1, <1>2, <1>3, <2>1, WorkersAreThreads, EndStep
  <1>4. ASSUME NEW p \in t.todo,
               Ensure(p, row[p].c.pend),
               LET c == Loaded(p)
                   rev == t.plan[p]
                   rest == [t EXCEPT !.todo = @ \ {p}]
               IN SetTask(z, "exclusive",
                   IF c.epoch = t.epoch /\ c.rev = rev + 1 THEN rest
                   ELSE IF c.epoch + 1 # t.epoch \/ c.rev # rev THEN IdleTask
                   ELSE [rest EXCEPT !.pc = "fence", !.p = p,
                            !.snap = [c EXCEPT !.epoch = t.epoch,
                                               !.rev = @ + 1,
                                               !.by = inc[z]],
                            !.exp = c.rev, !.tok = row[p].ver])
        PROVE  DurableInv'
    <2> DEFINE c == Loaded(p)
               rest == [t EXCEPT !.todo = @ \ {p}]
               snap == [c EXCEPT !.epoch = t.epoch, !.rev = @ + 1,
                                 !.by = inc[z]]
               save == [rest EXCEPT !.pc = "fence", !.p = p, !.snap = snap,
                                    !.exp = c.rev, !.tok = row[p].ver]
    <2>1. p \in Players /\ inc[z] \in Nat
      BY <1>1, <1>4 DEF DurableInv, TypeOK
    <2>2. c \in Contents /\ row[p].ver \in Nat /\ row[p].c \in Contents
      BY <2>1, LoadedType, RowFields DEF DurableInv
    <2>3. c.data = row[p].c.data /\ c.epoch = row[p].c.epoch
      BY <2>1, LoadedExtends DEF DurableInv
    <2> HIDE DEF c
    <2>4. c.rev \in Nat /\ c.epoch \in Nat /\ row[p].c.epoch \in Nat
      BY <2>2 DEF Contents
    <2>5. snap \in Contents /\ snap.data = c.data /\ snap.epoch = t.epoch
      <3>1. c.rev + 1 \in Nat /\ t.epoch \in Nat /\ inc[z] \in Nat
        BY <1>1, <2>1, <2>4
      <3> HIDE DEF t
      <3> QED
        BY <2>2, <3>1 DEF Contents
    <2>6. rest \in Tasks /\ rest.pc = "next" /\ rest.job = "prepare"
      BY <1>1 DEF Tasks
    <2> HIDE DEF snap, rest
    <2>7. /\ save \in Tasks /\ save.pc = "fence" /\ save.job = "prepare"
          /\ save.p = p /\ save.snap = snap /\ save.tok = row[p].ver
      BY <2>1, <2>2, <2>4, <2>5, <2>6 DEF Tasks, PCs, SavePcs
    <2>8. PICK u \in {rest, IdleTask, save} :
             /\ SetTask(z, "exclusive", u)
             /\ u = save => c.epoch + 1 = t.epoch
      <3>1. rest # save /\ IdleTask # save
        BY <2>6, <2>7 DEF IdleTask
      <3>2. SetTask(z, "exclusive",
              IF c.epoch = t.epoch /\ c.rev = t.plan[p] + 1 THEN rest
              ELSE IF c.epoch + 1 # t.epoch \/ c.rev # t.plan[p] THEN IdleTask
              ELSE save)
        BY <1>4 DEF c, rest, snap
      <3> HIDE DEF save
      <3> QED
        BY <3>1, <3>2
    <2> HIDE DEF save
    <2>9. u \in Tasks
      BY <2>6, <2>7, <2>8, ConstantsType
    <2>10. TypeOK'
      <3>1. task' \in [Zones -> [Threads -> Tasks]]
        BY <2>8, <2>9, SetTaskType, WorkersAreThreads DEF DurableInv
      <3>2. outbox' \in [Players ->
                           [OutboxOps -> {"none", "pending", "delivered"}]]
        BY <1>4, <2>1, EnsureType DEF DurableInv
      <3> QED
        BY <3>1, <3>2 DEF DurableInv, TypeOK, PrepareNext, env, obs, bounds
    <2>11. ASSUME c.epoch + 1 = t.epoch
           PROVE  TaskOK("exclusive", save, actor[z], row)
      <3>1. Extends(snap, row[p].ver, row[p])
        <4>1. row[p].c.epoch <= t.epoch
          BY <1>1, <2>3, <2>4, <2>11
        <4> QED
          BY <2>2, <2>3, <2>5, <4>1 DEF Extends
      <3>2. SaveOK(save, actor[z][p], row[p])
        BY <2>7, <3>1 DEF SaveOK, SavePcs
      <3> QED
        BY <2>1, <2>7, <3>2, WorkersAreThreads DEF TaskOK, ShapeOK, SavePcs
    <2>12. TaskOK("exclusive", u, actor[z], row)
      BY <2>6, <2>8, <2>11, NextOK, IdleOK, WorkersAreThreads
    <2> QED
      BY <1>1, <1>2, <2>8, <2>9, <2>10, <2>12, ExclusiveMoves
  <1> QED
    BY <1>3, <1>4 DEF PrepareNext

----------------------------------------------------------------------------
(* Steps that change Actors.                                               *)

\* A step of Zone z that leaves the rows alone.
LEMMA ZoneStepInv ==
  ASSUME DurableInv, TypeOK', NEW z \in Zones, row' = row,
         \A y \in Zones : y # z => /\ task'[y] = task[y]
                                   /\ actor'[y] = actor[y]
                                   /\ status'[y] = status[y],
         \A p \in Players :
            actor'[z][p] = actor[z][p] \/ ActorOK(actor'[z][p], row[p]),
         \A k \in Threads :
            \/ TaskOK(k, task'[z][k], actor'[z], row)
            \/ /\ task'[z][k] = task[z][k]
               /\ \A p \in Players :
                     ActorGrows(actor[z][p], actor'[z][p], row[p]),
         \A r \in late' : r \in late \/ LateOK(r, row[r.p]),
         LockOK(z)',
         \A p \in Players : acked'[p] \subseteq acked[p] \cup row[p].c.data
  PROVE DurableInv'
  <1>1. \A y \in Zones, p \in Players :
           actor'[y][p] = actor[y][p] \/ ActorOK(actor'[y][p], row'[p])
    OBVIOUS
  <1>2. ASSUME NEW y \in Zones, NEW k \in Threads
        PROVE  \/ TaskOK(k, task'[y][k], actor'[y], row')
               \/ /\ task'[y][k] = task[y][k]
                  /\ \A p \in Players :
                        ActorGrows(actor[y][p], actor'[y][p], row'[p])
    <2>1. CASE y = z
      BY <2>1
    <2>2. CASE y # z
      BY <2>2, ActorFields, ActorGrowsRefl DEF DurableInv
    <2> QED
      BY <2>1, <2>2
  <1>3. \A y \in Zones : LockOK(y)'
    BY LockOther DEF DurableInv
  <1>4. \A p \in Players : RowGrows(row[p], row'[p]) /\ RowOK(row'[p])
    BY DEF RowGrows, DurableInv
  <1> QED
    BY <1>1, <1>2, <1>3, <1>4, Preserve

LEMMA SetActorFacts ==
  ASSUME TypeOK, NEW z \in Zones, NEW p \in Players, NEW a, SetActor(z, p, a)
  PROVE /\ actor'[z][p] = a
        /\ \A q \in Players : q # p => actor'[z][q] = actor[z][q]
        /\ \A y \in Zones : y # z => actor'[y] = actor[y]
  BY DEF TypeOK, SetActor

LEMMA SetTaskFacts ==
  ASSUME TypeOK, NEW z \in Zones, NEW k \in Threads, NEW t, SetTask(z, k, t)
  PROVE /\ task'[z][k] = t
        /\ \A j \in Threads : j # k => task'[z][j] = task[z][j]
        /\ \A y \in Zones : y # z => task'[y] = task[y]
  BY DEF TypeOK, SetTask

\* One goroutine moves and changes one Actor, which stays or becomes resident.
LEMMA ActorStep ==
  ASSUME DurableInv, TypeOK', NEW z \in Zones, NEW k \in Threads, NEW t,
         NEW p \in Players, NEW a, SetTask(z, k, t), SetActor(z, p, a),
         UNCHANGED <<row, late, status>>,
         ActorOK(a, row[p]), ActorGrows(actor[z][p], a, row[p]),
         TaskOK(k, t, actor'[z], row), LockOK(z)',
         \A q \in Players : acked'[q] \subseteq acked[q] \cup row[q].c.data
  PROVE DurableInv'
  <1>1. TypeOK
    BY DEF DurableInv
  <1>2. \A q \in Players : ActorGrows(actor[z][q], actor'[z][q], row[q])
    BY <1>1, SetActorFacts, ActorFields, ActorGrowsRefl
  <1>3. \A q \in Players :
           actor'[z][q] = actor[z][q] \/ ActorOK(actor'[z][q], row[q])
    BY <1>1, SetActorFacts
  <1>4. \A j \in Threads :
            \/ TaskOK(j, task'[z][j], actor'[z], row)
            \/ /\ task'[z][j] = task[z][j]
               /\ \A q \in Players :
                     ActorGrows(actor[z][q], actor'[z][q], row[q])
    BY <1>1, <1>2, SetTaskFacts
  <1>5. \A y \in Zones : y # z => /\ task'[y] = task[y]
                                  /\ actor'[y] = actor[y]
                                  /\ status'[y] = status[y]
    BY <1>1, SetTaskFacts, SetActorFacts
  <1> QED
    BY <1>3, <1>4, <1>5, ZoneStepInv

\* A task that holds no snapshot does not depend on Actors and rows.
LEMMA RestOK ==
  ASSUME NEW k \in Threads, NEW t, NEW acts, NEW rows, NEW acts2, NEW rows2,
         TaskOK(k, t, acts, rows), t.pc \in {"idle", "next", "wait", "dirty"}
  PROVE TaskOK(k, t, acts2, rows2)
  BY WorkersAreThreads
     DEF TaskOK, ShapeOK, SaveOK, SettleOK, SettlePcs, SavePcs

LEMMA StartRequestInv ==
  ASSUME DurableInv, NEW z \in Zones, NEW k \in Workers, NEW p \in Players,
         NEW op \in Ops, StartRequest(z, k, p, op)
  PROVE DurableInv'
  <1> DEFINE t2 == [IdleTask EXCEPT !.pc = "wait", !.job = "command",
                                    !.p = p, !.op = op, !.epoch = view[z]]
             a == actor[z][p]
             a2 == [NoActor EXCEPT !.life = "loading", !.want = view[z]]
  <1>1. view[z] \in Nat /\ k \in Threads /\ TypeOK /\ LockOK(z)
    BY WorkersAreThreads DEF DurableInv, TypeOK
  <1>2. t2 \in Tasks /\ t2.pc = "wait" /\ t2.job = "command" /\ t2.p = p
        /\ t2.op = op
    BY <1>1, ConstantsType DEF Tasks, PCs, Jobs
  <1>3. a2 \in Actors /\ a2.life = "loading"
    BY <1>1, ConstantsType DEF Actors, Lives
  <1>4. SetTask(z, k, t2) /\ status[z] = "up" /\ ~Writing(z)
    BY DEF StartRequest
  <1>5. PICK b \in {a, a2} : SetActor(z, p, b) /\ (b = a \/ a.life = "absent")
    <2>1. CASE actor' = actor
      <3>1. SetActor(z, p, a)
        BY <1>1, <2>1 DEF SetActor, TypeOK
      <3> QED
        BY <3>1
    <2>2. CASE actor' # actor
      BY <2>2 DEF StartRequest
    <2> QED
      BY <2>1, <2>2
  <1> HIDE DEF t2, a2
  <1>6. b \in Actors /\ ActorOK(b, row[p]) /\ ActorGrows(a, b, row[p])
    <2>1. a \in Actors /\ ActorOK(a, row[p])
      BY <1>1, ActorFields DEF DurableInv
    <2>2. ActorOK(a2, row[p])
      BY <1>3 DEF ActorOK, Live
    <2>3. a.life = "absent" => ActorGrows(a, a2, row[p])
      BY DEF ActorGrows, Live
    <2> HIDE DEF a
    <2> QED
      BY <1>3, <1>5, <2>1, <2>2, <2>3, ActorGrowsRefl
  <1>7. TypeOK'
    <2>1. task' \in [Zones -> [Threads -> Tasks]]
      BY <1>1, <1>2, <1>4, SetTaskType
    <2>2. actor' \in [Zones -> [Players -> Actors]]
      BY <1>1, <1>5, <1>6, SetActorType
    <2> QED
      BY <1>1, <2>1, <2>2 DEF TypeOK, StartRequest, store, env, obs, bounds
  <1>8. TaskOK(k, t2, actor'[z], row)
    BY <1>2, WorkersAreThreads
       DEF TaskOK, ShapeOK, SaveOK, SettleOK, SettlePcs, SavePcs
  <1>9. UNCHANGED <<row, late, status, acked>>
    BY DEF StartRequest, store, env, obs
  <1>10. LockOK(z)'
    <2>1. \A j \in Threads : task'[z][j] = IF j = k THEN t2 ELSE task[z][j]
      BY <1>1, <1>4, SetTaskFacts
    <2>2. \A q \in Players : actor'[z][q].life # "evicting"
      <3>1. \A q \in Players : actor[z][q].life # "evicting"
        BY <1>4, NoEviction
      <3>2. b.life # "evicting"
        BY <1>3, <1>5, <3>1
      <3> QED
        BY <1>1, <1>5, <3>1, <3>2, SetActorFacts
    <2> QED
      BY <1>1, <1>4, <1>9, <2>1, <2>2, WorkersAreThreads
         DEF LockOK, Reading, Writing
  <1> HIDE DEF a
  <1> QED
    BY <1>1, <1>4, <1>5, <1>6, <1>7, <1>8, <1>9, <1>10, ActorStep DEF a

\* A mutation on a resident Actor keeps its part of the invariant, and the
\* marker of a Saga step is above every earlier revision.
LEMMA MutateOK ==
  ASSUME TypeOK, NEW z \in Zones, NEW a \in Actors, NEW r \in Rows,
         NEW op \in Ops, a.life = "ready", ActorOK(a, r), op \notin a.st.data,
         NEW a2 \in Actors, a2.life = "ready", a2.st = Mutate(a.st, op, z),
         a2.prev = a.prev, a2.ptok = a.ptok,
         \A o \in SyncOps : a2.marks[o] = IF o = op THEN a2.st.rev
                                          ELSE a.marks[o]
  PROVE ActorOK(a2, r) /\ ActorGrows(a, a2, r)
  <1>1. /\ a.st \in Contents /\ a.prev \in Nat /\ a.ptok \in Nat
        /\ a.st.rev \in Nat /\ a.st.epoch \in Nat
        /\ \A o \in SyncOps : a.marks[o] \in Nat
    BY DEF Actors, Contents
  <1>2. /\ a2.st.rev = a.st.rev + 1 /\ a2.st.data = a.st.data \cup {op}
        /\ a2.st.epoch = a.st.epoch
    BY <1>1 DEF Mutate, Contents
  <1>3. Extends(a2.st, a2.ptok, r)
    BY <1>2 DEF ActorOK, Extends, Live
  <1>4. ASSUME NEW o \in SyncOps
        PROVE  /\ a2.marks[o] <= a2.st.rev
               /\ o \in a2.st.data /\ a2.marks[o] <= a2.prev
                     => o \in r.c.data
    <2>1. a.marks[o] <= a.st.rev /\ a.prev <= a.st.rev
          /\ (o \in a.st.data /\ a.marks[o] <= a.prev => o \in r.c.data)
      BY DEF ActorOK, Live
    <2>2. CASE o = op
      BY <1>1, <1>2, <2>1, <2>2
    <2>3. CASE o # op
      BY <1>1, <1>2, <2>1, <2>3
    <2> QED
      BY <2>2, <2>3
  <1>5. a2.prev <= a2.st.rev
    BY <1>1, <1>2 DEF ActorOK, Live
  <1>6. ActorOK(a2, r)
    BY <1>3, <1>4, <1>5 DEF ActorOK
  <1>7. ASSUME NEW o \in SyncOps
        PROVE  /\ o \in a.st.data => a2.marks[o] <= a.marks[o]
               /\ o \in a2.st.data /\ o \notin r.c.data =>
                     \/ o \in a.st.data /\ a2.marks[o] = a.marks[o]
                     \/ a2.marks[o] > a.st.rev
    BY <1>1, <1>2
  <1>8. ActorGrows(a, a2, r)
    BY <1>1, <1>2, <1>7 DEF ActorGrows, Live
  <1> QED
    BY <1>6, <1>8

\* A request between its start and its answer, when it moves to pc.
LEMMA RequestMoves ==
  ASSUME NEW k \in Workers, NEW t, NEW acts, NEW rows,
         t.job = "command", t.p \in Players, t.op \in Ops,
         t.pc \in {"wait", "dirty", "inspect", "mark", "flush", "confirm"},
         t.pc \in {"inspect", "mark", "flush", "confirm"} =>
             SettleOK(t, acts[t.p])
  PROVE TaskOK(k, t, acts, rows)
  BY WorkersAreThreads
     DEF TaskOK, ShapeOK, SaveOK, SettleOK, SettlePcs, SavePcs

LEMMA ExecuteInv ==
  ASSUME DurableInv, NEW z \in Zones, NEW k \in Workers, Execute(z, k)
  PROVE DurableInv'
  <1> DEFINE t == task[z][k]
             a == actor[z][t.p]
             st == Mutate(a.st, t.op, z)
             ti == [t EXCEPT !.pc = "inspect"]
             td == [t EXCEPT !.pc = "dirty", !.target = st.rev]
             as == [a EXCEPT !.st = st, !.marks[t.op] = st.rev]
             ac == [a EXCEPT !.st = st]
  <1>1. t \in Tasks /\ t.pc = "wait" /\ t.p \in Players /\ t.op \in Ops
        /\ t.job = "command" /\ k \in Threads /\ TypeOK
    BY TaskFields, TaskFacts, WorkersAreThreads DEF DurableInv, Execute, ShapeOK
  <1>2. a \in Actors /\ a.life = "ready" /\ ActorOK(a, row[t.p])
        /\ a.st \in Contents /\ row[t.p] \in Rows
        /\ a.marks \in [SyncOps -> Nat]
    BY <1>1, ActorFields, RowFields DEF DurableInv, Execute
  <1>3. st \in Contents /\ st.rev \in Nat /\ st.data = a.st.data \cup {t.op}
    <2>1. st \in Contents
      BY <1>1, <1>2, MutateType
    <2> QED
      BY <1>2, <2>1 DEF Mutate, Contents
  <1>4. UNCHANGED <<row, late, status, acked>>
    BY DEF Execute, store, env, obs
  <1>5. /\ ti \in Tasks /\ ti.pc = "inspect" /\ ti.job = "command"
        /\ ti.p = t.p /\ ti.op = t.op
        /\ td \in Tasks /\ td.pc = "dirty" /\ td.job = "command"
        /\ td.p = t.p /\ td.op = t.op
    <2> HIDE DEF t, a, st
    <2> QED BY <1>1, <1>3 DEF Tasks, PCs
  <1>6. ASSUME t.op \in a.st.data, UNCHANGED actor,
               SetTask(z, k, IF t.op \in SyncOps THEN ti ELSE IdleTask)
        PROVE  DurableInv'
    <2> DEFINE u == IF t.op \in SyncOps THEN ti ELSE IdleTask
    <2>1. SetTask(z, k, u) /\ t.op \in a.st.data
      BY <1>6
    <2>2. u \in Tasks /\ TaskOK(k, u, actor[z], row)
      <3>1. t.op \in SyncOps => SettleOK(ti, a)
        BY <1>2, <1>5, <2>1 DEF SettleOK, Live
      <3> HIDE DEF ti, a, t
      <3> QED
        BY <1>1, <1>5, <3>1, ConstantsType, IdleOK, RequestMoves DEF a
    <2> HIDE DEF u, t
    <2>3. TypeOK'
      BY <1>1, <1>6, <2>1, <2>2, SetTaskType
         DEF TypeOK, Execute, store, env, obs, bounds
    <2>4. LockOK(z)'
      BY <1>1, <1>4, <1>6, <2>1, <2>2, WorkersAreThreads, MoveLock DEF t
    <2> QED
      BY <1>1, <1>4, <1>6, <2>1, <2>2, <2>3, <2>4, TaskStep
  <1>7. ASSUME NEW a2 \in {as, ac}, NEW u \in {ti, td},
               SetActor(z, t.p, a2), SetTask(z, k, u),
               t.op \notin a.st.data,
               \/ a2 = as /\ u = ti /\ t.op \in SyncOps
               \/ a2 = ac /\ u = td /\ t.op \notin SyncOps
        PROVE  DurableInv'
    <2>1. /\ a2 \in Actors /\ a2.life = "ready" /\ a2.st = st
          /\ a2.prev = a.prev /\ a2.ptok = a.ptok
          /\ \A o \in SyncOps : a2.marks[o] = IF o = t.op THEN a2.st.rev
                                              ELSE a.marks[o]
      <3>1. /\ ac \in Actors /\ ac.life = "ready" /\ ac.st = st
            /\ ac.prev = a.prev /\ ac.ptok = a.ptok /\ ac.marks = a.marks
        <4> HIDE DEF a, t, st
        <4> QED BY <1>2, <1>3 DEF Actors
      <3>2. ASSUME t.op \in SyncOps
            PROVE  /\ as \in Actors /\ as.life = "ready" /\ as.st = st
                   /\ as.prev = a.prev /\ as.ptok = a.ptok
                   /\ as.marks = [a.marks EXCEPT ![t.op] = st.rev]
        <4> HIDE DEF a, t, st
        <4> QED BY <1>2, <1>3, <3>2 DEF Actors
      <3> HIDE DEF a, t, st, as, ac, ti, td
      <3>3. CASE a2 = ac /\ t.op \notin SyncOps
        BY <3>1, <3>3
      <3>4. CASE a2 = as /\ t.op \in SyncOps
        BY <1>2, <3>2, <3>4
      <3> QED
        BY <1>7, <3>3, <3>4
    <2>2. ActorOK(a2, row[t.p]) /\ ActorGrows(a, a2, row[t.p])
      <3> HIDE DEF a, t, as, ac, ti, td
      <3> QED BY <1>1, <1>2, <1>7, <2>1, MutateOK
    <2>3. actor'[z][t.p] = a2
      <3> HIDE DEF t, a, st, as, ac, ti, td
      <3> QED BY <1>1, <1>7, SetActorFacts
    <2>4. TaskOK(k, u, actor'[z], row)
      <3>1. t.op \in SyncOps => SettleOK(ti, a2)
        BY <1>3, <1>5, <2>1 DEF SettleOK, Live
      <3> HIDE DEF ti, td, a, t, as, ac
      <3> QED
        BY <1>1, <1>5, <1>7, <2>3, <3>1, RequestMoves
    <2>5. u \in Tasks
      BY <1>5
    <2> HIDE DEF ti, td, as, ac, st
    <2>6. TypeOK'
      <3>1. task' \in [Zones -> [Threads -> Tasks]]
        BY <1>1, <1>7, <2>5, SetTaskType
      <3>2. actor' \in [Zones -> [Players -> Actors]]
        BY <1>1, <1>7, <2>1, SetActorType
      <3> QED
        BY <1>1, <3>1, <3>2 DEF TypeOK, Execute, store, env, obs, bounds
    <2>7. LockOK(z)'
      <3>1. \A q \in Players : actor'[z][q].life = "evicting" =>
                                  actor[z][q].life = "evicting"
        BY <1>1, <1>7, <2>1, SetActorFacts
      <3> QED
        BY <1>1, <1>4, <1>7, <2>5, <3>1, WorkersAreThreads, MoveLock
    <2> HIDE DEF t
    <2> QED
      BY <1>1, <1>4, <1>7, <2>2, <2>4, <2>6, <2>7, ActorStep
  <1>8. \/ /\ t.op \in a.st.data /\ UNCHANGED actor
           /\ SetTask(z, k, IF t.op \in SyncOps THEN ti ELSE IdleTask)
        \/ /\ t.op \notin a.st.data /\ t.op \in SyncOps
           /\ SetActor(z, t.p, as) /\ SetTask(z, k, ti)
        \/ /\ t.op \notin a.st.data /\ t.op \notin SyncOps
           /\ SetActor(z, t.p, ac) /\ SetTask(z, k, td)
    BY DEF Execute
  <1> HIDE DEF t, a, st, ti, td, as, ac
  <1>9. ASSUME t.op \notin a.st.data
        PROVE  \E a2 \in {as, ac}, u \in {ti, td} :
                  /\ SetActor(z, t.p, a2) /\ SetTask(z, k, u)
                  /\ \/ a2 = as /\ u = ti /\ t.op \in SyncOps
                     \/ a2 = ac /\ u = td /\ t.op \notin SyncOps
    <2>1. CASE t.op \in SyncOps
      <3>1. SetActor(z, t.p, as) /\ SetTask(z, k, ti)
        BY <1>8, <1>9, <2>1
      <3> QED BY <2>1, <3>1
    <2>2. CASE t.op \notin SyncOps
      <3>1. SetActor(z, t.p, ac) /\ SetTask(z, k, td)
        BY <1>8, <1>9, <2>2
      <3> QED BY <2>2, <3>1
    <2> QED BY <2>1, <2>2
  <1>10. CASE t.op \in a.st.data
    BY <1>6, <1>8, <1>10
  <1>11. CASE t.op \notin a.st.data
    <2>1. PICK a2 \in {as, ac}, u \in {ti, td} :
                  /\ SetActor(z, t.p, a2) /\ SetTask(z, k, u)
                  /\ \/ a2 = as /\ u = ti /\ t.op \in SyncOps
                     \/ a2 = ac /\ u = td /\ t.op \notin SyncOps
      BY <1>9, <1>11
    <2> QED BY <1>7, <1>11, <2>1
  <1> QED
    BY <1>10, <1>11

\* A settled step: it is in the row, so its marker is no longer needed.
LEMMA RetireInv ==
  ASSUME DurableInv, NEW z \in Zones, NEW k \in Workers, Retire(z, k),
         task[z][k].pc \in {"inspect", "confirm"},
         task[z][k].op \in row[task[z][k].p].c.data,
         UNCHANGED <<store, env, dirty, manifest, bounds>>
  PROVE DurableInv'
  <1> DEFINE t == task[z][k]
             a == actor[z][t.p]
             a2 == [a EXCEPT !.marks[t.op] = 0]
  <1>1. t \in Tasks /\ t.p \in Players /\ k \in Threads /\ TypeOK
        /\ t.pc # "idle" /\ SettleOK(t, a)
    BY TaskFields, TaskFacts, WorkersAreThreads DEF DurableInv
  <1>2. a \in Actors /\ ActorOK(a, row[t.p]) /\ row[t.p] \in Rows
        /\ a.marks \in [SyncOps -> Nat] /\ t.op \in SyncOps /\ a.life \in Live
    BY <1>1, ActorFields, RowFields DEF DurableInv, SettleOK, SettlePcs
  <1>3. /\ a2 \in Actors /\ a2.life = a.life /\ a2.st = a.st
        /\ a2.prev = a.prev /\ a2.ptok = a.ptok
        /\ \A o \in SyncOps : a2.marks[o] = IF o = t.op THEN 0
                                            ELSE a.marks[o]
    <2> HIDE DEF a, t
    <2> QED BY <1>2 DEF Actors
  <1>4. ActorOK(a2, row[t.p]) /\ ActorGrows(a, a2, row[t.p])
    <2>1. a.st.rev \in Nat /\ a.st.epoch \in Nat
          /\ \A o \in SyncOps : a.marks[o] \in Nat
      BY <1>2 DEF Actors, Contents
    <2>2. t.op \in row[t.p].c.data
      OBVIOUS
    <2> HIDE DEF a, a2, t
    <2>3. ActorOK(a2, row[t.p])
      BY <1>2, <1>3, <2>1, <2>2 DEF ActorOK
    <2>4. ActorGrows(a, a2, row[t.p])
      BY <1>2, <1>3, <2>1, <2>2 DEF ActorGrows
    <2> QED
      BY <2>3, <2>4
  <1>5. SetActor(z, t.p, a2) /\ SetTask(z, k, IdleTask)
    BY DEF Retire, EndTask
  <1>6. acked' \in [Players -> SUBSET SyncOps]
        /\ \A q \in Players : acked'[q] \subseteq acked[q] \cup row[q].c.data
    <2>1. acked' = [acked EXCEPT ![t.p] = @ \cup {t.op}]
      BY DEF Retire
    <2>2. t.op \in row[t.p].c.data
      OBVIOUS
    <2> HIDE DEF t
    <2> QED
      BY <1>1, <1>2, <2>1, <2>2 DEF TypeOK
  <1> HIDE DEF a2
  <1>7. TypeOK'
    <2>1. task' \in [Zones -> [Threads -> Tasks]]
      BY <1>1, <1>5, SetTaskType, ConstantsType
    <2>2. actor' \in [Zones -> [Players -> Actors]]
      BY <1>1, <1>3, <1>5, SetActorType
    <2> QED
      BY <1>1, <1>6, <2>1, <2>2 DEF TypeOK, store, env, bounds
  <1>8. LockOK(z)'
    <2>1. \A q \in Players : actor'[z][q].life = "evicting" =>
                                actor[z][q].life = "evicting"
      BY <1>1, <1>3, <1>5, SetActorFacts
    <2>2. IdleTask.pc = "idle"
      BY DEF IdleTask
    <2> QED
      BY <1>1, <1>5, <2>1, <2>2, WorkersAreThreads, ConstantsType, MoveLock
         DEF env
  <1> HIDE DEF t
  <1> QED
    BY <1>1, <1>4, <1>5, <1>6, <1>7, <1>8, IdleOK, ActorStep DEF store, env

LEMMA SettleInspectInv ==
  ASSUME DurableInv, NEW z \in Zones, NEW k \in Workers, SettleInspect(z, k)
  PROVE DurableInv'
  <1> DEFINE t == task[z][k]
             a == actor[z][t.p]
             t2 == [t EXCEPT !.pc = "mark", !.target = a.st.rev,
                             !.mrev = a.marks[t.op]]
  <1>1. t \in Tasks /\ t.pc = "inspect" /\ t.p \in Players /\ k \in Threads
        /\ t.op \in Ops /\ t.job = "command" /\ SettleOK(t, a)
    BY TaskFields, TaskFacts, WorkersAreThreads
       DEF DurableInv, SettleInspect, ShapeOK
  <1>2. /\ t.op \in SyncOps /\ t.op \in a.st.data /\ a.life \in Live
        /\ ActorOK(a, row[t.p]) /\ a.prev \in Nat
        /\ a.marks \in [SyncOps -> Nat] /\ a.st.rev \in Nat
    BY <1>1, ActorFields DEF DurableInv, SettleOK, SettlePcs, Contents
  <1>3. CASE a.prev < a.marks[t.op]
    <2>1. /\ t2 \in Tasks /\ t2.pc = "mark" /\ t2.job = "command"
          /\ t2.p = t.p /\ t2.op = t.op /\ t2.mrev = a.marks[t.op]
      <3>1. a.marks[t.op] \in Nat
        BY <1>2
      <3> HIDE DEF a, t
      <3> QED BY <1>1, <1>2, <3>1 DEF Tasks, PCs
    <2>2. SetTask(z, k, t2) /\ UNCHANGED <<actor, acked>>
      BY <1>3 DEF SettleInspect
    <2>3. UNCHANGED <<row, late, status>>
      BY DEF SettleInspect, store, env
    <2> HIDE DEF t2
    <2>4. TypeOK'
      BY <1>1, <2>1, <2>2, SetTaskType
         DEF DurableInv, TypeOK, SettleInspect, store, env, bounds
    <2>5. TaskOK(k, t2, actor[z], row)
      <3>1. a.marks[t.op] \in Nat
        BY <1>2
      <3>2. SettleOK(t2, a)
        <4> HIDE DEF a, t
        <4> QED BY <1>2, <2>1, <3>1 DEF SettleOK
      <3> HIDE DEF t
      <3> QED BY <1>1, <2>1, <3>2, RequestMoves
    <2>6. LockOK(z)'
      BY <1>1, <2>1, <2>2, <2>3, WorkersAreThreads, MoveLock
    <2> QED
      BY <1>1, <2>1, <2>2, <2>3, <2>4, <2>5, <2>6, TaskStep
  <1>4. CASE ~(a.prev < a.marks[t.op])
    <2>1. Retire(z, k)
      BY <1>4 DEF SettleInspect
    <2>2. t.op \in row[t.p].c.data
      <3>1. a.marks[t.op] <= a.prev
        BY <1>2, <1>4
      <3> QED BY <1>2, <3>1 DEF ActorOK
    <2> QED
      BY <1>1, <2>1, <2>2, RetireInv DEF SettleInspect
  <1> QED
    BY <1>3, <1>4

LEMMA SettleConfirmInv ==
  ASSUME DurableInv, NEW z \in Zones, NEW k \in Workers, SettleConfirm(z, k)
  PROVE DurableInv'
  <1> DEFINE t == task[z][k]
             a == actor[z][t.p]
  <1>1. t \in Tasks /\ t.pc = "confirm" /\ t.p \in Players /\ k \in Threads
        /\ t.mrev \in Nat /\ SettleOK(t, a)
    BY TaskFields, TaskFacts, WorkersAreThreads DEF DurableInv, SettleConfirm
  <1>2. /\ t.op \in SyncOps /\ t.op \in a.st.data /\ a.life \in Live
        /\ ActorOK(a, row[t.p]) /\ a.prev \in Nat
        /\ a.marks \in [SyncOps -> Nat] /\ a.marks[t.op] <= t.mrev
    BY <1>1, ActorFields DEF DurableInv, SettleOK, SettlePcs
  <1>3. CASE a.prev < t.mrev
    <2>1. EndTask(z, k) /\ UNCHANGED <<actor, acked>>
      BY <1>3 DEF SettleConfirm
    <2>2. TypeOK'
      BY <1>1, <2>1, SetTaskType, ConstantsType
         DEF DurableInv, TypeOK, SettleConfirm, EndTask, store, env, bounds
    <2> QED
      BY <1>1, <2>1, <2>2, WorkersAreThreads, EndStep
         DEF SettleConfirm, store, env
  <1>4. CASE ~(a.prev < t.mrev)
    <2>1. Retire(z, k)
      BY <1>4 DEF SettleConfirm
    <2>2. t.op \in row[t.p].c.data
      <3>1. a.marks[t.op] <= a.prev
        BY <1>1, <1>2, <1>4
      <3> QED BY <1>2, <3>1 DEF ActorOK
    <2> QED
      BY <1>1, <2>1, <2>2, RetireInv DEF SettleConfirm
  <1> QED
    BY <1>3, <1>4

----------------------------------------------------------------------------
(* Writes to a row, and what follows a save.                               *)

\* A conditional update by the holder of the current token extends the row.
LEMMA WriteGrows ==
  ASSUME DurableInv, NEW r \in Requests, Matches(r), Write(r),
         Extends(r.snap, r.tok, row[r.p])
  PROVE /\ row'[r.p] = [c |-> r.snap, ver |-> row[r.p].ver + 1]
        /\ \A q \in Players : q # r.p => row'[q] = row[q]
        /\ \A q \in Players : RowGrows(row[q], row'[q]) /\ RowOK(row'[q])
  <1>1. r.p \in Players /\ row \in [Players -> Rows] /\ row[r.p].ver \in Nat
    BY RowFields DEF Requests, DurableInv, TypeOK
  <1>2. row'[r.p] = [c |-> r.snap, ver |-> row[r.p].ver + 1]
        /\ \A q \in Players : q # r.p => row'[q] = row[q]
    BY <1>1 DEF Write
  <1>3. row[r.p].c.data \subseteq r.snap.data
    BY <1>1 DEF Matches, Extends
  <1>4. RowGrows(row[r.p], row'[r.p]) /\ RowOK(row'[r.p])
    BY <1>1, <1>2, <1>3 DEF RowGrows, RowOK
  <1> QED
    BY <1>2, <1>4 DEF RowGrows, DurableInv

LEMMA SaveUpdateWrites ==
  ASSUME DurableInv, NEW z \in Zones, NEW k \in Threads, SaveUpdate(z, k),
         Matches(RequestOf(z, task[z][k])), Write(RequestOf(z, task[z][k])),
         SetTask(z, k, [task[z][k] EXCEPT !.pc = "outbox",
                                 !.newtok = row[task[z][k].p].ver + 1]),
         UNCHANGED <<late, faults>>
  PROVE DurableInv'
  <1> DEFINE t == task[z][k]
             r == RequestOf(z, t)
             t2 == [t EXCEPT !.pc = "outbox", !.newtok = row[t.p].ver + 1]
  <1>1. t \in Tasks /\ t.pc = "update" /\ TaskOK(k, t, actor[z], row)
        /\ t.p \in Players /\ TypeOK /\ t.snap \in Contents /\ t.tok \in Nat
    BY TaskFields, TaskFacts DEF DurableInv, SaveUpdate
  <1>2. /\ r \in Requests /\ r.p = t.p /\ r.snap = t.snap /\ r.tok = t.tok
    BY <1>1, RequestType DEF RequestOf
  <1>3. row[t.p].ver \in Nat /\ t.snap.epoch \in Nat /\ t.snap.rev \in Nat
    BY <1>1, RowFields DEF Contents
  <1>4. /\ t2 \in Tasks /\ t2.pc = "outbox" /\ t2.job = t.job /\ t2.p = t.p
        /\ t2.op = t.op /\ t2.mrev = t.mrev /\ t2.snap = t.snap
        /\ t2.tok = t.tok /\ t2.newtok = row[t.p].ver + 1
    <2> DEFINE n == row[t.p].ver + 1
    <2>1. n \in Nat
      BY <1>3
    <2>2. t2 = [t EXCEPT !.pc = "outbox", !.newtok = n]
      OBVIOUS
    <2> HIDE DEF t, n, t2
    <2>3. /\ t2 \in Tasks /\ t2.pc = "outbox" /\ t2.job = t.job /\ t2.p = t.p
          /\ t2.op = t.op /\ t2.mrev = t.mrev /\ t2.snap = t.snap
          /\ t2.tok = t.tok /\ t2.newtok = n
      BY <1>1, <2>1, <2>2 DEF Tasks, PCs, SavePcs
    <2> QED BY <2>3 DEF n
  <1>5. SaveOK(t, actor[z][t.p], row[t.p]) /\ ShapeOK(k, t)
        /\ (k \in Workers => SettleOK(t, actor[z][t.p]))
    BY <1>1 DEF TaskOK
  <1>6. Extends(t.snap, t.tok, row[t.p]) /\ t.tok = row[t.p].ver
    BY <1>1, <1>2, <1>5 DEF SaveOK, SavePcs, Matches
  <1>7. /\ row'[t.p] = [c |-> t.snap, ver |-> row[t.p].ver + 1]
        /\ \A q \in Players : RowGrows(row[q], row'[q]) /\ RowOK(row'[q])
    <2>1. Matches(r) /\ Write(r)
      OBVIOUS
    <2> HIDE DEF r, t
    <2> QED BY <1>2, <1>6, <2>1, WriteGrows
  <1>8. UNCHANGED <<actor, status, acked>> /\ SetTask(z, k, t2)
    BY DEF SaveUpdate, env, obs
  <1> HIDE DEF t2
  <1>9. TypeOK'
    <2>1. row' \in [Players -> Rows]
      BY <1>1, <1>2, WriteType
    <2>2. task' \in [Zones -> [Threads -> Tasks]]
      BY <1>1, <1>4, <1>8, SetTaskType
    <2> QED
      BY <1>1, <2>1, <2>2 DEF TypeOK, SaveUpdate, env, obs
  <1> HIDE DEF r, t
  <1>10. TaskOK(k, t2, actor'[z], row')
    <2>1. Extends(t2.snap, t2.tok, row'[t.p]) /\ WrittenOK(t2, row'[t.p])
      BY <1>3, <1>4, <1>6, <1>7 DEF Extends, WrittenOK
    <2>2. t2.job # "prepare" => SnapOK(t2, actor[z][t.p], row'[t.p])
      <3>1. row[t.p].c.data \subseteq row'[t.p].c.data
        BY <1>1, <1>7 DEF RowGrows
      <3> QED
        BY <1>1, <1>4, <1>5, <3>1 DEF SaveOK, SnapOK, SavePcs
    <2>3. SaveOK(t2, actor'[z][t.p], row'[t.p])
      BY <1>4, <1>8, <2>1, <2>2 DEF SaveOK, SavePcs
    <2>4. k \in Workers => SettleOK(t2, actor'[z][t.p])
      BY <1>1, <1>4, <1>5, <1>8 DEF SettleOK, SettlePcs, SavePcs
    <2>5. ShapeOK(k, t2)
      BY <1>1, <1>4, <1>5 DEF ShapeOK, SavePcs
    <2> QED
      BY <1>4, <2>3, <2>4, <2>5 DEF TaskOK
  <1>11. \A y \in Zones, j \in Threads :
            \/ TaskOK(j, task'[y][j], actor'[y], row')
            \/ /\ task'[y][j] = task[y][j]
               /\ \A q \in Players :
                     ActorGrows(actor[y][q], actor'[y][q], row'[q])
    <2>1. \A y \in Zones, q \in Players :
             ActorGrows(actor[y][q], actor'[y][q], row'[q])
      BY <1>1, <1>8, ActorFields, ActorGrowsRefl
    <2>2. \A y \in Zones, j \in Threads :
             task'[y][j] = IF y = z /\ j = k THEN t2 ELSE task[y][j]
      BY <1>1, <1>8, SetTaskFacts
    <2> QED
      BY <1>10, <2>1, <2>2
  <1>12. \A y \in Zones : LockOK(y)'
    <2>1. LockOK(z)'
      <3>1. t2.pc \in SavePcs /\ t.pc \notin {"idle", "next"}
        BY <1>1, <1>4 DEF SavePcs
      <3>2. k \in Workers \/ k = "flusher" \/ k = "exclusive"
        BY DEF Threads
      <3> QED
        BY <1>4, <1>8, <3>1, <3>2, MoveLock DEF t
    <2>2. \A y \in Zones : y # z => LockOK(y)'
      BY <1>1, <1>8, SetTaskFacts, LockOther DEF DurableInv
    <2> QED
      BY <2>1, <2>2
  <1> QED
    BY <1>7, <1>8, <1>9, <1>11, <1>12, Preserve

LEMMA SaveUpdateInv ==
  ASSUME DurableInv, NEW z \in Zones, NEW k \in Threads, SaveUpdate(z, k)
  PROVE DurableInv'
  <1> DEFINE t == task[z][k]
             r == RequestOf(z, t)
             t2 == [t EXCEPT !.pc = "recon"]
  <1>1. t \in Tasks /\ t.pc = "update" /\ TaskOK(k, t, actor[z], row)
        /\ t.p \in Players /\ TypeOK
    BY TaskFields, TaskFacts DEF DurableInv, SaveUpdate
  <1>2. /\ t2 \in Tasks /\ t2.pc = "recon" /\ t2.job = t.job /\ t2.p = t.p
        /\ t2.op = t.op /\ t2.mrev = t.mrev /\ t2.snap = t.snap
        /\ t2.tok = t.tok /\ t2.newtok = t.newtok
    <2> HIDE DEF t
    <2> QED BY <1>1 DEF Tasks, PCs, SavePcs
  <1>3. TaskOK(k, t2, actor[z], row)
    <2> HIDE DEF t2, t
    <2> QED
      BY <1>1, <1>2 DEF TaskOK, ShapeOK, SaveOK, SnapOK, SettleOK, SettlePcs,
                        SavePcs
  <1>4. t.pc \in SavePcs /\ t2.pc \in SavePcs /\ t.pc \notin {"idle", "next"}
    BY <1>1, <1>2 DEF SavePcs
  <1>5. UNCHANGED <<actor, status, acked>>
    BY DEF SaveUpdate, env, obs
  <1>6. ASSUME NEW u \in {t2, Failed(t)}, SetTask(z, k, u),
               UNCHANGED <<row, late, faults>>
        PROVE  DurableInv'
    <2>1. u \in Tasks
      BY <1>1, <1>2, <1>6, FailedType
    <2>2. TypeOK'
      BY <1>1, <1>6, <2>1, SetTaskType DEF TypeOK, SaveUpdate, env, obs
    <2> HIDE DEF t2
    <2> QED
      BY <1>2, <1>3, <1>4, <1>5, <1>6, <2>1, <2>2, SaveMoves
  <1>7. ASSUME t.snap.rev > t.exp, Fault, late' = late \cup {r},
               SetTask(z, k, t2), row' = row
        PROVE  DurableInv'
    <2>1. r \in Requests /\ LateOK(r, row[r.p])
      <3>1. r \in Requests
        BY <1>1, RequestType
      <3>2. Extends(t.snap, t.tok, row[t.p])
        BY <1>1 DEF TaskOK, SaveOK, SavePcs
      <3> HIDE DEF t
      <3> QED
        BY <1>7, <3>1, <3>2 DEF LateOK, RequestOf
    <2>2. TypeOK'
      <3>1. task' \in [Zones -> [Threads -> Tasks]]
        BY <1>1, <1>2, <1>7, SetTaskType
      <3>2. late' \subseteq Requests
        BY <1>1, <1>7, <2>1 DEF TypeOK
      <3>3. faults' \in 0..MaxFaults
        BY <1>1, <1>7, BoundsType
      <3> QED
        BY <1>1, <1>7, <3>1, <3>2, <3>3 DEF TypeOK, SaveUpdate, env, obs
    <2> HIDE DEF t2, r
    <2>3. LockOK(z)'
      <3>1. k \in Workers \/ k = "flusher" \/ k = "exclusive"
        BY DEF Threads
      <3> QED
        BY <1>2, <1>4, <1>5, <1>7, <3>1, MoveLock
    <2>4. \A j \in Threads :
            \/ TaskOK(j, task'[z][j], actor'[z], row)
            \/ /\ task'[z][j] = task[z][j]
               /\ \A q \in Players :
                     ActorGrows(actor[z][q], actor'[z][q], row[q])
      BY <1>1, <1>3, <1>5, <1>7, SetTaskFacts, ActorFields, ActorGrowsRefl
    <2>5. \A y \in Zones : y # z => task'[y] = task[y]
      BY <1>1, <1>7, SetTaskFacts
    <2>6. \A x \in late' : x \in late \/ LateOK(x, row[x.p])
      BY <1>7, <2>1
    <2> QED
      BY <1>5, <1>7, <2>2, <2>3, <2>4, <2>5, <2>6, ZoneStepInv
  <1>8. \/ \E u \in {t2, Failed(t)} :
              SetTask(z, k, u) /\ UNCHANGED <<row, late, faults>>
        \/ /\ t.snap.rev > t.exp /\ Fault /\ late' = late \cup {r}
           /\ SetTask(z, k, t2) /\ row' = row
        \/ /\ Matches(r) /\ Write(r) /\ UNCHANGED <<late, faults>>
           /\ SetTask(z, k, [t EXCEPT !.pc = "outbox",
                                      !.newtok = row[t.p].ver + 1])
    BY DEF SaveUpdate
  <1>9. CASE \E u \in {t2, Failed(t)} :
                SetTask(z, k, u) /\ UNCHANGED <<row, late, faults>>
    <2> HIDE DEF t2
    <2> QED BY <1>6, <1>9
  <1>10. CASE /\ t.snap.rev > t.exp /\ Fault /\ late' = late \cup {r}
              /\ SetTask(z, k, t2) /\ row' = row
    BY <1>7, <1>10
  <1>11. CASE /\ Matches(r) /\ Write(r) /\ UNCHANGED <<late, faults>>
              /\ SetTask(z, k, [t EXCEPT !.pc = "outbox",
                                         !.newtok = row[t.p].ver + 1])
    BY <1>11, SaveUpdateWrites
  <1> QED
    BY <1>8, <1>9, <1>10, <1>11

\* checkpointWasCommitted: the loaded row equals the snapshot, so the row
\* contains it; otherwise an eviction gives the Actor back.
LEMMA CheckpointWasCommittedInv ==
  ASSUME DurableInv, NEW z \in Zones, NEW k \in Threads, CheckpointWasCommitted(z, k)
  PROVE DurableInv'
  <1> DEFINE t == task[z][k]
             a == actor[z][t.p]
             t2 == [t EXCEPT !.pc = "ack", !.newtok = row[t.p].ver]
             ar == [a EXCEPT !.life = "ready"]
  <1>1. t \in Tasks /\ t.pc = "verify" /\ TaskOK(k, t, actor[z], row)
        /\ t.p \in Players /\ TypeOK
    BY TaskFields, TaskFacts DEF DurableInv, CheckpointWasCommitted
  <1>2. k = "exclusive" /\ SaveOK(t, a, row[t.p]) /\ ShapeOK(k, t)
    BY <1>1, WorkersAreThreads DEF TaskOK, ShapeOK, Threads
  <1>3. UNCHANGED <<row, late, status, acked>>
    BY DEF CheckpointWasCommitted, env, obs
  <1>4. outbox' \in [Players -> [OutboxOps -> {"none", "pending", "delivered"}]]
        /\ faults' \in 0..MaxFaults
    <2>1. faults' \in 0..MaxFaults
      BY <1>1, BoundsType DEF TypeOK, CheckpointWasCommitted, NoFault
    <2> DEFINE Boxes == [Players ->
                           [OutboxOps -> {"none", "pending", "delivered"}]]
    <2>2. UNCHANGED outbox => outbox' \in Boxes
      BY <1>1 DEF TypeOK
    <2>3. Ensure(t.p, row[t.p].c.pend) => outbox' \in Boxes
      BY <1>1, EnsureType
    <2>4. UNCHANGED outbox \/ Ensure(t.p, row[t.p].c.pend)
      BY DEF CheckpointWasCommitted
    <2> QED
      BY <2>1, <2>2, <2>3, <2>4
  <1>5. CASE /\ Loaded(t.p) = t.snap
             /\ SetTask(z, k, t2)
             /\ UNCHANGED actor
    <2>1. row[t.p].ver \in Nat
      BY <1>1, RowFields
    <2>2. /\ t2 \in Tasks /\ t2.pc = "ack" /\ t2.job = t.job /\ t2.p = t.p
          /\ t2.op = t.op /\ t2.snap = t.snap
          /\ t2.tok = t.tok /\ t2.newtok = row[t.p].ver
      <3> HIDE DEF t
      <3> QED BY <1>1, <2>1 DEF Tasks, PCs, SavePcs
    <2>3. WrittenOK(t2, row[t.p])
      BY <1>1, <1>5, <2>2, LoadedExtends DEF WrittenOK
    <2> HIDE DEF t2, t, a
    <2>4. SaveOK(t2, a, row[t.p])
      BY <1>1, <1>2, <2>2, <2>3 DEF SaveOK, SnapOK, SavePcs
    <2>5. TaskOK(k, t2, actor[z], row)
      BY <1>1, <1>2, <2>2, <2>4, WorkersAreThreads
         DEF TaskOK, ShapeOK, SavePcs, a
    <2>6. TypeOK'
      <3>1. task' \in [Zones -> [Threads -> Tasks]]
        BY <1>1, <1>5, <2>2, SetTaskType
      <3> QED
        BY <1>1, <1>4, <1>5, <3>1 DEF TypeOK, CheckpointWasCommitted, env, obs
    <2>7. t2.pc \in SavePcs /\ t.pc \in SavePcs
      BY <1>1, <2>2 DEF SavePcs
    <2> QED
      BY <1>3, <1>5, <2>2, <2>5, <2>6, <2>7, SaveMoves DEF t
  <1>6. ASSUME EndTask(z, k), t.job # "evict", UNCHANGED actor PROVE DurableInv'
    <2>1. TypeOK'
      <3>1. task' \in [Zones -> [Threads -> Tasks]]
        BY <1>1, <1>6, ConstantsType, SetTaskType DEF EndTask
      <3> QED
        BY <1>1, <1>4, <1>6, <3>1 DEF TypeOK, CheckpointWasCommitted, env, obs
    <2> QED
      BY <1>3, <1>6, <2>1, EndStep
  <1>7. ASSUME EndTask(z, k), t.job = "evict", SetActor(z, t.p, ar) PROVE DurableInv'
    <2>1. a \in Actors /\ a.life \in Live /\ ActorOK(a, row[t.p])
      BY <1>1, <1>2, <1>7, ActorFields DEF DurableInv, SaveOK, SnapOK, SavePcs
    <2>2. /\ ar \in Actors /\ ar.life = "ready" /\ ar.st = a.st
          /\ ar.prev = a.prev /\ ar.ptok = a.ptok /\ ar.marks = a.marks
      <3> HIDE DEF a
      <3> QED BY <2>1 DEF Actors, Lives
    <2>3. a.st.rev \in Nat /\ a.st.epoch \in Nat
          /\ \A o \in SyncOps : a.marks[o] \in Nat
      BY <2>1 DEF Actors, Contents
    <2> HIDE DEF ar
    <2>4. ActorOK(ar, row[t.p]) /\ ActorGrows(a, ar, row[t.p])
      <3> HIDE DEF a, t
      <3>1. ActorOK(ar, row[t.p])
        BY <2>1, <2>2 DEF ActorOK
      <3>2. ActorGrows(a, ar, row[t.p])
        BY <2>1, <2>2, <2>3 DEF ActorGrows, Live
      <3> QED BY <3>1, <3>2
    <2>5. TypeOK'
      <3>1. task' \in [Zones -> [Threads -> Tasks]]
        BY <1>1, <1>7, ConstantsType, SetTaskType DEF EndTask
      <3>2. actor' \in [Zones -> [Players -> Actors]]
        BY <1>1, <1>7, <2>2, SetActorType
      <3> QED
        BY <1>1, <1>4, <3>1, <3>2 DEF TypeOK, CheckpointWasCommitted, env, obs
    <2>6. LockOK(z)'
      <3>1. \A q \in Players : actor'[z][q].life = "evicting" =>
                                  actor[z][q].life = "evicting"
        BY <1>1, <1>7, <2>2, SetActorFacts
      <3>2. actor'[z][t.p].life # "evicting"
        BY <1>1, <1>7, <2>2, SetActorFacts
      <3>3. IdleTask.pc = "idle" /\ IdleTask \in Tasks
        BY ConstantsType DEF IdleTask
      <3> QED
        BY <1>3, <1>7, <3>1, <3>2, <3>3, MoveLock DEF EndTask
    <2> HIDE DEF t
    <2> QED
      BY <1>1, <1>3, <1>7, <2>4, <2>5, <2>6, IdleOK, ActorStep DEF EndTask
  <1> QED
    BY <1>5, <1>6, <1>7 DEF CheckpointWasCommitted

\* With the write lock held, every other goroutine of the Zone is at rest.
LEMMA OthersRest ==
  ASSUME DurableInv, NEW z \in Zones, Writing(z), NEW k \in Threads,
         k # "exclusive"
  PROVE task[z][k].pc \in {"idle", "next"}
  BY WorkersAreThreads DEF DurableInv, LockOK, Reading, Threads

\* acknowledgeCheckpoint: the Actor now holds the token of a row that contains
\* the snapshot, and the snapshot contains every step marked up to its revision.
LEMMA AckActor ==
  ASSUME NEW t \in Tasks, NEW a \in Actors, NEW r \in Rows, NEW a2 \in Actors,
         ActorOK(a, r), SnapOK(t, a, r), WrittenOK(t, r),
         a2.life = a.life, a2.st = a.st, a2.marks = a.marks,
         a2.prev = t.snap.rev, a2.ptok = t.newtok
  PROVE ActorOK(a2, r) /\ ActorGrows(a, a2, r)
  <1>1. /\ a.st.rev \in Nat /\ a.st.epoch \in Nat
        /\ t.snap.rev \in Nat /\ t.snap.epoch \in Nat /\ r.c.epoch \in Nat
        /\ \A o \in SyncOps : a.marks[o] \in Nat
    BY DEF Actors, Contents, Tasks, Rows
  <1>2. Extends(a2.st, a2.ptok, r)
    BY <1>1 DEF WrittenOK, SnapOK, Extends
  <1>3. \A o \in SyncOps : /\ a2.marks[o] <= a2.st.rev
                           /\ o \in a2.st.data /\ a2.marks[o] <= a2.prev
                              => o \in r.c.data
    BY DEF SnapOK, WrittenOK, ActorOK
  <1>4. ActorOK(a2, r)
    BY <1>2, <1>3 DEF ActorOK, SnapOK
  <1>5. ActorGrows(a, a2, r)
    BY <1>1 DEF ActorGrows
  <1> QED
    BY <1>4, <1>5

\* The acknowledging goroutine of a request, the flusher or a drain goes on.
AfterAck(t) ==
    IF t.job = "drain"
    THEN [IdleTask EXCEPT !.pc = "next", !.job = "drain",
              !.epoch = t.epoch, !.todo = t.todo]
    ELSE Flushed(t)

LEMMA AfterAckOK ==
  ASSUME NEW k \in Threads, NEW t \in Tasks, NEW acts, NEW rows,
         ShapeOK(k, t), t.pc = "ack", t.job \notin {"evict", "prepare"},
         k \in Workers => SettleOK(t, acts[t.p])
  PROVE AfterAck(t) \in Tasks /\ TaskOK(k, AfterAck(t), acts, rows)
  <1>1. CASE t.job = "drain"
    <2> DEFINE t2 == [IdleTask EXCEPT !.pc = "next", !.job = "drain",
                         !.epoch = t.epoch, !.todo = t.todo]
    <2>1. k = "exclusive"
      BY <1>1 DEF ShapeOK, Threads
    <2>2. t2 \in Tasks /\ t2.pc = "next" /\ t2.job = "drain"
      BY ConstantsType DEF Tasks, PCs, Jobs
    <2> HIDE DEF t2
    <2>3. TaskOK(k, t2, acts, rows)
      BY <2>1, <2>2, NextOK
    <2> QED
      BY <1>1, <2>2, <2>3 DEF AfterAck, t2
  <1>2. CASE t.job # "drain"
    <2>1. k \in Workers \cup {"flusher"}
      BY <1>2 DEF ShapeOK, Threads
    <2>2. k \in Workers => /\ t.job = "command" /\ t.op \in Ops
                           /\ t.p \in Players
      BY WorkersAreThreads DEF ShapeOK
    <2>3. k = "flusher" => t.job = "flush"
      BY DEF ShapeOK
    <2>4. t.pc \in SettlePcs \ {"inspect"}
      BY DEF SettlePcs, SavePcs
    <2> QED
      BY <1>2, <2>1, <2>2, <2>3, <2>4, FlushedOK, FlushedType DEF AfterAck
  <1> QED
    BY <1>1, <1>2

LEMMA AcknowledgeInv ==
  ASSUME DurableInv, NEW z \in Zones, NEW k \in Threads, Acknowledge(z, k)
  PROVE DurableInv'
  <1> DEFINE t == task[z][k]
             a == actor[z][t.p]
             a2 == [a EXCEPT !.prev = t.snap.rev, !.ptok = t.newtok]
  <1>1. t \in Tasks /\ t.pc = "ack" /\ TaskOK(k, t, actor[z], row)
        /\ t.p \in Players /\ TypeOK /\ ShapeOK(k, t)
        /\ (k \in Workers => SettleOK(t, a))
    BY TaskFields, TaskFacts DEF DurableInv, Acknowledge
  <1>2. a \in Actors /\ row[t.p] \in Rows /\ ActorOK(a, row[t.p])
        /\ t.snap.rev \in Nat /\ t.newtok \in Nat
    BY <1>1, ActorFields, RowFields DEF DurableInv, Tasks, Contents
  <1>3. t.job # "prepare" /\ SnapOK(t, a, row[t.p]) /\ WrittenOK(t, row[t.p])
    BY <1>1 DEF TaskOK, SaveOK, SavePcs
  <1>4. UNCHANGED <<row, late, status, acked>>
    BY DEF Acknowledge, store, env, obs
  <1>5. dirty' \in [Zones -> [Players -> Nat]]
    BY <1>1 DEF Acknowledge, ClearDirty, TypeOK
  <1>6. ASSUME t.job # "evict", NEW b, b = a \/ b = a2, SetActor(z, t.p, b)
        PROVE  DurableInv'
    <2>1. /\ a2 \in Actors /\ a2.life = a.life /\ a2.st = a.st
          /\ a2.prev = t.snap.rev /\ a2.ptok = t.newtok /\ a2.marks = a.marks
      <3> HIDE DEF a, t
      <3> QED BY <1>2 DEF Actors
    <2>2. b \in Actors /\ ActorOK(b, row[t.p]) /\ ActorGrows(a, b, row[t.p])
          /\ b.life = a.life
      <3> HIDE DEF a, a2, t
      <3>1. ActorOK(a2, row[t.p]) /\ ActorGrows(a, a2, row[t.p])
        BY <1>1, <1>2, <1>3, <2>1, AckActor
      <3>2. ActorGrows(a, a, row[t.p])
        BY <1>2, ActorGrowsRefl
      <3> QED
        BY <1>2, <1>6, <2>1, <3>1, <3>2
    <2>3. SetTask(z, k, AfterAck(t))
      <3>1. t.job \in {"command", "flush", "drain"}
        BY <1>1, <1>3, <1>6 DEF ShapeOK
      <3> HIDE DEF t
      <3> QED
        BY <3>1 DEF Acknowledge, AfterAck, t
    <2> HIDE DEF a2
    <2>4. actor'[z][t.p] = b
      BY <1>1, <1>6, SetActorFacts
    <2>5. AfterAck(t) \in Tasks /\ TaskOK(k, AfterAck(t), actor'[z], row)
      <3>1. k \in Workers => SettleOK(t, b)
        <4> HIDE DEF a, t
        <4> QED BY <1>1, <1>2, <2>2, SettleGrows
      <3> HIDE DEF a, t
      <3> QED
        BY <1>1, <1>3, <1>6, <2>4, <3>1, AfterAckOK
    <2>6. TypeOK'
      <3>1. task' \in [Zones -> [Threads -> Tasks]]
        BY <1>1, <2>3, <2>5, SetTaskType
      <3>2. actor' \in [Zones -> [Players -> Actors]]
        BY <1>1, <1>6, <2>2, SetActorType
      <3> QED
        BY <1>1, <1>5, <3>1, <3>2 DEF TypeOK, Acknowledge, store, env, obs, bounds
    <2>7. LockOK(z)'
      <3>1. \A q \in Players : actor'[z][q].life = "evicting" =>
                                  actor[z][q].life = "evicting"
        BY <1>1, <1>6, <2>2, <2>4, SetActorFacts
      <3>2. k \in Workers \/ k = "flusher" \/ k = "exclusive"
        BY DEF Threads
      <3>3. task[z][k].pc \notin {"idle", "next"} /\ task[z][k].job # "evict"
        BY <1>1, <1>6
      <3> QED
        BY <1>4, <2>3, <2>5, <3>1, <3>2, <3>3, MoveLock
    <2> HIDE DEF t
    <2> QED
      BY <1>1, <1>4, <1>6, <2>2, <2>3, <2>5, <2>6, <2>7, ActorStep
  <1>7. ASSUME t.job = "evict", SetActor(z, t.p, NoActor) PROVE DurableInv'
    <2>1. k = "exclusive" /\ Writing(z)
      BY <1>1, <1>7 DEF ShapeOK, Threads, Writing
    <2>2. SetTask(z, k, IdleTask)
      BY <1>7 DEF Acknowledge
    <2>3. TypeOK'
      <3>1. task' \in [Zones -> [Threads -> Tasks]]
        BY <1>1, <2>2, ConstantsType, SetTaskType
      <3>2. actor' \in [Zones -> [Players -> Actors]]
        BY <1>1, <1>7, ConstantsType, SetActorType
      <3> QED
        BY <1>1, <1>5, <3>1, <3>2 DEF TypeOK, Acknowledge, store, env, obs, bounds
    <2>4. ActorOK(NoActor, row[t.p])
      BY DEF ActorOK, NoActor, Live
    <2>5. \A j \in Threads : TaskOK(j, task'[z][j], actor'[z], row)
      <3>1. TaskOK(k, task'[z][k], actor'[z], row)
        BY <1>1, <2>2, SetTaskFacts, IdleOK
      <3>2. ASSUME NEW j \in Threads, j # k
            PROVE  TaskOK(j, task'[z][j], actor'[z], row)
        <4>1. task'[z][j] = task[z][j]
          BY <1>1, <2>2, <3>2, SetTaskFacts
        <4>2. task[z][j].pc \in {"idle", "next"}
          BY <2>1, <3>2, OthersRest
        <4> QED
          BY <4>1, <4>2, RestOK DEF DurableInv
      <3> QED
        BY <3>1, <3>2
    <2>6. LockOK(z)'
      <3>1. NoActor.life # "evicting" /\ IdleTask.pc = "idle"
        BY DEF NoActor, IdleTask
      <3>2. \A q \in Players : actor'[z][q].life = "evicting" =>
                                  actor[z][q].life = "evicting"
        BY <1>1, <1>7, <3>1, SetActorFacts
      <3>3. actor'[z][t.p].life # "evicting"
        BY <1>1, <1>7, <3>1, SetActorFacts
      <3> QED
        BY <1>4, <2>2, <3>1, <3>2, <3>3, ConstantsType, MoveLock
    <2>7. \A q \in Players :
             actor'[z][q] = actor[z][q] \/ ActorOK(actor'[z][q], row[q])
      BY <1>1, <1>7, <2>4, SetActorFacts
    <2>8. \A y \in Zones : y # z => task'[y] = task[y] /\ actor'[y] = actor[y]
      BY <1>1, <1>7, <2>2, SetTaskFacts, SetActorFacts
    <2> QED
      BY <1>4, <2>3, <2>5, <2>6, <2>7, <2>8, ZoneStepInv
  <1>8. CASE t.job = "evict"
    BY <1>7, <1>8 DEF Acknowledge
  <1>9. CASE t.job # "evict"
    <2>1. SetActor(z, t.p, a2) \/ UNCHANGED actor
      BY <1>9 DEF Acknowledge, AckedActor
    <2>2. UNCHANGED actor => SetActor(z, t.p, a)
      BY <1>1 DEF SetActor, TypeOK
    <2> HIDE DEF a, a2, t
    <2>3. CASE SetActor(z, t.p, a2)
      BY <1>6, <1>9, <2>3
    <2>4. CASE SetActor(z, t.p, a)
      BY <1>6, <1>9, <2>4
    <2> QED
      BY <2>1, <2>2, <2>3, <2>4
  <1> QED
    BY <1>8, <1>9

----------------------------------------------------------------------------
(* Activation.                                                             *)

\* The lock discipline survives when requests only end and no Actor starts
\* to be evicted.
LEMMA LockShrink ==
  ASSUME DurableInv, NEW z \in Zones, status' = status,
         \A k \in Threads :
            \/ task'[z][k] = task[z][k]
            \/ k \in Workers /\ task'[z][k].pc = "idle",
         \A p \in Players : actor'[z][p].life = "evicting" =>
                               actor[z][p].life = "evicting"
  PROVE LockOK(z)'
  <1>1. LockOK(z)
    BY DEF DurableInv
  <1>2. task'[z]["exclusive"] = task[z]["exclusive"]
        /\ task'[z]["flusher"] = task[z]["flusher"]
    BY WorkersAreThreads
  <1>3. \A k \in Workers : task[z][k].pc = "idle" => task'[z][k].pc = "idle"
    BY WorkersAreThreads
  <1> QED
    BY <1>1, <1>2, <1>3 DEF LockOK, Reading, Writing

\* The activation job of one Actor changes it to a2; it was not resident.
LEMMA ActivationMoves ==
  ASSUME DurableInv, TypeOK', NEW z \in Zones, NEW p \in Players, NEW a2,
         SetActor(z, p, a2), a2.life # "evicting", ActorOK(a2, row[p]),
         actor[z][p].life \notin Live,
         UNCHANGED <<task, row, status, acked>>,
         \A r \in late' : r \in late \/ LateOK(r, row[r.p])
  PROVE DurableInv'
  <1>1. TypeOK
    BY DEF DurableInv
  <1>2. \A q \in Players : ActorGrows(actor[z][q], actor'[z][q], row[q])
    <2>1. ActorGrows(actor[z][p], actor'[z][p], row[p])
      BY DEF ActorGrows
    <2> QED
      BY <1>1, <2>1, SetActorFacts, ActorFields, ActorGrowsRefl
  <1>3. \A q \in Players :
           actor'[z][q] = actor[z][q] \/ ActorOK(actor'[z][q], row[q])
    BY <1>1, SetActorFacts
  <1>4. LockOK(z)'
    BY <1>1, SetActorFacts, LockShrink
  <1>5. \A y \in Zones : y # z => actor'[y] = actor[y]
    BY <1>1, SetActorFacts
  <1> QED
    BY <1>2, <1>3, <1>4, <1>5, ZoneStepInv

LEMMA ActivationFailedInv ==
  ASSUME DurableInv, NEW z \in Zones, NEW p \in Players, ActivationFailed(z, p),
         actor[z][p].life \notin Live,
         outbox' \in [Players -> [OutboxOps -> {"none", "pending", "delivered"}]],
         faults' \in 0..MaxFaults,
         UNCHANGED <<row, late, env, obs, stops>>
  PROVE DurableInv'
  <1>1. TypeOK /\ SetActor(z, p, NoActor) /\ NoActor.life = "absent"
        /\ IdleTask.pc = "idle"
    BY DEF DurableInv, ActivationFailed, NoActor, IdleTask
  <1>2. \A k \in Threads :
           task'[z][k] = IF task[z][k].pc = "wait" /\ task[z][k].p = p
                         THEN IdleTask ELSE task[z][k]
    BY <1>1 DEF ActivationFailed, TypeOK
  <1>3. \A y \in Zones : y # z => task'[y] = task[y] /\ actor'[y] = actor[y]
    BY <1>1, SetActorFacts DEF ActivationFailed, TypeOK
  <1>4. TypeOK'
    <2>1. task' \in [Zones -> [Threads -> Tasks]]
      BY <1>1, ConstantsType DEF ActivationFailed, TypeOK
    <2>2. actor' \in [Zones -> [Players -> Actors]]
      BY <1>1, ConstantsType, SetActorType
    <2>3. dirty' \in [Zones -> [Players -> Nat]]
      BY <1>1 DEF ActivationFailed, TypeOK
    <2> QED
      BY <1>1, <2>1, <2>2, <2>3 DEF TypeOK, env, obs
  <1>5. \A q \in Players : ActorGrows(actor[z][q], actor'[z][q], row[q])
    <2>1. ActorGrows(actor[z][p], actor'[z][p], row[p])
      BY DEF ActorGrows
    <2> QED
      BY <1>1, <2>1, SetActorFacts, ActorFields, ActorGrowsRefl
  <1>6. \A q \in Players :
           actor'[z][q] = actor[z][q] \/ ActorOK(actor'[z][q], row[q])
    <2>1. ActorOK(NoActor, row[p])
      BY <1>1 DEF ActorOK, Live
    <2> QED
      BY <1>1, <2>1, SetActorFacts
  <1>7. LockOK(z)'
    <2>1. \A k \in Threads : task[z][k].pc = "wait" => k \in Workers
      BY TaskFacts DEF ShapeOK, SavePcs
    <2>2. \A k \in Threads :
            \/ task'[z][k] = task[z][k]
            \/ k \in Workers /\ task'[z][k].pc = "idle"
      BY <1>1, <1>2, <2>1
    <2>3. \A q \in Players : actor'[z][q].life = "evicting" =>
                                actor[z][q].life = "evicting"
      BY <1>1, SetActorFacts
    <2> QED
      BY <2>2, <2>3, LockShrink DEF env
  <1>8. \A k \in Threads :
            \/ TaskOK(k, task'[z][k], actor'[z], row)
            \/ /\ task'[z][k] = task[z][k]
               /\ \A q \in Players :
                     ActorGrows(actor[z][q], actor'[z][q], row[q])
    BY <1>2, <1>5, IdleOK
  <1> QED
    BY <1>3, <1>4, <1>6, <1>7, <1>8, ZoneStepInv DEF env, obs

\* The Actor BecomeReady publishes, for a state c read from (or just written
\* to) row r: everything it holds is in the row.
ReadyActor(z, p, c, prev, ptok) ==
    LET want == actor[z][p].want IN
    [NoActor EXCEPT !.life = "ready", !.want = want,
         !.st = IF c.epoch = want THEN c
                ELSE [c EXCEPT !.epoch = want, !.rev = @ + 1, !.by = inc[z]],
         !.prev = prev, !.ptok = ptok]

LEMMA ReadyActorOK ==
  ASSUME TypeOK, NEW z \in Zones, NEW p \in Players, NEW c \in Contents,
         NEW prev \in Nat, NEW ptok \in Nat, NEW r \in Rows,
         ptok = r.ver, prev <= c.rev, c.data = r.c.data,
         r.c.epoch <= c.epoch, r.c.epoch <= actor[z][p].want
  PROVE /\ ReadyActor(z, p, c, prev, ptok) \in Actors
        /\ ReadyActor(z, p, c, prev, ptok).life = "ready"
        /\ ReadyActor(z, p, c, prev, ptok).st.rev \in Nat
        /\ ActorOK(ReadyActor(z, p, c, prev, ptok), r)
  <1> DEFINE want == actor[z][p].want
             st == IF c.epoch = want THEN c
                   ELSE [c EXCEPT !.epoch = want, !.rev = @ + 1, !.by = inc[z]]
             a == [NoActor EXCEPT !.life = "ready", !.want = want, !.st = st,
                       !.prev = prev, !.ptok = ptok]
  <1>1. want \in Nat /\ inc[z] \in Nat
    BY ActorFields DEF TypeOK
  <1>2. c.rev \in Nat /\ c.epoch \in Nat /\ r.c.epoch \in Nat /\ r.ver \in Nat
    BY DEF Contents, Rows
  <1>3. r.c.epoch <= want
    OBVIOUS
  <1> HIDE DEF want
  <1>4. st \in Contents /\ st.data = c.data /\ st.rev >= c.rev
        /\ st.rev \in Nat /\ r.c.epoch <= st.epoch
    <2>1. CASE c.epoch = want
      BY <1>2, <2>1
    <2>2. CASE c.epoch # want
      <3> DEFINE n == c.rev + 1
                 s == [c EXCEPT !.epoch = want, !.rev = n, !.by = inc[z]]
      <3>1. n \in Nat /\ n >= c.rev
        BY <1>2
      <3>2. st = s
        BY <2>2
      <3> HIDE DEF n, st
      <3>3. s \in Contents /\ s.data = c.data /\ s.rev = n /\ s.epoch = want
        BY <1>1, <3>1 DEF Contents
      <3> QED
        BY <1>3, <3>1, <3>2, <3>3
    <2> QED BY <2>1, <2>2
  <1> HIDE DEF st
  <1>5. /\ a \in Actors /\ a.life = "ready" /\ a.st = st /\ a.prev = prev
        /\ a.ptok = ptok /\ a.marks = NoMarks
    BY <1>1, <1>4, ConstantsType DEF Actors, NoActor, Lives
  <1> HIDE DEF a
  <1>6. \A o \in SyncOps : a.marks[o] = 0
    BY <1>5 DEF NoMarks
  <1>7. ActorOK(a, r)
    BY <1>2, <1>4, <1>5, <1>6 DEF ActorOK, Extends
  <1>8. a = ReadyActor(z, p, c, prev, ptok)
    BY DEF ReadyActor, a, st, want
  <1> QED
    BY <1>4, <1>5, <1>7, <1>8

LEMMA BecomeReadyType ==
  ASSUME TypeOK, NEW z \in Zones, NEW p \in Players, NEW c, NEW prev,
         NEW ptok, BecomeReady(z, p, c, prev, ptok),
         ReadyActor(z, p, c, prev, ptok) \in Actors,
         ReadyActor(z, p, c, prev, ptok).st.rev \in Nat
  PROVE /\ SetActor(z, p, ReadyActor(z, p, c, prev, ptok))
        /\ actor' \in [Zones -> [Players -> Actors]]
        /\ dirty' \in [Zones -> [Players -> Nat]]
        /\ task' = task
  <1> DEFINE a == ReadyActor(z, p, c, prev, ptok)
  <1>1. SetActor(z, p, a) /\ task' = task
    BY DEF BecomeReady, ReadyActor
  <1>2. a.st = IF c.epoch = actor[z][p].want THEN c
               ELSE [c EXCEPT !.epoch = actor[z][p].want, !.rev = @ + 1,
                              !.by = inc[z]]
    BY DEF ReadyActor, NoActor
  <1>3. UNCHANGED dirty \/ Dirtied(z, p, a.st.rev)
    BY <1>2 DEF BecomeReady
  <1>4. a \in Actors /\ a.st.rev \in Nat
    OBVIOUS
  <1> HIDE DEF a
  <1>5. actor' \in [Zones -> [Players -> Actors]]
    BY <1>1, <1>4, SetActorType
  <1>6. dirty' \in [Zones -> [Players -> Nat]]
    BY <1>3, <1>4, DirtiedType DEF TypeOK
  <1> QED
    BY <1>1, <1>5, <1>6 DEF a

LEMMA SetLifeOK ==
  ASSUME NEW a \in Actors, NEW l \in Lives \ Live, NEW r
  PROVE LET b == [a EXCEPT !.life = l]
        IN b \in Actors /\ b.life = l /\ ActorOK(b, r)
  BY DEF Actors, ActorOK

LEMMA ActivateLoadInv ==
  ASSUME DurableInv, NEW z \in Zones, NEW p \in Players, ActivateLoad(z, p)
  PROVE DurableInv'
  <1> DEFINE a == actor[z][p]
             b == [a EXCEPT !.life = "creating"]
             c == Loaded(p)
             rdy == ReadyActor(z, p, c, row[p].c.rev, row[p].ver)
  <1>1. TypeOK /\ a \in Actors /\ a.life = "loading" /\ row[p] \in Rows
        /\ a.want \in Nat /\ row[p].c \in Contents
    BY ActorFields, RowFields DEF DurableInv, ActivateLoad
  <1>2. a.life \notin Live
    BY <1>1 DEF Live
  <1>3. UNCHANGED <<row, late, status, acked>>
    BY DEF ActivateLoad, env, obs
  <1>4. CASE SetActor(z, p, b) /\ UNCHANGED <<outbox, dirty, task>>
    <2>1. b \in Actors /\ b.life = "creating" /\ ActorOK(b, row[p])
      BY <1>1, SetLifeOK DEF Lives, Live
    <2> HIDE DEF b
    <2>2. TypeOK'
      <3>1. actor' \in [Zones -> [Players -> Actors]]
        BY <1>1, <1>4, <2>1, SetActorType
      <3> QED
        BY <1>1, <1>4, <3>1 DEF TypeOK, ActivateLoad, env, obs, bounds
    <2> QED
      BY <1>2, <1>3, <1>4, <2>1, <2>2, ActivationMoves
  <1>5. ASSUME Ensure(p, row[p].c.pend)
        PROVE  outbox' \in [Players ->
                              [OutboxOps -> {"none", "pending", "delivered"}]]
    BY <1>1, <1>5, EnsureType
  <1>6. CASE Ensure(p, row[p].c.pend) /\ ActivationFailed(z, p)
    <2>1. faults' \in 0..MaxFaults /\ UNCHANGED <<row, late, env, obs, stops>>
      BY <1>1 DEF TypeOK, ActivateLoad, bounds
    <2> QED
      BY <1>2, <1>5, <1>6, <2>1, ActivationFailedInv
  <1>7. CASE /\ Ensure(p, row[p].c.pend) /\ ~(row[p].c.epoch > a.want)
             /\ BecomeReady(z, p, Loaded(p), row[p].c.rev, row[p].ver)
    <2>1. /\ c \in Contents /\ c.data = row[p].c.data
          /\ c.epoch = row[p].c.epoch /\ c.rev >= row[p].c.rev
      BY <1>1, LoadedType, LoadedExtends
    <2>2. row[p].c.rev \in Nat /\ row[p].c.epoch \in Nat /\ row[p].ver \in Nat
          /\ c.rev \in Nat
      BY <1>1, <2>1 DEF Contents, Rows
    <2>3. BecomeReady(z, p, c, row[p].c.rev, row[p].ver)
          /\ row[p].c.epoch <= a.want
      BY <1>1, <1>7, <2>2
    <2> HIDE DEF c
    <2>4. row[p].c.rev <= c.rev /\ row[p].c.epoch <= c.epoch
      BY <2>1, <2>2
    <2>5. /\ rdy \in Actors /\ rdy.life = "ready" /\ rdy.st.rev \in Nat
          /\ ActorOK(rdy, row[p])
      BY <1>1, <2>1, <2>2, <2>3, <2>4, ReadyActorOK
    <2>6. /\ SetActor(z, p, rdy) /\ task' = task
          /\ actor' \in [Zones -> [Players -> Actors]]
          /\ dirty' \in [Zones -> [Players -> Nat]]
      BY <1>1, <2>3, <2>5, BecomeReadyType
    <2>7. TypeOK'
      BY <1>1, <1>5, <1>7, <2>6 DEF TypeOK, ActivateLoad, env, obs, bounds
    <2> HIDE DEF rdy
    <2> QED
      BY <1>2, <1>3, <2>5, <2>6, <2>7, ActivationMoves
  <1> QED
    BY <1>4, <1>6, <1>7 DEF ActivateLoad

LEMMA CreateInitialFenceInv ==
  ASSUME DurableInv, NEW z \in Zones, NEW p \in Players, CreateInitialFence(z, p)
  PROVE DurableInv'
  <1> DEFINE a == actor[z][p]
             b == [a EXCEPT !.life = "inserting"]
  <1>1. TypeOK /\ a \in Actors /\ a.life = "creating" /\ a.life \notin Live
    BY ActorFields DEF DurableInv, CreateInitialFence, Live
  <1>2. CASE SetActor(z, p, b) /\ UNCHANGED <<dirty, task>>
    <2>1. b \in Actors /\ b.life = "inserting" /\ ActorOK(b, row[p])
      BY <1>1, SetLifeOK DEF Lives, Live
    <2> HIDE DEF b
    <2>2. TypeOK'
      <3>1. actor' \in [Zones -> [Players -> Actors]]
        BY <1>1, <1>2, <2>1, SetActorType
      <3> QED
        BY <1>1, <1>2, <3>1
           DEF TypeOK, CreateInitialFence, store, env, obs, bounds
    <2> QED
      BY <1>1, <1>2, <2>1, <2>2, ActivationMoves
         DEF CreateInitialFence, store, env, obs
  <1>3. CASE ActivationFailed(z, p)
    <2>1. /\ outbox' \in [Players ->
                            [OutboxOps -> {"none", "pending", "delivered"}]]
          /\ faults' \in 0..MaxFaults
          /\ UNCHANGED <<row, late, env, obs, stops>>
      BY <1>1 DEF TypeOK, CreateInitialFence, store, bounds
    <2> QED
      BY <1>1, <1>3, <2>1, ActivationFailedInv
  <1> QED
    BY <1>2, <1>3 DEF CreateInitialFence

LEMMA InitialFacts ==
  ASSUME DurableInv, NEW z \in Zones, NEW p \in Players
  PROVE /\ InitialContent(z, p) \in Contents
        /\ InitialContent(z, p).rev = 1 /\ InitialContent(z, p).data = {}
        /\ InitialContent(z, p).epoch = actor[z][p].want
        /\ InsertRequest(z, p) \in Requests
        /\ InsertRequest(z, p).p = p
        /\ InsertRequest(z, p).snap = InitialContent(z, p)
        /\ InsertRequest(z, p).tok = 0
        /\ InsertRequest(z, p).exp = 0
        /\ LateOK(InsertRequest(z, p), row[p])
  <1>1. TypeOK /\ row[p] \in Rows /\ RowOK(row[p]) /\ row[p].ver \in Nat
        /\ actor[z][p].want \in Nat
    BY RowFields, ActorFields DEF DurableInv
  <1>2. InitialContent(z, p) \in Contents /\ InsertRequest(z, p) \in Requests
    BY <1>1, InsertType
  <1>3. /\ InitialContent(z, p).rev = 1 /\ InitialContent(z, p).data = {}
        /\ InitialContent(z, p).epoch = actor[z][p].want
    BY DEF InitialContent, NoContent
  <1>4. /\ InsertRequest(z, p).p = p
        /\ InsertRequest(z, p).snap = InitialContent(z, p)
        /\ InsertRequest(z, p).tok = 0 /\ InsertRequest(z, p).exp = 0
    BY DEF InsertRequest
  <1>5. row[p].ver = 0 => row[p].c.data = {} /\ row[p].c.epoch = 0
    BY <1>1 DEF RowOK, NoContent
  <1>6. Extends(InitialContent(z, p), 0, row[p])
    BY <1>1, <1>3, <1>5 DEF Extends
  <1>7. LateOK(InsertRequest(z, p), row[p])
    BY <1>3, <1>4, <1>6 DEF LateOK
  <1> QED
    BY <1>2, <1>3, <1>4, <1>7

LEMMA CreateInitialInsertInv ==
  ASSUME DurableInv, NEW z \in Zones, NEW p \in Players, CreateInitialInsert(z, p)
  PROVE DurableInv'
  <1> DEFINE a == actor[z][p]
             b == [a EXCEPT !.life = "reconciling"]
             c == InitialContent(z, p)
             r == InsertRequest(z, p)
             rdy == ReadyActor(z, p, c, 1, 1)
  <1>1. TypeOK /\ a \in Actors /\ a.life = "inserting" /\ a.life \notin Live
        /\ row[p] \in Rows /\ row[p].ver \in Nat /\ a.want \in Nat
    BY ActorFields, RowFields DEF DurableInv, CreateInitialInsert, Live
  <1>2. UNCHANGED <<status, acked>>
    BY DEF CreateInitialInsert, env, obs
  <1>3. ASSUME SetActor(z, p, b), UNCHANGED <<row, dirty, task>>,
               late' = late \/ late' = late \cup {r},
               Fault \/ UNCHANGED faults
        PROVE  DurableInv'
    <2>1. b \in Actors /\ b.life = "reconciling" /\ ActorOK(b, row[p])
      BY <1>1, SetLifeOK DEF Lives, Live
    <2> HIDE DEF b
    <2>2. r \in Requests /\ LateOK(r, row[r.p])
      BY InitialFacts
    <2> HIDE DEF r
    <2>3. TypeOK'
      <3>1. actor' \in [Zones -> [Players -> Actors]]
        BY <1>1, <1>3, <2>1, SetActorType
      <3>2. late' \subseteq Requests /\ faults' \in 0..MaxFaults
        BY <1>1, <1>3, <2>2, BoundsType DEF TypeOK
      <3> QED
        BY <1>1, <1>3, <3>1, <3>2 DEF TypeOK, CreateInitialInsert, env, obs
    <2>4. \A x \in late' : x \in late \/ LateOK(x, row[x.p])
      BY <1>3, <2>2
    <2> QED
      BY <1>1, <1>2, <1>3, <2>1, <2>3, <2>4, ActivationMoves
  <1>4. CASE /\ Matches(r) /\ Write(r) /\ BecomeReady(z, p, c, 1, 1)
             /\ UNCHANGED <<late, faults>>
    <2>1. /\ c \in Contents /\ c.rev = 1 /\ c.data = {} /\ c.epoch = a.want
          /\ r \in Requests /\ r.p = p /\ r.snap = c /\ r.tok = 0
          /\ LateOK(r, row[p])
      BY InitialFacts
    <2> HIDE DEF c, r
    <2>2. Extends(r.snap, r.tok, row[r.p]) /\ row[p].ver = 0
      BY <1>4, <2>1 DEF LateOK, Matches
    <2>3. /\ row'[p] = [c |-> c, ver |-> 1]
          /\ \A q \in Players : RowGrows(row[q], row'[q]) /\ RowOK(row'[q])
      BY <1>4, <2>1, <2>2, WriteGrows
    <2>4. row' \in [Players -> Rows] /\ row'[p] \in Rows
      BY <1>1, <1>4, <2>1, WriteType
    <2>5. row'[p].ver = 1 /\ row'[p].c = c /\ row'[p].c.epoch <= c.epoch
          /\ row'[p].c.epoch <= a.want /\ 1 <= c.rev
          /\ c.data = row'[p].c.data
      BY <1>1, <2>1, <2>3
    <2>6. /\ rdy \in Actors /\ rdy.life = "ready" /\ rdy.st.rev \in Nat
          /\ ActorOK(rdy, row'[p])
      BY <1>1, <2>1, <2>4, <2>5, ReadyActorOK
    <2>7. /\ SetActor(z, p, rdy) /\ task' = task
          /\ actor' \in [Zones -> [Players -> Actors]]
          /\ dirty' \in [Zones -> [Players -> Nat]]
      BY <1>1, <1>4, <2>6, BecomeReadyType
    <2> HIDE DEF rdy
    <2>8. TypeOK'
      BY <1>1, <1>4, <2>4, <2>7 DEF TypeOK, CreateInitialInsert, env, obs
    <2>9. \A y \in Zones, q \in Players :
             ActorGrows(actor[y][q], actor'[y][q], row'[q])
      <3>1. ActorGrows(actor[z][p], actor'[z][p], row'[p])
        BY <1>1 DEF ActorGrows
      <3>2. \A y \in Zones, q \in Players :
               y # z \/ q # p => actor'[y][q] = actor[y][q]
        BY <1>1, <2>7, SetActorFacts
      <3> QED
        BY <1>1, <3>1, <3>2, ActorFields, ActorGrowsRefl
    <2>10. \A y \in Zones, q \in Players :
              actor'[y][q] = actor[y][q] \/ ActorOK(actor'[y][q], row'[q])
      BY <1>1, <2>6, <2>7, SetActorFacts
    <2>11. \A y \in Zones : LockOK(y)'
      <3>1. \A y \in Zones, q \in Players :
               actor'[y][q].life = "evicting" => actor[y][q].life = "evicting"
        BY <1>1, <2>6, <2>7, SetActorFacts
      <3> QED
        BY <1>2, <2>7, <3>1, LockShrink
    <2> QED
      BY <1>2, <1>4, <2>3, <2>7, <2>8, <2>9, <2>10, <2>11, Preserve
  <1> QED
    BY <1>3, <1>4 DEF CreateInitialInsert

LEMMA ReconcileInitialCheckpointInv ==
  ASSUME DurableInv, NEW z \in Zones, NEW p \in Players,
         ReconcileInitialCheckpoint(z, p)
  PROVE DurableInv'
  <1> DEFINE a == actor[z][p]
             c == row[p].c
             rdy == ReadyActor(z, p, c, 1, row[p].ver)
  <1>1. TypeOK /\ a \in Actors /\ a.life = "reconciling" /\ a.life \notin Live
        /\ row[p] \in Rows /\ row[p].ver \in Nat /\ a.want \in Nat
        /\ c \in Contents /\ c.epoch \in Nat
    BY ActorFields, RowFields DEF DurableInv, ReconcileInitialCheckpoint, Live, Contents
  <1>2. CASE /\ c = InitialContent(z, p)
             /\ BecomeReady(z, p, row[p].c, 1, row[p].ver)
    <2>1. c.rev = 1 /\ c.epoch = a.want
      BY <1>2, InitialFacts
    <2>2. BecomeReady(z, p, c, 1, row[p].ver) /\ row[p].c = c
      BY <1>2
    <2>3. /\ row[p].c.epoch <= a.want /\ 1 <= c.rev
          /\ row[p].c.epoch <= c.epoch /\ c.data = row[p].c.data
      BY <1>1, <2>1
    <2>4. /\ rdy \in Actors /\ rdy.life = "ready" /\ rdy.st.rev \in Nat
          /\ ActorOK(rdy, row[p])
      <3>1. 1 \in Nat
        OBVIOUS
      <3>2. row[p].c.epoch <= actor[z][p].want
        BY <2>3
      <3>3. PICK d \in Contents, n \in Nat, v \in Nat, r \in Rows :
               d = c /\ n = 1 /\ v = row[p].ver /\ r = row[p]
        BY <1>1
      <3>4. /\ v = r.ver /\ n <= d.rev /\ d.data = r.c.data
            /\ r.c.epoch <= d.epoch /\ r.c.epoch <= actor[z][p].want
        BY <2>3, <3>2, <3>3
      <3>5. /\ ReadyActor(z, p, d, n, v) \in Actors
            /\ ReadyActor(z, p, d, n, v).life = "ready"
            /\ ReadyActor(z, p, d, n, v).st.rev \in Nat
            /\ ActorOK(ReadyActor(z, p, d, n, v), r)
        BY <1>1, <3>4, ReadyActorOK
      <3> QED
        BY <3>3, <3>5
    <2> HIDE DEF c
    <2>5. /\ SetActor(z, p, rdy) /\ task' = task
          /\ actor' \in [Zones -> [Players -> Actors]]
          /\ dirty' \in [Zones -> [Players -> Nat]]
      BY <1>1, <2>2, <2>4, BecomeReadyType
    <2> HIDE DEF rdy
    <2>6. TypeOK'
      BY <1>1, <2>5
         DEF TypeOK, ReconcileInitialCheckpoint, store, env, obs, bounds
    <2> QED
      BY <1>1, <2>4, <2>5, <2>6, ActivationMoves
         DEF ReconcileInitialCheckpoint, store, env, obs
  <1>3. CASE ActivationFailed(z, p)
    <2>1. /\ outbox' \in [Players ->
                            [OutboxOps -> {"none", "pending", "delivered"}]]
          /\ faults' \in 0..MaxFaults
          /\ UNCHANGED <<row, late, env, obs, stops>>
      BY <1>1 DEF TypeOK, ReconcileInitialCheckpoint, store, bounds
    <2> QED
      BY <1>1, <1>3, <2>1, ActivationFailedInv
  <1> QED
    BY <1>2, <1>3 DEF ReconcileInitialCheckpoint

LEMMA ActivationErrorInv ==
  ASSUME DurableInv, NEW z \in Zones, NEW p \in Players, ActivationError(z, p)
  PROVE DurableInv'
  <1>1. TypeOK /\ actor[z][p].life \notin Live /\ ActivationFailed(z, p)
    BY DEF DurableInv, ActivationError, Live
  <1>2. /\ outbox' \in [Players ->
                          [OutboxOps -> {"none", "pending", "delivered"}]]
        /\ faults' \in 0..MaxFaults
        /\ UNCHANGED <<row, late, env, obs, stops>>
    BY <1>1, BoundsType DEF TypeOK, ActivationError, store, NoFault
  <1> QED
    BY <1>1, <1>2, ActivationFailedInv

----------------------------------------------------------------------------
(* Close, eviction, the end of a drain, crashes.                           *)

\* A Zone whose goroutines are all at rest loses its Actors.
LEMMA DropActors ==
  ASSUME DurableInv, TypeOK', NEW z \in Zones, row' = row,
         \A y \in Zones : y # z => /\ task'[y] = task[y]
                                   /\ actor'[y] = actor[y]
                                   /\ status'[y] = status[y],
         \A p \in Players : \/ actor'[z][p] = actor[z][p]
                            \/ actor'[z][p] = NoActor,
         \A k \in Threads :
            /\ task'[z][k] = task[z][k] \/ task'[z][k] = IdleTask
            /\ task'[z][k].pc \in {"idle", "next"},
         task'[z]["exclusive"].pc = "idle",
         status'[z] # "up" => \A k \in Workers : task'[z][k].pc = "idle",
         \A p \in Players : actor'[z][p].life # "evicting",
         \A r \in late' : r \in late \/ LateOK(r, row[r.p]),
         acked' = acked
  PROVE DurableInv'
  <1>1. \A p \in Players :
           actor'[z][p] = actor[z][p] \/ ActorOK(actor'[z][p], row[p])
    BY DEF ActorOK, NoActor, Live
  <1>2. \A k \in Threads : TaskOK(k, task'[z][k], actor'[z], row)
    <2>1. \A k \in Threads : TaskOK(k, task[z][k], actor[z], row)
      BY DEF DurableInv
    <2>2. \A k \in Threads : task'[z][k].pc \in {"idle", "next", "wait", "dirty"}
      OBVIOUS
    <2> QED
      BY <2>1, <2>2, RestOK, IdleOK
  <1>3. LockOK(z)'
    BY DEF LockOK, Writing
  <1> QED
    BY <1>1, <1>2, <1>3, ZoneStepInv

LEMMA InFlightOK ==
  ASSUME DurableInv, NEW z \in Zones
  PROVE /\ InFlight(z) \subseteq Requests
        /\ \A r \in InFlight(z) : LateOK(r, row[r.p])
  <1>1. ASSUME NEW k \in Threads, task[z][k].pc = "update",
               task[z][k].snap.rev > task[z][k].exp
        PROVE  /\ RequestOf(z, task[z][k]) \in Requests
               /\ LateOK(RequestOf(z, task[z][k]),
                         row[RequestOf(z, task[z][k]).p])
    <2> DEFINE t == task[z][k]
    <2>1. t \in Tasks /\ t.p \in Players /\ Extends(t.snap, t.tok, row[t.p])
      BY <1>1, TaskFields, TaskFacts DEF DurableInv, SaveOK, SavePcs
    <2>2. t.snap.rev > t.exp
      BY <1>1
    <2> HIDE DEF t
    <2>3. RequestOf(z, t) \in Requests
      BY <2>1, RequestType
    <2>4. LateOK(RequestOf(z, t), row[RequestOf(z, t).p])
      BY <2>1, <2>2 DEF LateOK, RequestOf
    <2> QED
      BY <2>3, <2>4 DEF t
  <1>2. \A p \in Players : /\ InsertRequest(z, p) \in Requests
                           /\ LateOK(InsertRequest(z, p),
                                     row[InsertRequest(z, p).p])
    BY InitialFacts
  <1>3. ASSUME NEW r \in InFlight(z)
        PROVE  r \in Requests /\ LateOK(r, row[r.p])
    <2>1. CASE \E k \in Threads : /\ task[z][k].pc = "update"
                                  /\ task[z][k].snap.rev > task[z][k].exp
                                  /\ r = RequestOf(z, task[z][k])
      BY <1>1, <2>1
    <2>2. CASE \E p \in Players : r = InsertRequest(z, p)
      BY <1>2, <2>2
    <2> QED
      BY <2>1, <2>2 DEF InFlight
  <1> QED
    BY <1>3

LEMMA NoActorsType ==
  ASSUME TypeOK, NEW z \in Zones,
         actor' = [actor EXCEPT ![z] = [p \in Players |-> NoActor]],
         dirty' = [dirty EXCEPT ![z] = [p \in Players |-> 0]]
  PROVE /\ actor' \in [Zones -> [Players -> Actors]]
        /\ dirty' \in [Zones -> [Players -> Nat]]
        /\ \A p \in Players : /\ actor'[z][p] = NoActor
                              /\ actor'[z][p].life # "evicting"
        /\ \A y \in Zones : y # z => actor'[y] = actor[y]
  BY ConstantsType DEF TypeOK, NoActor

LEMMA StartCloseInv ==
  ASSUME DurableInv, NEW z \in Zones, StartClose(z)
  PROVE DurableInv'
  <1> DEFINE t2 == [IdleTask EXCEPT !.pc = "next", !.job = "flush",
                                    !.todo = DirtyPlayers(z)]
  <1>1. t2 \in Tasks /\ t2.pc = "next" /\ t2.job = "flush" /\ TypeOK
    BY ConstantsType DEF Tasks, PCs, Jobs, DirtyPlayers, DurableInv
  <1>2. SetTask(z, "flusher", t2) /\ UNCHANGED <<row, late, actor, acked>>
    BY DEF StartClose, store, obs
  <1> HIDE DEF t2
  <1>3. TypeOK'
    <2>1. task' \in [Zones -> [Threads -> Tasks]]
      BY <1>1, <1>2, SetTaskType, WorkersAreThreads
    <2>2. stops' \in 0..MaxStops
          /\ status' \in [Zones -> {"up", "closing", "down"}]
      BY <1>1, BoundsType DEF TypeOK, StartClose
    <2> QED
      BY <1>1, <2>1, <2>2 DEF TypeOK, StartClose, store, obs
  <1>4. /\ task'[z]["flusher"] = t2
        /\ \A k \in Threads : k # "flusher" => task'[z][k] = task[z][k]
        /\ \A y \in Zones : y # z => task'[y] = task[y]
    BY <1>1, <1>2, SetTaskFacts, WorkersAreThreads
  <1>5. \A y \in Zones : y # z => status'[y] = status[y]
    BY <1>1 DEF TypeOK, StartClose
  <1>6. \A k \in Threads : task[z][k].pc = "idle"
    BY DEF StartClose
  <1>7. LockOK(z)'
    <2>1. ~Writing(z)
      BY <1>6, WorkersAreThreads DEF Writing
    <2> QED
      BY <1>2, <1>4, <1>6, <2>1, NoEviction, WorkersAreThreads
         DEF LockOK, Reading, Writing
  <1>8. \A k \in Threads : TaskOK(k, task'[z][k], actor'[z], row)
    <2>1. TaskOK("flusher", t2, actor'[z], row)
      BY <1>1, NextOK
    <2> QED
      BY <1>2, <1>4, <2>1 DEF DurableInv
  <1> QED
    BY <1>2, <1>3, <1>4, <1>5, <1>7, <1>8, ZoneStepInv

LEMMA FinishCloseInv ==
  ASSUME DurableInv, NEW z \in Zones, FinishClose(z)
  PROVE DurableInv'
  <1>1. TypeOK /\ LockOK(z)
    BY DEF DurableInv
  <1>2. UNCHANGED <<row, task, acked>>
    BY DEF FinishClose, obs
  <1>3. /\ actor' \in [Zones -> [Players -> Actors]]
        /\ dirty' \in [Zones -> [Players -> Nat]]
        /\ \A p \in Players : /\ actor'[z][p] = NoActor
                              /\ actor'[z][p].life # "evicting"
        /\ \A y \in Zones : y # z => actor'[y] = actor[y]
    BY <1>1, NoActorsType DEF FinishClose
  <1>4. TypeOK'
    <2>1. late' \subseteq Requests
      BY <1>1, InFlightOK DEF FinishClose, TypeOK
    <2>2. view' \in [Zones -> Nat]
          /\ status' \in [Zones -> {"up", "closing", "down"}]
      BY <1>1 DEF FinishClose, TypeOK
    <2> QED
      BY <1>1, <1>3, <2>1, <2>2 DEF TypeOK, FinishClose, obs, bounds
  <1>5. \A k \in Threads : task[z][k].pc = "idle"
    BY <1>1 DEF LockOK, FinishClose, Threads
  <1>6. \A y \in Zones : y # z => status'[y] = status[y]
    BY <1>1 DEF TypeOK, FinishClose
  <1>7. \A r \in late' : r \in late \/ LateOK(r, row[r.p])
    BY InFlightOK DEF FinishClose
  <1> QED
    BY <1>2, <1>3, <1>4, <1>5, <1>6, <1>7, WorkersAreThreads, DropActors

LEMMA CrashInv ==
  ASSUME DurableInv, NEW z \in Zones, Crash(z)
  PROVE DurableInv'
  <1>1. TypeOK
    BY DEF DurableInv
  <1>2. UNCHANGED <<row, acked>>
    BY DEF Crash, obs
  <1>3. /\ actor' \in [Zones -> [Players -> Actors]]
        /\ dirty' \in [Zones -> [Players -> Nat]]
        /\ \A p \in Players : /\ actor'[z][p] = NoActor
                              /\ actor'[z][p].life # "evicting"
        /\ \A y \in Zones : y # z => actor'[y] = actor[y]
    BY <1>1, NoActorsType DEF Crash
  <1>4. /\ task' \in [Zones -> [Threads -> Tasks]]
        /\ \A k \in Threads : task'[z][k] = IdleTask
        /\ \A y \in Zones : y # z => task'[y] = task[y]
    BY <1>1, ConstantsType DEF Crash, TypeOK
  <1>5. TypeOK'
    <2>1. late' \subseteq Requests
      BY <1>1, InFlightOK DEF Crash, TypeOK
    <2>2. view' \in [Zones -> Nat] /\ faults' \in 0..MaxFaults
          /\ status' \in [Zones -> {"up", "closing", "down"}]
      BY <1>1, BoundsType DEF Crash, TypeOK
    <2> QED
      BY <1>1, <1>3, <1>4, <2>1, <2>2 DEF TypeOK, Crash, obs
  <1>6. \A y \in Zones : y # z => status'[y] = status[y]
    BY <1>1 DEF TypeOK, Crash
  <1>7. \A r \in late' : r \in late \/ LateOK(r, row[r.p])
    BY InFlightOK DEF Crash
  <1>8. \A k \in Threads :
            /\ task'[z][k] = task[z][k] \/ task'[z][k] = IdleTask
            /\ task'[z][k].pc \in {"idle", "next"}
            /\ task'[z][k].pc = "idle"
    <2>1. IdleTask.pc = "idle"
      BY DEF IdleTask
    <2> QED
      BY <1>4, <2>1
  <1>9. task'[z]["exclusive"].pc = "idle"
        /\ \A k \in Workers : task'[z][k].pc = "idle"
    BY <1>8, WorkersAreThreads
  <1>10. \A y \in Zones : y # z => /\ task'[y] = task[y]
                                   /\ actor'[y] = actor[y]
                                   /\ status'[y] = status[y]
    BY <1>3, <1>4, <1>6
  <1>11. \A p \in Players : \/ actor'[z][p] = actor[z][p]
                            \/ actor'[z][p] = NoActor
    BY <1>3
  <1>12. \A p \in Players : actor'[z][p].life # "evicting"
    BY <1>3
  <1> QED
    BY <1>2, <1>5, <1>7, <1>8, <1>9, <1>10, <1>11, <1>12, DropActors

LEMMA FinishDrainInv ==
  ASSUME DurableInv, NEW z \in Zones, FinishDrain(z)
  PROVE DurableInv'
  <1>1. TypeOK /\ Writing(z) /\ SetTask(z, "exclusive", IdleTask)
    BY DEF DurableInv, FinishDrain, Writing, EndTask
  <1>2. UNCHANGED <<row, late, status, acked>>
    BY DEF FinishDrain, store, env
  <1>3. /\ actor' \in [Zones -> [Players -> Actors]]
        /\ dirty' \in [Zones -> [Players -> Nat]]
        /\ \A p \in Players : /\ actor'[z][p] = NoActor
                              /\ actor'[z][p].life # "evicting"
        /\ \A y \in Zones : y # z => actor'[y] = actor[y]
    BY <1>1, NoActorsType DEF FinishDrain
  <1>4. /\ task'[z]["exclusive"] = IdleTask
        /\ \A k \in Threads : k # "exclusive" => task'[z][k] = task[z][k]
        /\ \A y \in Zones : y # z => task'[y] = task[y]
    BY <1>1, SetTaskFacts, WorkersAreThreads
  <1>5. TypeOK'
    <2>1. task' \in [Zones -> [Threads -> Tasks]]
      BY <1>1, ConstantsType, WorkersAreThreads, SetTaskType
    <2>2. manifest' \in Manifests
      <3>1. task[z]["exclusive"].epoch \in Nat
        BY <1>1, TaskFields, WorkersAreThreads
      <3>2. \A p \in Players : actor[z][p].st.rev \in Nat
        BY <1>1, ActorFields DEF Contents
      <3> QED
        BY <3>1, <3>2 DEF FinishDrain, Manifests
    <2> QED
      BY <1>1, <1>3, <2>1, <2>2 DEF TypeOK, FinishDrain, store, env, bounds
  <1>6. IdleTask.pc = "idle"
    BY DEF IdleTask
  <1>7. \A k \in Threads :
            /\ task'[z][k] = task[z][k] \/ task'[z][k] = IdleTask
            /\ task'[z][k].pc \in {"idle", "next"}
    BY <1>1, <1>4, <1>6, OthersRest
  <1>8. status'[z] # "up" => \A k \in Workers : task'[z][k].pc = "idle"
    BY <1>2, <1>4, WorkersAreThreads DEF DurableInv, LockOK
  <1> QED
    BY <1>2, <1>3, <1>4, <1>5, <1>6, <1>7, <1>8, DropActors

LEMMA StartEvictInv ==
  ASSUME DurableInv, NEW z \in Zones, NEW p \in Players, StartEvict(z, p)
  PROVE DurableInv'
  <1> DEFINE a == actor[z][p]
             a2 == [a EXCEPT !.life = "evicting"]
             t2 == [IdleTask EXCEPT !.pc = "fence", !.job = "evict", !.p = p,
                        !.snap = a.st, !.exp = a.prev, !.tok = a.ptok]
  <1>1. TypeOK /\ a \in Actors /\ a.life = "ready" /\ ActorOK(a, row[p])
        /\ Excluded(z) /\ ~Writing(z) /\ ~Reading(z)
        /\ a.st \in Contents /\ a.prev \in Nat /\ a.ptok \in Nat
    BY ActorFields DEF DurableInv, StartEvict, Excluded
  <1>2. UNCHANGED <<row, late, status, acked>> /\ stops' \in 0..MaxStops
    BY <1>1, BoundsType DEF StartEvict, store, env, obs
  <1>3. CASE /\ SetActor(z, p, a2) /\ SetTask(z, "exclusive", t2)
             /\ UNCHANGED dirty
    <2>1. /\ a2 \in Actors /\ a2.life = "evicting" /\ a2.st = a.st
          /\ a2.prev = a.prev /\ a2.ptok = a.ptok /\ a2.marks = a.marks
      <3> HIDE DEF a
      <3> QED BY <1>1 DEF Actors, Lives
    <2>2. /\ t2 \in Tasks /\ t2.pc = "fence" /\ t2.job = "evict" /\ t2.p = p
          /\ t2.snap = a.st /\ t2.tok = a.ptok
      <3> HIDE DEF a
      <3> QED BY <1>1, ConstantsType DEF Tasks, PCs, SavePcs, Jobs, IdleTask
    <2>3. a.st.rev \in Nat /\ a.st.epoch \in Nat
          /\ \A o \in SyncOps : a.marks[o] \in Nat
      BY <1>1 DEF Actors, Contents
    <2> HIDE DEF a2, t2
    <2>4. ActorOK(a2, row[p]) /\ ActorGrows(a, a2, row[p])
      <3> HIDE DEF a
      <3>1. ActorOK(a2, row[p])
        BY <1>1, <2>1 DEF ActorOK, Live
      <3>2. ActorGrows(a, a2, row[p])
        BY <1>1, <2>1, <2>3 DEF ActorGrows, Live
      <3> QED BY <3>1, <3>2
    <2>5. actor'[z][p] = a2
      BY <1>1, <1>3, SetActorFacts
    <2>6. TaskOK("exclusive", t2, actor'[z], row)
      <3> HIDE DEF a
      <3>1. SaveOK(t2, a2, row[p])
        BY <1>1, <2>1, <2>2, <2>3, <2>4 DEF SaveOK, SnapOK, ActorOK, Live, SavePcs
      <3> QED
        BY <2>2, <2>5, <3>1, WorkersAreThreads DEF TaskOK, ShapeOK, SavePcs
    <2>7. TypeOK'
      <3>1. task' \in [Zones -> [Threads -> Tasks]]
        BY <1>1, <1>3, <2>2, WorkersAreThreads, SetTaskType
      <3>2. actor' \in [Zones -> [Players -> Actors]]
        BY <1>1, <1>3, <2>1, SetActorType
      <3> QED
        BY <1>1, <1>2, <1>3, <3>1, <3>2 DEF TypeOK, StartEvict, store, env, obs
    <2>8. LockOK(z)'
      <3>1. t2.pc \in SavePcs
        BY <2>2 DEF SavePcs
      <3>2. \A q \in Players : actor'[z][q].life = "evicting" => q = p
        BY <1>1, <1>3, NoEviction, SetActorFacts
      <3> QED
        BY <1>1, <1>2, <1>3, <2>2, <3>1, <3>2, AcquireLock
    <2> HIDE DEF a
    <2> QED
      BY <1>2, <1>3, <2>4, <2>6, <2>7, <2>8, WorkersAreThreads, ActorStep DEF a
  <1>4. CASE /\ SetActor(z, p, NoActor) /\ UNCHANGED task
             /\ dirty' = [dirty EXCEPT ![z][p] = 0]
    <2>1. TypeOK'
      <3>1. actor' \in [Zones -> [Players -> Actors]]
        BY <1>1, <1>4, ConstantsType, SetActorType
      <3>2. dirty' \in [Zones -> [Players -> Nat]]
        BY <1>1, <1>4 DEF TypeOK
      <3> QED
        BY <1>1, <1>2, <1>4, <3>1, <3>2 DEF TypeOK, StartEvict, store, env, obs
    <2>2. \A k \in Threads : task[z][k].pc \in {"idle", "next"}
      BY <1>1 DEF Reading, Writing, Threads
    <2>3. task[z]["exclusive"].pc = "idle"
          /\ \A k \in Workers : task[z][k].pc = "idle"
      BY <1>1 DEF Reading, Writing
    <2>4. \A q \in Players : /\ \/ actor'[z][q] = actor[z][q]
                                \/ actor'[z][q] = NoActor
                             /\ actor'[z][q].life # "evicting"
      BY <1>1, <1>4, NoEviction, SetActorFacts DEF NoActor
    <2>5. \A y \in Zones : y # z => actor'[y] = actor[y]
      BY <1>1, <1>4, SetActorFacts
    <2> QED
      BY <1>2, <1>4, <2>1, <2>2, <2>3, <2>4, <2>5, DropActors
  <1> QED
    BY <1>3, <1>4 DEF StartEvict

----------------------------------------------------------------------------
(* The store, the coordinator, and restarts.                               *)

LEMMA LandInv ==
  ASSUME DurableInv, NEW r \in late, Land(r)
  PROVE DurableInv'
  <1>1. r \in Requests /\ LateOK(r, row[r.p]) /\ TypeOK
    BY DEF DurableInv, TypeOK
  <1>2. Matches(r) /\ Write(r) /\ Extends(r.snap, r.tok, row[r.p])
    BY <1>1 DEF Land, LateOK
  <1>3. \A q \in Players : RowGrows(row[q], row'[q]) /\ RowOK(row'[q])
    BY <1>1, <1>2, WriteGrows
  <1>4. UNCHANGED <<actor, task, status, acked>> /\ late' \subseteq late
    BY DEF Land, env, obs
  <1>5. TypeOK'
    <2>1. row' \in [Players -> Rows] /\ late' \subseteq Requests
      BY <1>1, <1>2, <1>4, WriteType DEF TypeOK
    <2> QED
      BY <1>1, <2>1 DEF TypeOK, Land, env, obs, bounds
  <1>6. \A y \in Zones, q \in Players :
           ActorGrows(actor[y][q], actor'[y][q], row'[q])
    BY <1>1, <1>4, ActorFields, ActorGrowsRefl
  <1>7. \A y \in Zones : LockOK(y)'
    BY <1>4, LockOther DEF DurableInv
  <1> QED
    BY <1>3, <1>4, <1>5, <1>6, <1>7, Preserve

\* Steps that touch neither rows, nor Actors, nor goroutines.
LEMMA EnvStep ==
  ASSUME DurableInv, TypeOK', UNCHANGED <<row, late, actor, task, acked>>,
         \A y \in Zones : status'[y] = status[y] \/ status'[y] = "up"
  PROVE DurableInv'
  <1>1. \A q \in Players : RowGrows(row[q], row'[q]) /\ RowOK(row'[q])
    BY DEF RowGrows, DurableInv
  <1>2. \A y \in Zones, q \in Players :
           ActorGrows(actor[y][q], actor'[y][q], row'[q])
    BY ActorFields, ActorGrowsRefl DEF DurableInv
  <1>3. \A y \in Zones : LockOK(y)'
    BY DEF DurableInv, LockOK, Reading, Writing
  <1> QED
    BY <1>1, <1>2, <1>3, Preserve

LEMMA EnvironmentInv ==
  ASSUME DurableInv, NEW z \in Zones,
         AdvanceFence(z) \/ Authorize(z) \/ Revoke(z) \/ Restart(z)
  PROVE DurableInv'
  <1>1. TypeOK
    BY DEF DurableInv
  <1>2. CASE AdvanceFence(z)
    <2>1. TypeOK'
      BY <1>1, <1>2 DEF TypeOK, AdvanceFence, store, obs, bounds
    <2> QED
      BY <1>2, <2>1, EnvStep DEF AdvanceFence, store, obs
  <1>3. CASE Authorize(z)
    <2>1. manifest' \in Manifests /\ view' \in [Zones -> Nat]
      BY <1>1, <1>3, ConstantsType DEF TypeOK, Authorize
    <2>2. TypeOK'
      BY <1>1, <1>3, <2>1 DEF TypeOK, Authorize, store, bounds
    <2> QED
      BY <1>3, <2>2, EnvStep DEF Authorize, store
  <1>4. CASE Revoke(z)
    <2>1. TypeOK'
      BY <1>1, <1>4 DEF TypeOK, Revoke, store, obs, bounds
    <2> QED
      BY <1>4, <2>1, EnvStep DEF Revoke, store, obs
  <1>5. CASE Restart(z)
    <2>1. inc' \in [Zones -> Nat]
          /\ status' \in [Zones -> {"up", "closing", "down"}]
          /\ \A y \in Zones : status'[y] = status[y] \/ status'[y] = "up"
      BY <1>1, <1>5 DEF TypeOK, Restart
    <2>2. TypeOK'
      BY <1>1, <1>5, <2>1 DEF TypeOK, Restart, store, obs, bounds
    <2> QED
      BY <1>5, <2>1, <2>2, EnvStep DEF Restart, store, obs
  <1> QED
    BY <1>2, <1>3, <1>4, <1>5

LEMMA RelayInv ==
  ASSUME DurableInv, NEW p \in Players, NEW o \in OutboxOps, Relay(p, o)
  PROVE DurableInv'
  <1>1. TypeOK
    BY DEF DurableInv
  <1>2. outbox' \in [Players -> [OutboxOps -> {"none", "pending", "delivered"}]]
    BY <1>1 DEF TypeOK, Relay
  <1>3. TypeOK'
    BY <1>1, <1>2 DEF TypeOK, Relay, env, obs, bounds
  <1> QED
    BY <1>3, EnvStep DEF Relay, env, obs

----------------------------------------------------------------------------
(* The theorems.                                                           *)

LEMMA InitInv == Init => DurableInv
  <1> SUFFICES ASSUME Init PROVE DurableInv
    OBVIOUS
  <1>1. /\ [c |-> NoContent, ver |-> 0] \in Rows
        /\ "flusher" \in Threads /\ "exclusive" \in Threads
    BY ConstantsType DEF Rows, Threads
  <1>2. TypeOK
    <2>1. fence \in [owner : Zones, epoch : Nat]
      BY DEF Init
    <2>2. row \in [Players -> Rows]
          /\ actor \in [Zones -> [Players -> Actors]]
          /\ task \in [Zones -> [Threads -> Tasks]]
          /\ manifest \in Manifests
      BY <1>1, ConstantsType DEF Init
    <2> QED
      BY <2>1, <2>2 DEF Init, TypeOK
  <1>3. NoActor.life = "absent" /\ IdleTask.pc = "idle"
    BY DEF NoActor, IdleTask
  <1>4. \A z \in Zones, p \in Players : ActorOK(actor[z][p], row[p])
    BY <1>3 DEF Init, ActorOK, Live
  <1>5. \A z \in Zones, k \in Threads : TaskOK(k, task[z][k], actor[z], row)
    BY IdleOK DEF Init
  <1>6. \A z \in Zones : LockOK(z)
    <2>1. \A z \in Zones, p \in Players : actor[z][p].life = "absent"
      BY <1>3 DEF Init
    <2>2. \A z \in Zones, k \in Threads : task[z][k].pc = "idle"
      BY <1>3 DEF Init
    <2> QED
      BY <2>1, <2>2, WorkersAreThreads DEF LockOK, Reading, Writing
  <1>7. \A p \in Players : RowOK(row[p])
    BY DEF Init, RowOK
  <1>8. AckedDurable
    BY DEF Init, AckedDurable
  <1> QED
    BY <1>2, <1>4, <1>5, <1>6, <1>7, <1>8 DEF DurableInv, Init

LEMMA NextInv == DurableInv /\ [Next]_vars => DurableInv'
  <1> SUFFICES ASSUME DurableInv, [Next]_vars PROVE DurableInv'
    OBVIOUS
  <1>1. CASE UNCHANGED vars
    <2>1. TypeOK'
      BY <1>1 DEF DurableInv, TypeOK, vars
    <2> QED
      BY <1>1, <2>1, EnvStep DEF vars
  <1>2. CASE StoreStep
    BY <1>2, LandInv, RelayInv DEF StoreStep
  <1>3. ASSUME NEW z \in Zones, ZoneStep(z) PROVE DurableInv'
    <2>1. CASE \E k \in Workers, p \in Players, op \in Ops :
                  StartRequest(z, k, p, op)
      BY <2>1, StartRequestInv
    <2>2. ASSUME NEW k \in Workers, RequestStep(z, k) \/ CancelRequest(z, k)
          PROVE  DurableInv'
      BY <2>2, RequestNotOwnerInv, ExecuteInv, MarkDirtyInv, SettleInspectInv,
         SettleMarkDirtyInv, SettleFlushInv, SettleConfirmInv,
         CancelRequestInv DEF RequestStep
    <2>3. ASSUME NEW p \in Players,
                 ActivationStep(z, p) \/ ActivationError(z, p)
          PROVE  DurableInv'
      BY <2>3, ActivateLoadInv, CreateInitialFenceInv, CreateInitialInsertInv,
         ReconcileInitialCheckpointInv, ActivationErrorInv DEF ActivationStep
    <2>4. ASSUME NEW k \in Threads, SaveStep(z, k) PROVE DurableInv'
      BY <2>4, SaveFenceInv, SaveUpdateInv, ReconcileFailedCASInv,
         SaveOutboxInv, CheckpointWasCommittedInv, AcknowledgeInv DEF SaveStep
    <2>5. CASE FlusherStep(z) \/ StartClose(z) \/ FinishClose(z)
      BY <2>5, StartFlushInv, FlushNextInv, StartCloseInv, FinishCloseInv
         DEF FlusherStep
    <2>6. CASE \E p \in Players : StartEvict(z, p)
      BY <2>6, StartEvictInv
    <2>7. CASE StartDrain(z) \/ StartPrepare(z) \/ ExclusiveStep(z)
      BY <2>7, StartDrainInv, StartPrepareInv, DrainNextInv, FinishDrainInv,
         PrepareNextInv DEF ExclusiveStep
    <2>8. CASE \/ AdvanceFence(z) \/ Authorize(z) \/ Revoke(z)
               \/ Crash(z) \/ Restart(z)
      BY <2>8, EnvironmentInv, CrashInv
    <2> QED
      BY <1>3, <2>1, <2>2, <2>3, <2>4, <2>5, <2>6, <2>7, <2>8 DEF ZoneStep
  <1> QED
    BY <1>1, <1>2, <1>3 DEF Next

\* DurableInv, the part of the inductive invariant behind AckedDurable and
\* RowExtends (who holds which copy of the state, and what the row contains),
\* holds in every reachable state of the runtime.
THEOREM DurableInvTheorem == Spec => []DurableInv
  BY InitInv, NextInv, PTL DEF Spec

\* Type correctness of the runtime.
THEOREM TypeTheorem == Spec => []TypeOK
  <1>1. DurableInv => TypeOK
    BY DEF DurableInv
  <1> QED
    BY DurableInvTheorem, <1>1, PTL

\* A Saga step that settleSyncStepLocked reported as done is in the
\* checkpoint row, now and forever after.
THEOREM AckedDurableTheorem == Spec => []AckedDurable
  <1>1. DurableInv => AckedDurable
    BY DEF DurableInv
  <1> QED
    BY DurableInvTheorem, <1>1, PTL

\* What one write does to a row: it keeps every mutation, and revision and
\* owner epoch go forward.
RowAdvances ==
    \A p \in Players : row'[p] # row[p] =>
        /\ row[p].c.data \subseteq row'[p].c.data
        /\ row[p].c.rev < row'[p].c.rev
        /\ row[p].c.epoch <= row'[p].c.epoch

LEMMA WriteAdvances ==
  ASSUME DurableInv, NEW r \in Requests, Matches(r), Write(r), LateOK(r, row[r.p])
  PROVE RowAdvances
  <1>1. /\ row'[r.p] = [c |-> r.snap, ver |-> row[r.p].ver + 1]
        /\ \A q \in Players : q # r.p => row'[q] = row[q]
    BY WriteGrows DEF LateOK
  <1>2. r.snap.rev > r.exp /\ row[r.p].c.rev = r.exp /\ row[r.p].ver = r.tok
    BY DEF LateOK, Matches
  <1>3. row[r.p].c.data \subseteq r.snap.data /\ row[r.p].c.epoch <= r.snap.epoch
    BY <1>2 DEF LateOK, Extends
  <1>4. r.p \in Players /\ r.snap.rev \in Nat /\ r.exp \in Nat
    BY DEF Requests, Contents
  <1> QED
    BY <1>1, <1>2, <1>3, <1>4 DEF RowAdvances

LEMMA NextAdvances == DurableInv /\ [Next]_vars => RowAdvances
  <1> SUFFICES ASSUME DurableInv, [Next]_vars PROVE RowAdvances
    OBVIOUS
  <1>0. UNCHANGED row => RowAdvances
    BY DEF RowAdvances
  <1>1. CASE UNCHANGED vars
    BY <1>0, <1>1 DEF vars
  <1>2. CASE StoreStep
    <2>1. ASSUME NEW r \in late, Land(r) PROVE RowAdvances
      <3>1. r \in Requests /\ LateOK(r, row[r.p])
        BY DEF DurableInv, TypeOK
      <3> QED
        BY <2>1, <3>1, WriteAdvances DEF Land
    <2>2. ASSUME NEW p \in Players, NEW o \in OutboxOps, Relay(p, o)
          PROVE  RowAdvances
      BY <1>0, <2>2 DEF Relay
    <2> QED
      BY <1>2, <2>1, <2>2 DEF StoreStep
  <1>3. ASSUME NEW z \in Zones, ZoneStep(z) PROVE RowAdvances
    <2>1. ASSUME NEW k \in Workers, NEW p \in Players, NEW op \in Ops,
                 StartRequest(z, k, p, op)
          PROVE  RowAdvances
      BY <1>0, <2>1 DEF StartRequest, store
    <2>2. ASSUME NEW k \in Workers, RequestStep(z, k) \/ CancelRequest(z, k)
          PROVE  RowAdvances
      BY <1>0, <2>2
         DEF RequestStep, RequestNotOwner, Execute, MarkDirty, SettleInspect,
             SettleMarkDirty, SettleFlush, SettleConfirm, CancelRequest, store
    <2>3. ASSUME NEW p \in Players, CreateInitialInsert(z, p)
          PROVE  RowAdvances
      <3>1. CASE Matches(InsertRequest(z, p)) /\ Write(InsertRequest(z, p))
        BY <3>1, InitialFacts, WriteAdvances
      <3>2. CASE UNCHANGED row
        BY <1>0, <3>2
      <3> QED
        BY <2>3, <3>1, <3>2 DEF CreateInitialInsert
    <2>4. ASSUME NEW p \in Players,
                 \/ ActivateLoad(z, p)
                 \/ CreateInitialFence(z, p)
                 \/ ReconcileInitialCheckpoint(z, p)
                 \/ ActivationError(z, p)
          PROVE  RowAdvances
      BY <1>0, <2>4
         DEF ActivateLoad, CreateInitialFence, ReconcileInitialCheckpoint,
             ActivationError, store
    <2>5. ASSUME NEW k \in Threads, SaveUpdate(z, k) PROVE RowAdvances
      <3> DEFINE t == task[z][k]
                 r == RequestOf(z, t)
      <3>1. CASE t.snap.rev > t.exp /\ Matches(r) /\ Write(r)
        <4>1. t \in Tasks /\ t.p \in Players
              /\ Extends(t.snap, t.tok, row[t.p])
          BY <2>5, TaskFields, TaskFacts DEF DurableInv, SaveUpdate, SaveOK, SavePcs
        <4> HIDE DEF t
        <4>2. r \in Requests /\ LateOK(r, row[r.p])
          BY <3>1, <4>1, RequestType DEF LateOK, RequestOf
        <4> HIDE DEF r
        <4> QED
          BY <3>1, <4>2, WriteAdvances
      <3>2. CASE UNCHANGED row
        BY <1>0, <3>2
      <3> QED
        BY <2>5, <3>1, <3>2 DEF SaveUpdate
    <2>6. ASSUME NEW k \in Threads,
                 \/ SaveFence(z, k)
                 \/ ReconcileFailedCAS(z, k)
                 \/ SaveOutbox(z, k)
                 \/ CheckpointWasCommitted(z, k)
                 \/ Acknowledge(z, k)
          PROVE  RowAdvances
      BY <1>0, <2>6 DEF SaveFence, ReconcileFailedCAS, SaveOutbox,
                        CheckpointWasCommitted, Acknowledge, store
    <2>7. CASE FlusherStep(z) \/ StartClose(z) \/ FinishClose(z)
      BY <1>0, <2>7
         DEF FlusherStep, StartFlush, FlushNext, StartClose, FinishClose, store
    <2>8. ASSUME NEW p \in Players, StartEvict(z, p) PROVE RowAdvances
      BY <1>0, <2>8 DEF StartEvict, store
    <2>9. CASE StartDrain(z) \/ StartPrepare(z) \/ ExclusiveStep(z)
      BY <1>0, <2>9 DEF StartDrain, StartPrepare, ExclusiveStep, DrainNext,
                        FinishDrain, PrepareNext, store
    <2>10. CASE \/ AdvanceFence(z) \/ Authorize(z) \/ Revoke(z)
                \/ Crash(z) \/ Restart(z)
      BY <1>0, <2>10 DEF AdvanceFence, Authorize, Revoke, Crash, Restart, store
    <2> QED
      BY <1>3, <2>1, <2>2, <2>3, <2>4, <2>5, <2>6, <2>7, <2>8, <2>9, <2>10
         DEF ZoneStep, ActivationStep, SaveStep
  <1> QED
    BY <1>1, <1>2, <1>3 DEF Next

\* No checkpoint write ever drops a durable mutation or takes the row back to
\* an earlier revision or owner epoch, whoever writes and whatever it believes
\* about the ownership of the shard.
THEOREM RowExtendsTheorem == Spec => RowExtends
  <1>1. DurableInv /\ [Next]_vars =>
          [\A p \in Players : row'[p] # row[p] =>
              /\ row[p].c.data \subseteq row'[p].c.data
              /\ row[p].c.rev < row'[p].c.rev
              /\ row[p].c.epoch <= row'[p].c.epoch]_vars
    BY NextAdvances DEF RowAdvances
  <1> QED
    BY DurableInvTheorem, <1>1, PTL DEF Spec, RowExtends

----------------------------------------------------------------------------
(* Outbox entries.  Delivered rows stay delivered, so a copy of a           *)
(* checkpoint that owes its events goes on owing them.                     *)

LEMMA OwesGrows ==
  ASSUME NEW c, NEW box, NEW box2, OwesEvents(c, box),
         \A o \in OutboxOps : box[o] = "delivered" => box2[o] = "delivered"
  PROVE OwesEvents(c, box2)
  BY DEF OwesEvents

\* What an action has to show: it keeps delivered rows, opens rows only for
\* durable mutations, and every checkpoint it makes owes its events.
LEMMA OutboxPreserve ==
  ASSUME OutboxInv, TypeOK, TypeOK', RowAdvances,
         \A p \in Players, o \in OutboxOps :
            /\ outbox[p][o] = "delivered" => outbox'[p][o] = "delivered"
            /\ outbox'[p][o] # "none" => \/ outbox[p][o] # "none"
                                         \/ o \in row'[p].c.data,
         \A p \in Players :
            row'[p] = row[p] \/ OwesEvents(row'[p].c, outbox[p]),
         \A z \in Zones, p \in Players :
            \/ actor'[z][p].st = actor[z][p].st
            \/ OwesEvents(actor'[z][p].st, outbox[p]),
         \A z \in Zones, k \in Threads, p \in Players :
            Saving(task'[z][k], p) =>
               \/ Saving(task[z][k], p) /\ task'[z][k].snap = task[z][k].snap
               \/ OwesEvents(task'[z][k].snap, outbox[p]),
         \A r \in late' : r \in late \/ OwesEvents(r.snap, outbox[r.p])
  PROVE OutboxInv'
  <1>1. \A p \in Players : OwesEvents(row'[p].c, outbox'[p])
    BY OwesGrows DEF OutboxInv
  <1>2. \A p \in Players, o \in OutboxOps :
           outbox'[p][o] # "none" => o \in row'[p].c.data
    BY DEF OutboxInv, RowAdvances
  <1>3. \A z \in Zones, p \in Players : OwesEvents(actor'[z][p].st, outbox'[p])
    BY OwesGrows DEF OutboxInv
  <1>4. ASSUME NEW z \in Zones, NEW k \in Threads, NEW p \in Players,
               Saving(task'[z][k], p)
        PROVE  OwesEvents(task'[z][k].snap, outbox'[p])
    <2>1. OwesEvents(task'[z][k].snap, outbox[p])
      BY <1>4 DEF OutboxInv
    <2> QED BY <2>1, OwesGrows
  <1>5. ASSUME NEW r \in late' PROVE OwesEvents(r.snap, outbox'[r.p])
    <2>1. r.p \in Players
      BY <1>5 DEF TypeOK, Requests
    <2>2. OwesEvents(r.snap, outbox[r.p])
      BY <1>5 DEF OutboxInv
    <2> QED BY <2>1, <2>2, OwesGrows
  <1> QED
    BY <1>1, <1>2, <1>3, <1>4, <1>5 DEF OutboxInv

\* A step that changes neither rows nor requests.
LEMMA OutboxLocal ==
  ASSUME OutboxInv, TypeOK, TypeOK', UNCHANGED <<row, outbox, late>>,
         \A z \in Zones, p \in Players :
            \/ actor'[z][p].st = actor[z][p].st
            \/ OwesEvents(actor'[z][p].st, outbox[p]),
         \A z \in Zones, k \in Threads, p \in Players :
            Saving(task'[z][k], p) =>
               \/ Saving(task[z][k], p) /\ task'[z][k].snap = task[z][k].snap
               \/ OwesEvents(task'[z][k].snap, outbox[p])
  PROVE OutboxInv'
  <1>1. RowAdvances
    BY DEF RowAdvances
  <1> QED
    BY <1>1, OutboxPreserve

\* A goroutine goes on with the snapshot it has, without one, or with one
\* that owes its events.
KeepsSnap(t, t2, box) ==
    \/ t2.pc \notin SavePcs
    \/ t.pc \in SavePcs /\ t2.p = t.p /\ t2.snap = t.snap
    \/ OwesEvents(t2.snap, box)

LEMMA OutboxMove ==
  ASSUME OutboxInv, TypeOK, TypeOK', UNCHANGED <<row, outbox, late>>,
         NEW z \in Zones, NEW k \in Threads, NEW t, SetTask(z, k, t),
         KeepsSnap(task[z][k], t, outbox[t.p]),
         \A y \in Zones, p \in Players :
            \/ actor'[y][p].st = actor[y][p].st
            \/ OwesEvents(actor'[y][p].st, outbox[p])
  PROVE OutboxInv'
  <1>1. \A y \in Zones, j \in Threads, p \in Players :
            Saving(task'[y][j], p) =>
               \/ Saving(task[y][j], p) /\ task'[y][j].snap = task[y][j].snap
               \/ OwesEvents(task'[y][j].snap, outbox[p])
    BY SetTaskFacts DEF Saving, KeepsSnap
  <1> QED
    BY <1>1, OutboxLocal

LEMMA NoContentOwes ==
  ASSUME NEW box
  PROVE /\ OwesEvents(NoContent, box)
        /\ NoActor.st = NoContent
        /\ IdleTask.pc = "idle" /\ IdleTask.pc \notin SavePcs
  BY DEF OwesEvents, NoContent, NoActor, IdleTask, SavePcs

LEMMA FailedKeeps ==
  ASSUME NEW t \in Tasks, NEW box, t.pc \in SavePcs
  PROVE KeepsSnap(t, Failed(t), box)
  <1>1. CASE t.job \in {"evict", "drain"}
    <2>1. Failed(t) = [t EXCEPT !.pc = "verify"]
      BY <1>1 DEF Failed
    <2>2. [t EXCEPT !.pc = "verify"].p = t.p /\ [t EXCEPT !.pc = "verify"].snap = t.snap
      BY DEF Tasks
    <2> QED BY <2>1, <2>2 DEF KeepsSnap
  <1>2. CASE t.job \notin {"evict", "drain"}
    BY <1>2, NoContentOwes DEF Failed, KeepsSnap
  <1> QED BY <1>1, <1>2

LEMMA FlushedKeeps ==
  ASSUME NEW t \in Tasks, NEW t1, NEW box
  PROVE KeepsSnap(t1, Flushed(t), box)
  <1>1. Flushed(t).pc \in {"confirm", "next"}
    BY DEF Flushed, Tasks, IdleTask
  <1> QED BY <1>1 DEF KeepsSnap, SavePcs

LEMMA SnapshotKeeps ==
  ASSUME TypeOK, OutboxInv, NEW z \in Zones, NEW t \in Tasks, t.p \in Players, NEW t1
  PROVE KeepsSnap(t1, Snapshot(z, t), outbox[Snapshot(z, t).p])
  <1> DEFINE a == actor[z][t.p]
             s == [t EXCEPT !.pc = "fence", !.snap = a.st, !.exp = a.prev, !.tok = a.ptok]
  <1>1. OwesEvents(a.st, outbox[t.p])
    BY DEF OutboxInv
  <1>2. s.p = t.p /\ s.snap = a.st
    BY DEF Tasks
  <1>3. OwesEvents(s.snap, outbox[s.p])
    BY <1>1, <1>2
  <1> HIDE DEF s
  <1>4. Snapshot(z, t) \in {Flushed(t), IdleTask, s}
    BY DEF Snapshot, s
  <1> QED
    BY <1>3, <1>4, FlushedKeeps, NoContentOwes DEF KeepsSnap

LEMMA MutateOwes ==
  ASSUME TypeOK, NEW z \in Zones, NEW c \in Contents, NEW op \in Ops, NEW box,
         OwesEvents(c, box)
  PROVE OwesEvents(Mutate(c, op, z), box)
  <1>1. /\ Mutate(c, op, z).data = c.data \cup {op}
        /\ Mutate(c, op, z).pend = c.pend \cup ({op} \cap OutboxOps)
    BY DEF Mutate, Contents
  <1> QED BY <1>1 DEF OwesEvents

LEMMA LoadedOwes ==
  ASSUME TypeOK, NEW p \in Players, OwesEvents(row[p].c, outbox[p])
  PROVE OwesEvents(Loaded(p), outbox[p])
  <1>1. row[p].c \in Contents
    BY RowFields
  <1>2. /\ Loaded(p).data = row[p].c.data
        /\ Loaded(p).pend = row[p].c.pend \ Delivered(p)
    BY <1>1 DEF Loaded, Contents
  <1> QED
    BY <1>2 DEF OwesEvents, Delivered

LEMMA EnsureFacts ==
  ASSUME TypeOK, NEW p \in Players, NEW S, Ensure(p, S)
  PROVE \A q \in Players, o \in OutboxOps :
            /\ outbox[q][o] = "delivered" => outbox'[q][o] = "delivered"
            /\ outbox'[q][o] # "none" => \/ outbox[q][o] # "none"
                                         \/ q = p /\ o \in S
  BY DEF TypeOK, Ensure

\* A request goroutine between its start and its flush.
LEMMA RequestOutbox ==
  ASSUME DurableInv, DurableInv', OutboxInv, NEW z \in Zones, NEW k \in Workers,
         RequestStep(z, k) \/ CancelRequest(z, k)
  PROVE OutboxInv'
  <1> DEFINE t == task[z][k]
             a == actor[z][t.p]
  <1>1. TypeOK /\ TypeOK' /\ k \in Threads
    BY WorkersAreThreads DEF DurableInv
  <1>2. t \in Tasks
    BY <1>1, TaskFields
  <1>3. t.pc \notin {"idle", "next"} => /\ t.p \in Players
                                        /\ t.op \in Ops
                                        /\ a \in Actors
                                        /\ OwesEvents(a.st, outbox[t.p])
    BY <1>1, TaskFacts, ActorFields DEF OutboxInv
  <1> HIDE DEF t, a
  <1>4. CASE RequestNotOwner(z, k) \/ MarkDirty(z, k) \/ CancelRequest(z, k)
    <2>1. SetTask(z, k, IdleTask) /\ UNCHANGED <<row, outbox, late, actor>>
      BY <1>4 DEF RequestNotOwner, MarkDirty, CancelRequest, EndTask, store
    <2> QED
      BY <1>1, <2>1, NoContentOwes, OutboxMove DEF KeepsSnap
  <1>5. CASE SettleMarkDirty(z, k)
    <2>1. SetTask(z, k, [t EXCEPT !.pc = "flush"]) /\ UNCHANGED <<row, outbox, late, actor>>
      BY <1>5 DEF SettleMarkDirty, store, t
    <2>2. [t EXCEPT !.pc = "flush"].pc \notin SavePcs
      BY <1>2 DEF Tasks, SavePcs
    <2> QED
      BY <1>1, <2>1, <2>2, OutboxMove DEF KeepsSnap
  <1>6. CASE SettleFlush(z, k)
    <2>1. /\ SetTask(z, k, Snapshot(z, t)) /\ UNCHANGED <<row, outbox, late, actor>>
          /\ t.pc = "flush"
      BY <1>6 DEF SettleFlush, store, t
    <2>2. KeepsSnap(task[z][k], Snapshot(z, t), outbox[Snapshot(z, t).p])
      BY <1>1, <1>2, <1>3, <2>1, SnapshotKeeps
    <2> QED
      BY <1>1, <2>1, <2>2, OutboxMove
  <1>7. CASE SettleInspect(z, k) \/ SettleConfirm(z, k)
    <2>1. PICK t2 : SetTask(z, k, t2) /\ t2.pc \notin SavePcs
      <3>1. [t EXCEPT !.pc = "mark", !.target = a.st.rev, !.mrev = a.marks[t.op]].pc = "mark"
        BY <1>2 DEF Tasks
      <3>2. CASE SetTask(z, k, IdleTask)
        BY <3>2, NoContentOwes
      <3>3. CASE SetTask(z, k, [t EXCEPT !.pc = "mark", !.target = a.st.rev,
                                         !.mrev = a.marks[t.op]])
        BY <3>1, <3>3 DEF SavePcs
      <3> QED
        BY <1>7, <3>2, <3>3 DEF SettleInspect, SettleConfirm, Retire, EndTask, t, a
    <2>2. UNCHANGED <<row, outbox, late>> /\ t.pc \in {"inspect", "confirm"}
      BY <1>7 DEF SettleInspect, SettleConfirm, store, t
    <2>3. UNCHANGED actor \/ SetActor(z, t.p, [a EXCEPT !.marks[t.op] = 0])
      BY <1>7 DEF SettleInspect, SettleConfirm, Retire, t, a
    <2>4. [a EXCEPT !.marks[t.op] = 0].st = a.st
      BY <1>3, <2>2 DEF Actors
    <2>5. \A y \in Zones, p \in Players : actor'[y][p].st = actor[y][p].st
      <3>1. CASE UNCHANGED actor
        BY <3>1
      <3>2. CASE SetActor(z, t.p, [a EXCEPT !.marks[t.op] = 0])
        <4> DEFINE b == [a EXCEPT !.marks[t.op] = 0]
        <4>1. SetActor(z, t.p, b) /\ b.st = actor[z][t.p].st
          BY <3>2, <2>4 DEF a
        <4> HIDE DEF b
        <4> QED BY <1>1, <1>3, <2>2, <4>1, SetActorFacts
      <3> QED BY <2>3, <3>1, <3>2
    <2> QED
      BY <1>1, <2>1, <2>2, <2>5, OutboxMove DEF KeepsSnap
  <1>8. CASE Execute(z, k)
    <2> DEFINE st == Mutate(a.st, t.op, z)
    <2>1. t.pc = "wait" /\ UNCHANGED <<row, outbox, late>>
      BY <1>8 DEF Execute, store, t
    <2>2. a.st \in Contents
      BY <1>3, <2>1 DEF Actors
    <2>3. OwesEvents(st, outbox[t.p])
      BY <1>1, <1>3, <2>1, <2>2, MutateOwes
    <2> HIDE DEF st
    <2>4. /\ [a EXCEPT !.st = st].st = st
          /\ [a EXCEPT !.st = st, !.marks[t.op] = st.rev].st = st
      BY <1>3, <2>1 DEF Actors
    <2>5. PICK t2 : SetTask(z, k, t2) /\ t2.pc \notin SavePcs
      <3>1. /\ [t EXCEPT !.pc = "inspect"].pc = "inspect"
            /\ [t EXCEPT !.pc = "dirty", !.target = st.rev].pc = "dirty"
        BY <1>2 DEF Tasks
      <3>2. CASE SetTask(z, k, IdleTask)
        BY <3>2, NoContentOwes
      <3>3. CASE SetTask(z, k, [t EXCEPT !.pc = "inspect"])
        BY <3>1, <3>3 DEF SavePcs
      <3>4. CASE SetTask(z, k, [t EXCEPT !.pc = "dirty", !.target = st.rev])
        BY <3>1, <3>4 DEF SavePcs
      <3> QED
        BY <1>8, <3>2, <3>3, <3>4 DEF Execute, t, a, st
    <2>6. UNCHANGED actor \/ \E b : SetActor(z, t.p, b) /\ b.st = st
      BY <1>8, <2>4 DEF Execute, t, a, st
    <2>7. \A y \in Zones, p \in Players :
             \/ actor'[y][p].st = actor[y][p].st
             \/ OwesEvents(actor'[y][p].st, outbox[p])
      BY <1>1, <1>3, <2>1, <2>3, <2>6, SetActorFacts
    <2> QED
      BY <1>1, <2>1, <2>5, <2>7, OutboxMove DEF KeepsSnap
  <1> QED
    BY <1>4, <1>5, <1>6, <1>7, <1>8 DEF RequestStep

LEMMA StartRequestOutbox ==
  ASSUME DurableInv, DurableInv', OutboxInv, NEW z \in Zones, NEW k \in Workers,
         NEW p \in Players, NEW op \in Ops, StartRequest(z, k, p, op)
  PROVE OutboxInv'
  <1>1. TypeOK /\ TypeOK' /\ k \in Threads
    BY WorkersAreThreads DEF DurableInv
  <1> DEFINE t2 == [IdleTask EXCEPT !.pc = "wait", !.job = "command",
                                    !.p = p, !.op = op, !.epoch = view[z]]
             a2 == [NoActor EXCEPT !.life = "loading", !.want = view[z]]
  <1>2. t2.pc = "wait" /\ a2.st = NoContent
    BY DEF IdleTask, NoActor
  <1>3. SetTask(z, k, t2) /\ UNCHANGED <<row, outbox, late>>
    BY DEF StartRequest, store
  <1>4. UNCHANGED actor \/ SetActor(z, p, a2)
    BY DEF StartRequest
  <1> HIDE DEF t2, a2
  <1>5. \A y \in Zones, q \in Players :
           \/ actor'[y][q].st = actor[y][q].st
           \/ OwesEvents(actor'[y][q].st, outbox[q])
    BY <1>1, <1>2, <1>4, SetActorFacts, NoContentOwes
  <1> QED
    BY <1>1, <1>2, <1>3, <1>5, OutboxMove DEF KeepsSnap, SavePcs

\* One Actor changes, and no goroutine takes a snapshot.
LEMMA OutboxActor ==
  ASSUME OutboxInv, TypeOK, TypeOK', RowAdvances, NEW z \in Zones, NEW p \in Players, NEW a,
         SetActor(z, p, a), OwesEvents(a.st, outbox[p]),
         \A q \in Players, o \in OutboxOps :
            /\ outbox[q][o] = "delivered" => outbox'[q][o] = "delivered"
            /\ outbox'[q][o] # "none" => \/ outbox[q][o] # "none"
                                         \/ o \in row'[q].c.data,
         \A q \in Players :
            row'[q] = row[q] \/ OwesEvents(row'[q].c, outbox[q]),
         \A y \in Zones, k \in Threads :
            task'[y][k] = task[y][k] \/ task'[y][k].pc \notin SavePcs,
         \A r \in late' : r \in late \/ OwesEvents(r.snap, outbox[r.p])
  PROVE OutboxInv'
  <1>1. \A y \in Zones, q \in Players :
           \/ actor'[y][q].st = actor[y][q].st
           \/ OwesEvents(actor'[y][q].st, outbox[q])
    BY SetActorFacts
  <1>2. \A y \in Zones, j \in Threads, q \in Players :
            Saving(task'[y][j], q) =>
               \/ Saving(task[y][j], q) /\ task'[y][j].snap = task[y][j].snap
               \/ OwesEvents(task'[y][j].snap, outbox[q])
    BY DEF Saving
  <1> QED
    BY <1>1, <1>2, OutboxPreserve

LEMMA ActivationFailedTasks ==
  ASSUME TypeOK, NEW z \in Zones, NEW p \in Players, ActivationFailed(z, p)
  PROVE \A y \in Zones, k \in Threads :
            \/ task'[y][k] = task[y][k]
            \/ task'[y][k] = IdleTask /\ y = z /\ task[y][k].pc = "wait" /\ task[y][k].p = p
  BY DEF ActivationFailed, TypeOK

LEMMA ActivationFailedOutbox ==
  ASSUME DurableInv, DurableInv', OutboxInv, NEW z \in Zones, NEW p \in Players,
         ActivationFailed(z, p), UNCHANGED <<row, late>>,
         \A q \in Players, o \in OutboxOps :
            /\ outbox[q][o] = "delivered" => outbox'[q][o] = "delivered"
            /\ outbox'[q][o] # "none" => \/ outbox[q][o] # "none"
                                         \/ o \in row'[q].c.data
  PROVE OutboxInv'
  <1>1. TypeOK /\ TypeOK' /\ SetActor(z, p, NoActor) /\ RowAdvances
    BY DEF DurableInv, ActivationFailed, RowAdvances
  <1>2. \A y \in Zones, k \in Threads :
            task'[y][k] = task[y][k] \/ task'[y][k].pc \notin SavePcs
    BY <1>1, ActivationFailedTasks, NoContentOwes
  <1> QED
    BY <1>1, <1>2, NoContentOwes, OutboxActor

LEMMA ReadyOwes ==
  ASSUME TypeOK, NEW z \in Zones, NEW p \in Players, NEW c \in Contents, NEW prev, NEW ptok,
         NEW box, OwesEvents(c, box), BecomeReady(z, p, c, prev, ptok)
  PROVE \E a : SetActor(z, p, a) /\ OwesEvents(a.st, box) /\ UNCHANGED task
  <1> DEFINE want == actor[z][p].want
             st == IF c.epoch = want THEN c
                   ELSE [c EXCEPT !.epoch = want, !.rev = @ + 1, !.by = inc[z]]
             a == [NoActor EXCEPT !.life = "ready", !.want = want,
                                  !.st = st, !.prev = prev, !.ptok = ptok]
  <1>1. SetActor(z, p, a) /\ UNCHANGED task
    BY DEF BecomeReady
  <1>2. st.data = c.data /\ st.pend = c.pend
    BY DEF Contents
  <1>3. OwesEvents(st, box)
    BY <1>2 DEF OwesEvents
  <1> HIDE DEF st
  <1>4. a.st = st
    BY DEF NoActor
  <1> HIDE DEF a
  <1> QED
    BY <1>1, <1>3, <1>4

LEMMA InitialOwes ==
  ASSUME TypeOK, NEW z \in Zones, NEW p \in Players, NEW box
  PROVE OwesEvents(InitialContent(z, p), box)
  <1>1. InitialContent(z, p).data = {} /\ InitialContent(z, p).pend = {}
    BY DEF InitialContent, NoContent
  <1> QED BY <1>1 DEF OwesEvents

LEMMA SetLife ==
  ASSUME NEW a \in Actors, NEW l
  PROVE [a EXCEPT !.life = l].st = a.st
  BY DEF Actors

LEMMA ActivationOutbox ==
  ASSUME DurableInv, DurableInv', OutboxInv, RowAdvances, NEW z \in Zones, NEW p \in Players,
         ActivationStep(z, p) \/ ActivationError(z, p)
  PROVE OutboxInv'
  <1> DEFINE a == actor[z][p]
  <1>1. TypeOK /\ TypeOK' /\ a \in Actors /\ row[p].c \in Contents
    BY ActorFields, RowFields DEF DurableInv
  <1>2. OwesEvents(a.st, outbox[p]) /\ OwesEvents(row[p].c, outbox[p])
    BY DEF OutboxInv
  <1>3. \A l : OwesEvents([a EXCEPT !.life = l].st, outbox[p])
    BY <1>1, <1>2, SetLife
  <1> HIDE DEF a
  <1>4. UNCHANGED outbox => \A q \in Players, o \in OutboxOps :
            /\ outbox[q][o] = "delivered" => outbox'[q][o] = "delivered"
            /\ outbox'[q][o] # "none" => \/ outbox[q][o] # "none"
                                         \/ o \in row'[q].c.data
    OBVIOUS
  <1>5. CASE ActivateLoad(z, p)
    <2>1. UNCHANGED <<row, late>>
      BY <1>5 DEF ActivateLoad
    <2>2. CASE UNCHANGED <<outbox, task>> /\ SetActor(z, p, [a EXCEPT !.life = "creating"])
      BY <1>1, <1>3, <1>4, <2>1, <2>2, OutboxActor
    <2>3. CASE Ensure(p, row[p].c.pend) /\ ActivationFailed(z, p)
      <3>1. \A q \in Players, o \in OutboxOps :
            /\ outbox[q][o] = "delivered" => outbox'[q][o] = "delivered"
            /\ outbox'[q][o] # "none" => \/ outbox[q][o] # "none"
                                         \/ o \in row'[q].c.data
        BY <1>1, <1>2, <2>1, <2>3, EnsureFacts DEF OwesEvents
      <3> QED
        BY <2>1, <2>3, <3>1, ActivationFailedOutbox
    <2>4. CASE /\ Ensure(p, row[p].c.pend)
               /\ BecomeReady(z, p, Loaded(p), row[p].c.rev, row[p].ver)
      <3>1. \A q \in Players, o \in OutboxOps :
            /\ outbox[q][o] = "delivered" => outbox'[q][o] = "delivered"
            /\ outbox'[q][o] # "none" => \/ outbox[q][o] # "none"
                                         \/ o \in row'[q].c.data
        BY <1>1, <1>2, <2>1, <2>4, EnsureFacts DEF OwesEvents
      <3>2. PICK b : SetActor(z, p, b) /\ OwesEvents(b.st, outbox[p]) /\ UNCHANGED task
        BY <1>1, <1>2, <2>4, LoadedType, LoadedOwes, ReadyOwes
      <3> QED
        BY <1>1, <2>1, <3>1, <3>2, OutboxActor
    <2> QED
      BY <1>5, <2>2, <2>3, <2>4 DEF ActivateLoad, a
  <1>6. CASE CreateInitialFence(z, p) \/ ActivationError(z, p)
    <2>1. UNCHANGED <<row, outbox, late>>
      BY <1>6 DEF CreateInitialFence, ActivationError, store
    <2>2. CASE ActivationFailed(z, p)
      BY <1>4, <2>1, <2>2, ActivationFailedOutbox
    <2>3. CASE UNCHANGED task /\ SetActor(z, p, [a EXCEPT !.life = "inserting"])
      BY <1>1, <1>3, <1>4, <2>1, <2>3, OutboxActor
    <2> QED
      BY <1>6, <2>2, <2>3 DEF CreateInitialFence, ActivationError, a
  <1>7. CASE CreateInitialInsert(z, p)
    <2> DEFINE r == InsertRequest(z, p)
    <2>1. r \in Requests /\ r.p = p /\ OwesEvents(r.snap, outbox[p])
      BY <1>1, InsertType, InitialOwes DEF InsertRequest
    <2>2. InitialContent(z, p) \in Contents
      BY <1>1, InsertType
    <2> HIDE DEF r
    <2>3. UNCHANGED outbox
      BY <1>7 DEF CreateInitialInsert
    <2>4. CASE /\ Write(r)
               /\ BecomeReady(z, p, InitialContent(z, p), 1, 1)
               /\ UNCHANGED late
      <3>1. PICK b : SetActor(z, p, b) /\ OwesEvents(b.st, outbox[p]) /\ UNCHANGED task
        BY <1>1, <2>2, <2>4, InitialOwes, ReadyOwes
      <3>2. \A q \in Players : row'[q] = row[q] \/ OwesEvents(row'[q].c, outbox[q])
        BY <1>1, <2>1, <2>4 DEF Write, TypeOK
      <3> QED
        BY <1>1, <1>4, <2>3, <2>4, <3>1, <3>2, OutboxActor
    <2>5. CASE /\ UNCHANGED <<row, task>> /\ late' \subseteq late \cup {r}
               /\ SetActor(z, p, [a EXCEPT !.life = "reconciling"])
      BY <1>1, <1>3, <1>4, <2>1, <2>3, <2>5, OutboxActor
    <2> QED
      BY <1>7, <2>4, <2>5 DEF CreateInitialInsert, a, r
  <1>8. CASE ReconcileInitialCheckpoint(z, p)
    <2>1. UNCHANGED <<row, outbox, late>>
      BY <1>8 DEF ReconcileInitialCheckpoint, store
    <2>2. CASE ActivationFailed(z, p)
      BY <1>4, <2>1, <2>2, ActivationFailedOutbox
    <2>3. CASE BecomeReady(z, p, row[p].c, 1, row[p].ver)
      <3>1. PICK b : SetActor(z, p, b) /\ OwesEvents(b.st, outbox[p]) /\ UNCHANGED task
        BY <1>1, <1>2, <2>3, ReadyOwes
      <3> QED
        BY <1>1, <1>4, <2>1, <3>1, OutboxActor
    <2> QED
      BY <1>8, <2>2, <2>3 DEF ReconcileInitialCheckpoint
  <1> QED
    BY <1>5, <1>6, <1>7, <1>8 DEF ActivationStep

\* A goroutine moves with its snapshot while the outbox gains rows.
LEMMA OutboxEnsure ==
  ASSUME OutboxInv, TypeOK, TypeOK', UNCHANGED <<row, late>>,
         NEW z \in Zones, NEW k \in Threads, NEW t, SetTask(z, k, t),
         KeepsSnap(task[z][k], t, outbox[t.p]),
         \A y \in Zones, q \in Players : actor'[y][q].st = actor[y][q].st,
         NEW p \in Players, NEW S, Ensure(p, S), S \subseteq row[p].c.data
  PROVE OutboxInv'
  <1>1. \A y \in Zones, j \in Threads, q \in Players :
            Saving(task'[y][j], q) =>
               \/ Saving(task[y][j], q) /\ task'[y][j].snap = task[y][j].snap
               \/ OwesEvents(task'[y][j].snap, outbox[q])
    BY SetTaskFacts DEF Saving, KeepsSnap
  <1>2. \A q \in Players, o \in OutboxOps :
            /\ outbox[q][o] = "delivered" => outbox'[q][o] = "delivered"
            /\ outbox'[q][o] # "none" => \/ outbox[q][o] # "none"
                                         \/ o \in row'[q].c.data
    BY EnsureFacts
  <1>3. RowAdvances
    BY DEF RowAdvances
  <1> QED
    BY <1>1, <1>2, <1>3, OutboxPreserve

LEMMA SaveOutboxInvariant ==
  ASSUME DurableInv, DurableInv', OutboxInv, RowAdvances, NEW z \in Zones, NEW k \in Threads,
         SaveStep(z, k)
  PROVE OutboxInv'
  <1> DEFINE t == task[z][k]
             a == actor[z][t.p]
  <1>1. TypeOK /\ TypeOK' /\ t \in Tasks
    BY TaskFields DEF DurableInv
  <1>2. t.pc \in SavePcs
    BY DEF SaveStep, SaveFence, SaveUpdate, ReconcileFailedCAS, SaveOutbox,
           CheckpointWasCommitted, Acknowledge, SavePcs
  <1>3. t.p \in Players /\ SaveOK(t, a, row[t.p])
    BY <1>2, TaskFacts DEF SavePcs
  <1>4. /\ OwesEvents(t.snap, outbox[t.p])
        /\ OwesEvents(row[t.p].c, outbox[t.p])
        /\ a \in Actors
    BY <1>1, <1>2, <1>3, ActorFields DEF OutboxInv, Saving
  <1>5. KeepsSnap(t, Failed(t), outbox[Failed(t).p])
    BY <1>1, <1>2, FailedKeeps
  <1>6. \A c : /\ [t EXCEPT !.pc = c].p = t.p /\ [t EXCEPT !.pc = c].snap = t.snap
               /\ \A n : /\ [t EXCEPT !.pc = c, !.newtok = n].p = t.p
                         /\ [t EXCEPT !.pc = c, !.newtok = n].snap = t.snap
    BY <1>1 DEF Tasks
  <1>7. \A c : /\ KeepsSnap(t, [t EXCEPT !.pc = c], outbox[[t EXCEPT !.pc = c].p])
               /\ \A n : KeepsSnap(t, [t EXCEPT !.pc = c, !.newtok = n],
                                   outbox[[t EXCEPT !.pc = c, !.newtok = n].p])
    BY <1>2, <1>6 DEF KeepsSnap
  <1> HIDE DEF t, a
  <1>8. CASE SaveFence(z, k)
    <2>1. PICK t2 : SetTask(z, k, t2) /\ KeepsSnap(t, t2, outbox[t2.p])
      BY <1>5, <1>7, <1>8 DEF SaveFence, t
    <2> QED
      BY <1>1, <1>8, <2>1, OutboxMove DEF SaveFence, store, t
  <1>9. CASE ReconcileFailedCAS(z, k)
    <2>1. PICK t2 : SetTask(z, k, t2) /\ KeepsSnap(t, t2, outbox[t2.p])
      BY <1>5, <1>7, <1>9 DEF ReconcileFailedCAS, t
    <2> QED
      BY <1>1, <1>9, <2>1, OutboxMove DEF ReconcileFailedCAS, store, t
  <1>10. CASE SaveUpdate(z, k)
    <2> DEFINE r == RequestOf(z, t)
    <2>1. PICK t2 : SetTask(z, k, t2) /\ KeepsSnap(t, t2, outbox[t2.p])
      BY <1>5, <1>7, <1>10 DEF SaveUpdate, t
    <2>2. r.p = t.p /\ r.snap = t.snap
      BY DEF RequestOf
    <2>3. UNCHANGED row \/ Write(r)
      BY <1>10 DEF SaveUpdate, t
    <2>4. late' \subseteq late \cup {r}
      BY <1>10 DEF SaveUpdate, t
    <2>5. UNCHANGED <<outbox, actor>>
      BY <1>10 DEF SaveUpdate
    <2> HIDE DEF r
    <2>6. \A q \in Players : row'[q] = row[q] \/ OwesEvents(row'[q].c, outbox[q])
      BY <1>1, <1>3, <1>4, <2>2, <2>3 DEF Write, TypeOK
    <2>7. \A y \in Zones, j \in Threads, q \in Players :
             Saving(task'[y][j], q) =>
                \/ Saving(task[y][j], q) /\ task'[y][j].snap = task[y][j].snap
                \/ OwesEvents(task'[y][j].snap, outbox[q])
      BY <1>1, <2>1, SetTaskFacts DEF Saving, KeepsSnap, t
    <2>8. \A x \in late' : x \in late \/ OwesEvents(x.snap, outbox[x.p])
      BY <1>4, <2>2, <2>4
    <2> QED
      BY <1>1, <2>5, <2>6, <2>7, <2>8, OutboxPreserve
  <1>11. CASE SaveOutbox(z, k)
    <2>1. PICK t2 : SetTask(z, k, t2) /\ KeepsSnap(t, t2, outbox[t2.p])
      BY <1>5, <1>7, <1>11 DEF SaveOutbox, t
    <2>2. PICK S \in SUBSET t.snap.pend : Ensure(t.p, S)
      BY <1>11 DEF SaveOutbox, t
    <2>3. t.snap.data \subseteq row[t.p].c.data
      BY <1>2, <1>3, <1>11 DEF SaveOK, WrittenOK, SaveOutbox, t
    <2>4. S \subseteq row[t.p].c.data
      BY <1>4, <2>3 DEF OwesEvents
    <2>5. UNCHANGED <<row, late, actor>>
      BY <1>11 DEF SaveOutbox
    <2> QED
      BY <1>1, <1>3, <2>1, <2>2, <2>4, <2>5, OutboxEnsure DEF t
  <1>12. CASE CheckpointWasCommitted(z, k)
    <2>1. PICK t2 : SetTask(z, k, t2) /\ KeepsSnap(t, t2, outbox[t2.p])
      BY <1>7, <1>12, NoContentOwes DEF CheckpointWasCommitted, EndTask, KeepsSnap, t
    <2>2. UNCHANGED <<row, late>>
      BY <1>12 DEF CheckpointWasCommitted
    <2>3. UNCHANGED actor \/ SetActor(z, t.p, [a EXCEPT !.life = "ready"])
      BY <1>12 DEF CheckpointWasCommitted, t, a
    <2>4. \A y \in Zones, q \in Players : actor'[y][q].st = actor[y][q].st
      <3> DEFINE b == [a EXCEPT !.life = "ready"]
      <3>1. b.st = actor[z][t.p].st
        BY <1>4, SetLife DEF a
      <3>2. UNCHANGED actor \/ SetActor(z, t.p, b)
        BY <2>3
      <3> HIDE DEF b
      <3> QED BY <1>1, <1>3, <3>1, <3>2, SetActorFacts
    <2>5. CASE UNCHANGED outbox
      BY <1>1, <2>1, <2>2, <2>4, <2>5, OutboxMove DEF t
    <2>6. CASE Ensure(t.p, row[t.p].c.pend)
      <3>1. row[t.p].c.pend \subseteq row[t.p].c.data
        BY <1>4 DEF OwesEvents
      <3> QED
        BY <1>1, <1>3, <2>1, <2>2, <2>4, <2>6, <3>1, OutboxEnsure DEF t
    <2> QED
      BY <1>12, <2>5, <2>6 DEF CheckpointWasCommitted, t
  <1>13. CASE Acknowledge(z, k)
    <2>1. PICK t2 : SetTask(z, k, t2) /\ t2.pc \notin SavePcs
      <3>1. Flushed(t).pc \in {"confirm", "next"}
        BY <1>1 DEF Flushed, Tasks, IdleTask
      <3>2. [IdleTask EXCEPT !.pc = "next", !.job = "drain",
                             !.epoch = t.epoch, !.todo = t.todo].pc = "next"
        BY DEF IdleTask
      <3>3. \/ SetTask(z, k, Flushed(t))
            \/ SetTask(z, k, [IdleTask EXCEPT !.pc = "next", !.job = "drain",
                                              !.epoch = t.epoch, !.todo = t.todo])
            \/ SetTask(z, k, IdleTask)
        BY <1>13 DEF Acknowledge, t
      <3>4. CASE SetTask(z, k, Flushed(t))
        BY <3>1, <3>4 DEF SavePcs
      <3>5. CASE SetTask(z, k, [IdleTask EXCEPT !.pc = "next", !.job = "drain",
                                                !.epoch = t.epoch, !.todo = t.todo])
        BY <3>2, <3>5 DEF SavePcs
      <3>6. CASE SetTask(z, k, IdleTask)
        BY <3>6, NoContentOwes
      <3> QED BY <3>3, <3>4, <3>5, <3>6
    <2>2. AckedActor(a, t).st = a.st
      BY <1>4 DEF AckedActor, Actors
    <2>3. \/ SetActor(z, t.p, NoActor)
          \/ SetActor(z, t.p, AckedActor(a, t))
          \/ UNCHANGED actor
      BY <1>13 DEF Acknowledge, t, a
    <2>4. \A y \in Zones, q \in Players :
             \/ actor'[y][q].st = actor[y][q].st
             \/ OwesEvents(actor'[y][q].st, outbox[q])
      <3>1. AckedActor(a, t).st = actor[z][t.p].st
        BY <2>2 DEF a
      <3> QED
        BY <1>1, <1>3, <2>3, <3>1, SetActorFacts, NoContentOwes
    <2> QED
      BY <1>1, <1>13, <2>1, <2>4, OutboxMove DEF Acknowledge, store, KeepsSnap
  <1> QED
    BY <1>8, <1>9, <1>10, <1>11, <1>12, <1>13 DEF SaveStep

LEMMA FlusherOutbox ==
  ASSUME DurableInv, DurableInv', OutboxInv, NEW z \in Zones,
         FlusherStep(z) \/ StartClose(z)
  PROVE OutboxInv'
  <1> DEFINE k == "flusher"
             t == task[z][k]
             start == [IdleTask EXCEPT !.pc = "next", !.job = "flush",
                                       !.todo = DirtyPlayers(z)]
  <1>1. TypeOK /\ TypeOK' /\ k \in Threads /\ t \in Tasks
    BY WorkersAreThreads, TaskFields DEF DurableInv
  <1>2. start.pc = "next"
    BY DEF IdleTask
  <1>3. UNCHANGED <<row, outbox, late, actor>>
    BY DEF FlusherStep, StartFlush, FlushNext, StartClose, store
  <1> HIDE DEF start
  <1>4. CASE SetTask(z, k, start)
    BY <1>1, <1>2, <1>3, <1>4, OutboxMove DEF KeepsSnap, SavePcs
  <1>5. CASE SetTask(z, k, IdleTask)
    BY <1>1, <1>3, <1>5, NoContentOwes, OutboxMove DEF KeepsSnap
  <1>6. ASSUME NEW p \in t.todo,
               SetTask(z, k, Snapshot(z, [t EXCEPT !.p = p, !.todo = @ \ {p}]))
        PROVE  OutboxInv'
    <2> DEFINE t1 == [t EXCEPT !.p = p, !.todo = @ \ {p}]
    <2>1. t1 \in Tasks /\ t1.p \in Players
      BY <1>1, <1>6 DEF Tasks
    <2> HIDE DEF t1
    <2>2. KeepsSnap(task[z][k], Snapshot(z, t1), outbox[Snapshot(z, t1).p])
      BY <1>1, <2>1, SnapshotKeeps
    <2>3. SetTask(z, k, Snapshot(z, t1))
      BY <1>6 DEF t1
    <2> QED
      BY <1>1, <1>3, <2>2, <2>3, OutboxMove
  <1> QED
    BY <1>4, <1>5, <1>6
       DEF FlusherStep, StartFlush, FlushNext, StartClose, EndTask, start

\* The Zone's Actors are dropped; what its process has sent may still land.
LEMMA DropOutbox ==
  ASSUME DurableInv, DurableInv', OutboxInv, NEW z \in Zones,
         actor' = [actor EXCEPT ![z] = [p \in Players |-> NoActor]],
         UNCHANGED <<row, outbox>>, late' \subseteq late \cup InFlight(z),
         \A y \in Zones, k \in Threads :
            task'[y][k] = task[y][k] \/ task'[y][k].pc \notin SavePcs
  PROVE OutboxInv'
  <1>1. TypeOK /\ TypeOK' /\ RowAdvances
    BY DEF DurableInv, RowAdvances
  <1>2. \A y \in Zones, q \in Players :
           \/ actor'[y][q].st = actor[y][q].st
           \/ OwesEvents(actor'[y][q].st, outbox[q])
    <2>1. \A y \in Zones, q \in Players :
             actor'[y][q] = actor[y][q] \/ actor'[y][q] = NoActor
      BY <1>1 DEF TypeOK
    <2> QED BY <2>1, NoContentOwes
  <1>3. \A y \in Zones, j \in Threads, q \in Players :
            Saving(task'[y][j], q) =>
               \/ Saving(task[y][j], q) /\ task'[y][j].snap = task[y][j].snap
               \/ OwesEvents(task'[y][j].snap, outbox[q])
    BY DEF Saving
  <1>4. ASSUME NEW r \in InFlight(z) PROVE OwesEvents(r.snap, outbox[r.p])
    <2>1. ASSUME NEW x \in Threads, task[z][x].pc = "update", r = RequestOf(z, task[z][x])
          PROVE  OwesEvents(r.snap, outbox[r.p])
      <3>1. task[z][x].p \in Players
        BY <2>1, TaskFacts
      <3>2. OwesEvents(task[z][x].snap, outbox[task[z][x].p])
        BY <2>1, <3>1 DEF OutboxInv, Saving, SavePcs
      <3> QED BY <2>1, <3>2 DEF RequestOf
    <2>2. ASSUME NEW p \in Players, r = InsertRequest(z, p)
          PROVE  OwesEvents(r.snap, outbox[r.p])
      BY <1>1, <2>2, InitialOwes DEF InsertRequest
    <2> QED
      BY <2>1, <2>2 DEF InFlight
  <1>5. \A r \in late' : r \in late \/ OwesEvents(r.snap, outbox[r.p])
    BY <1>4
  <1> QED
    BY <1>1, <1>2, <1>3, <1>5, OutboxPreserve

LEMMA StopOutbox ==
  ASSUME DurableInv, DurableInv', OutboxInv, NEW z \in Zones,
         FinishClose(z) \/ Crash(z) \/ FinishDrain(z)
  PROVE OutboxInv'
  <1>1. TypeOK
    BY DEF DurableInv
  <1>2. \A y \in Zones, k \in Threads :
            task'[y][k] = task[y][k] \/ task'[y][k].pc \notin SavePcs
    <2>1. CASE FinishClose(z)
      BY <2>1 DEF FinishClose
    <2>2. CASE Crash(z)
      BY <1>1, <2>2, NoContentOwes DEF Crash, TypeOK
    <2>3. CASE FinishDrain(z)
      BY <1>1, <2>3, NoContentOwes, WorkersAreThreads, SetTaskFacts, SMTT(30) DEF FinishDrain, EndTask
    <2> QED BY <2>1, <2>2, <2>3
  <1> QED
    BY <1>2, DropOutbox DEF FinishClose, Crash, FinishDrain, store

LEMMA EvictOutbox ==
  ASSUME DurableInv, DurableInv', OutboxInv, NEW z \in Zones, NEW p \in Players,
         StartEvict(z, p)
  PROVE OutboxInv'
  <1> DEFINE a == actor[z][p]
             k == "exclusive"
             t2 == [IdleTask EXCEPT !.pc = "fence", !.job = "evict", !.p = p,
                                    !.snap = a.st, !.exp = a.prev, !.tok = a.ptok]
             b == [a EXCEPT !.life = "evicting"]
  <1>1. TypeOK /\ TypeOK' /\ k \in Threads /\ a \in Actors
    BY WorkersAreThreads, ActorFields DEF DurableInv
  <1>2. OwesEvents(a.st, outbox[p])
    BY DEF OutboxInv
  <1>3. t2.p = p /\ t2.snap = a.st /\ b.st = a.st
    BY <1>1, SetLife DEF IdleTask
  <1>4. UNCHANGED <<row, outbox, late>>
    BY DEF StartEvict, store
  <1>5. \/ SetActor(z, p, b) /\ SetTask(z, k, t2)
        \/ SetActor(z, p, NoActor) /\ UNCHANGED task
    BY DEF StartEvict
  <1> HIDE DEF t2, b, k
  <1>6. CASE SetActor(z, p, b) /\ SetTask(z, k, t2)
    <2>1. KeepsSnap(task[z][k], t2, outbox[t2.p])
      BY <1>2, <1>3 DEF KeepsSnap
    <2>2. \A y \in Zones, q \in Players : actor'[y][q].st = actor[y][q].st
      BY <1>1, <1>3, <1>6, SetActorFacts
    <2> QED
      BY <1>1, <1>4, <1>6, <2>1, <2>2, OutboxMove
  <1>7. CASE SetActor(z, p, NoActor) /\ UNCHANGED task
    <2>1. \A y \in Zones, q \in Players :
             \/ actor'[y][q].st = actor[y][q].st
             \/ OwesEvents(actor'[y][q].st, outbox[q])
      BY <1>1, <1>7, SetActorFacts, NoContentOwes
    <2> QED
      BY <1>1, <1>4, <1>7, <2>1, OutboxLocal
  <1> QED
    BY <1>5, <1>6, <1>7

LEMMA ExclusiveOutbox ==
  ASSUME DurableInv, DurableInv', OutboxInv, NEW z \in Zones,
         StartDrain(z) \/ StartPrepare(z) \/ DrainNext(z) \/ PrepareNext(z)
  PROVE OutboxInv'
  <1> DEFINE k == "exclusive"
             t == task[z][k]
  <1>1. TypeOK /\ TypeOK' /\ k \in Threads /\ t \in Tasks
    BY WorkersAreThreads, TaskFields DEF DurableInv
  <1> HIDE DEF k
  <1>2. UNCHANGED <<row, late, actor>>
    BY DEF StartDrain, StartPrepare, DrainNext, PrepareNext, store
  <1>3. CASE StartDrain(z) \/ StartPrepare(z)
    <2>1. PICK t2 : SetTask(z, k, t2) /\ t2.pc = "next"
      <3>1. \A td, e : [IdleTask EXCEPT !.pc = "next", !.job = "drain",
                                        !.epoch = e, !.todo = td].pc = "next"
        BY DEF IdleTask
      <3>2. \A td, e, pl : [IdleTask EXCEPT !.pc = "next", !.job = "prepare",
                               !.epoch = e, !.plan = pl, !.todo = td].pc = "next"
        BY DEF IdleTask
      <3>3. CASE StartDrain(z)
        <4>1. PICK td, e : SetTask(z, k, [IdleTask EXCEPT !.pc = "next", !.job = "drain",
                                                         !.epoch = e, !.todo = td])
          BY <3>3 DEF StartDrain, k
        <4> QED BY <3>1, <4>1
      <3>4. CASE StartPrepare(z)
        <4>1. PICK td, e, pl :
                 SetTask(z, k, [IdleTask EXCEPT !.pc = "next", !.job = "prepare",
                                    !.epoch = e, !.plan = pl, !.todo = td])
          BY <3>4 DEF StartPrepare, k
        <4> QED BY <3>2, <4>1
      <3> QED BY <1>3, <3>3, <3>4
    <2> QED
      BY <1>1, <1>2, <1>3, <2>1, OutboxMove DEF KeepsSnap, SavePcs, StartDrain,
         StartPrepare, store
  <1>4. CASE DrainNext(z)
    <2>1. PICK t2 : SetTask(z, k, t2) /\ KeepsSnap(t, t2, outbox[t2.p])
      <3>1. PICK p \in t.todo :
              LET a == actor[z][p]
                  rest == [t EXCEPT !.todo = @ \ {p}]
              IN \/ SetTask(z, k, rest)
                 \/ SetTask(z, k, IdleTask)
                 \/ SetTask(z, k, [rest EXCEPT !.pc = "fence", !.p = p,
                              !.snap = a.st, !.exp = a.prev, !.tok = a.ptok])
        BY <1>4 DEF DrainNext, EndTask, k
      <3> DEFINE a == actor[z][p]
                 rest == [t EXCEPT !.todo = @ \ {p}]
                 t2 == [rest EXCEPT !.pc = "fence", !.p = p,
                              !.snap = a.st, !.exp = a.prev, !.tok = a.ptok]
      <3>2. rest.pc = t.pc /\ t.pc = "next" /\ t2.p = p /\ t2.snap = a.st
        BY <1>1, <1>4 DEF Tasks, DrainNext, k
      <3>3. p \in Players
        BY <1>1 DEF Tasks
      <3>4. OwesEvents(a.st, outbox[p])
        BY <3>3 DEF OutboxInv
      <3> HIDE DEF rest, a, t2
      <3>5. SetTask(z, k, rest) \/ SetTask(z, k, IdleTask) \/ SetTask(z, k, t2)
        BY <3>1 DEF rest, a, t2
      <3> QED
        BY <3>2, <3>4, <3>5, NoContentOwes DEF KeepsSnap, SavePcs
    <2> QED
      BY <1>1, <1>2, <1>4, <2>1, OutboxMove DEF DrainNext, store
  <1>5. CASE PrepareNext(z)
    <2>1. CASE SetTask(z, k, IdleTask) /\ UNCHANGED outbox
      BY <1>1, <1>2, <2>1, NoContentOwes, OutboxMove DEF KeepsSnap
    <2>2. ASSUME NEW p \in t.todo,
            Ensure(p, row[p].c.pend),
            LET c == Loaded(p)
                rest == [t EXCEPT !.todo = @ \ {p}]
            IN \/ SetTask(z, k, rest)
               \/ SetTask(z, k, IdleTask)
               \/ SetTask(z, k, [rest EXCEPT !.pc = "fence", !.p = p,
                                    !.snap = [c EXCEPT !.epoch = t.epoch,
                                                       !.rev = @ + 1,
                                                       !.by = inc[z]],
                                    !.exp = c.rev, !.tok = row[p].ver])
          PROVE OutboxInv'
      <3>1. p \in Players
        BY <1>1, <2>2 DEF Tasks
      <3>2. row[p].c \in Contents /\ OwesEvents(row[p].c, outbox[p]) /\ Loaded(p) \in Contents
        BY <1>1, <3>1, RowFields, LoadedType DEF OutboxInv
      <3>3. OwesEvents(Loaded(p), outbox[p])
        BY <1>1, <3>1, <3>2, LoadedOwes
      <3> DEFINE c2 == [Loaded(p) EXCEPT !.epoch = t.epoch, !.rev = @ + 1, !.by = inc[z]]
                 rest == [t EXCEPT !.todo = @ \ {p}]
                 t2 == [rest EXCEPT !.pc = "fence", !.p = p, !.snap = c2,
                                    !.exp = Loaded(p).rev, !.tok = row[p].ver]
      <3>4. c2.data = Loaded(p).data /\ c2.pend = Loaded(p).pend
        BY <3>2 DEF Contents
      <3>5. OwesEvents(c2, outbox[p])
        BY <3>3, <3>4 DEF OwesEvents
      <3> HIDE DEF c2
      <3>6. rest.pc = t.pc /\ t.pc = "next" /\ t2.p = p /\ t2.snap = c2
        BY <1>1, <1>5 DEF Tasks, PrepareNext, k
      <3> HIDE DEF rest, t2
      <3>7. SetTask(z, k, rest) \/ SetTask(z, k, IdleTask) \/ SetTask(z, k, t2)
        BY <2>2 DEF rest, c2, t2
      <3>8. PICK t3 : SetTask(z, k, t3) /\ KeepsSnap(t, t3, outbox[t3.p])
        BY <3>5, <3>6, <3>7, NoContentOwes DEF KeepsSnap, SavePcs
      <3>9. row[p].c.pend \subseteq row[p].c.data
        BY <3>2 DEF OwesEvents
      <3> QED
        BY <1>1, <1>2, <2>2, <3>1, <3>8, <3>9, OutboxEnsure
    <2> QED
      BY <1>5, <2>1, <2>2 DEF PrepareNext, EndTask, k
  <1> QED
    BY <1>3, <1>4, <1>5

LEMMA EnvironmentOutbox ==
  ASSUME DurableInv, DurableInv', OutboxInv, RowAdvances,
         \/ \E z \in Zones : AdvanceFence(z) \/ Authorize(z) \/ Revoke(z) \/ Restart(z)
         \/ UNCHANGED vars
         \/ StoreStep
  PROVE OutboxInv'
  <1>1. TypeOK /\ TypeOK'
    BY DEF DurableInv
  <1>2. UNCHANGED <<actor, task>>
    BY DEF AdvanceFence, Authorize, Revoke, Restart, vars, StoreStep, Land, Relay
  <1>3. CASE UNCHANGED <<row, outbox, late>>
    BY <1>1, <1>2, <1>3, OutboxLocal
  <1>4. ASSUME NEW r \in late, Land(r) PROVE OutboxInv'
    <2>1. r.p \in Players /\ OwesEvents(r.snap, outbox[r.p])
      BY <1>1 DEF TypeOK, Requests, OutboxInv
    <2>2. \A q \in Players : row'[q] = row[q] \/ OwesEvents(row'[q].c, outbox[q])
      BY <1>1, <1>4, <2>1 DEF Land, Write, TypeOK
    <2>3. UNCHANGED outbox /\ late' \subseteq late
      BY <1>4 DEF Land
    <2> QED
      BY <1>1, <1>2, <2>2, <2>3, OutboxPreserve
  <1>5. ASSUME NEW p \in Players, NEW o \in OutboxOps, Relay(p, o) PROVE OutboxInv'
    <2>1. \A q \in Players, x \in OutboxOps :
            /\ outbox[q][x] = "delivered" => outbox'[q][x] = "delivered"
            /\ outbox'[q][x] # "none" => outbox[q][x] # "none"
      BY <1>1, <1>5 DEF Relay, TypeOK
    <2>2. UNCHANGED <<row, late>>
      BY <1>5 DEF Relay
    <2> QED
      BY <1>1, <1>2, <2>1, <2>2, OutboxPreserve
  <1> QED
    BY <1>3, <1>4, <1>5
       DEF AdvanceFence, Authorize, Revoke, Restart, vars, StoreStep, store

LEMMA NextOutbox == DurableInv /\ OutboxInv /\ [Next]_vars => OutboxInv'
  <1> SUFFICES ASSUME DurableInv, OutboxInv, [Next]_vars PROVE OutboxInv'
    OBVIOUS
  <1>1. DurableInv' /\ RowAdvances
    BY NextInv, NextAdvances
  <1>2. CASE UNCHANGED vars \/ StoreStep
    BY <1>1, <1>2, EnvironmentOutbox
  <1>3. ASSUME NEW z \in Zones, ZoneStep(z) PROVE OutboxInv'
    <2>1. CASE \E k \in Workers, p \in Players, op \in Ops : StartRequest(z, k, p, op)
      BY <1>1, <2>1, StartRequestOutbox
    <2>2. CASE \E k \in Workers : RequestStep(z, k) \/ CancelRequest(z, k)
      BY <1>1, <2>2, RequestOutbox
    <2>3. CASE \E p \in Players : ActivationStep(z, p) \/ ActivationError(z, p)
      BY <1>1, <2>3, ActivationOutbox
    <2>4. CASE \E k \in Threads : SaveStep(z, k)
      BY <1>1, <2>4, SaveOutboxInvariant
    <2>5. CASE FlusherStep(z) \/ StartClose(z)
      BY <1>1, <2>5, FlusherOutbox
    <2>6. CASE FinishClose(z) \/ Crash(z) \/ FinishDrain(z)
      BY <1>1, <2>6, StopOutbox
    <2>7. CASE \E p \in Players : StartEvict(z, p)
      BY <1>1, <2>7, EvictOutbox
    <2>8. CASE StartDrain(z) \/ StartPrepare(z) \/ DrainNext(z) \/ PrepareNext(z)
      BY <1>1, <2>8, ExclusiveOutbox
    <2>9. CASE AdvanceFence(z) \/ Authorize(z) \/ Revoke(z) \/ Restart(z)
      BY <1>1, <2>9, EnvironmentOutbox
    <2> QED
      BY <1>3, <2>1, <2>2, <2>3, <2>4, <2>5, <2>6, <2>7, <2>8, <2>9
         DEF ZoneStep, ExclusiveStep
  <1> QED
    BY <1>2, <1>3 DEF Next

LEMMA InitOutbox == Init => OutboxInv
  <1> SUFFICES ASSUME Init PROVE OutboxInv
    OBVIOUS
  <1>1. /\ \A p \in Players : row[p].c = NoContent
        /\ \A p \in Players, o \in OutboxOps : outbox[p][o] = "none"
        /\ \A z \in Zones, p \in Players : actor[z][p] = NoActor
        /\ \A z \in Zones, k \in Threads : task[z][k] = IdleTask
        /\ late = {}
    BY DEF Init
  <1> QED
    BY <1>1, NoContentOwes DEF OutboxInv, Saving

----------------------------------------------------------------------------
(* Write-back and removal.                                                 *)

\* A step that does nothing new to the Actor of p in Zone z: its state stays,
\* what is or will be noted stays so, snapshots are kept or taken anew.
Quiet(z, p) ==
    actor'[z][p].life \in Live =>
        /\ actor[z][p].life \in Live
        /\ actor'[z][p].st = actor[z][p].st
        /\ actor'[z][p].prev = actor[z][p].prev
        /\ dirty'[z][p] >= dirty[z][p]
        /\ \A k \in Workers, rev \in Nat :
              Noting(task[z][k], p, rev) =>
                 Noting(task'[z][k], p, rev) \/ dirty'[z][p] > rev
        /\ \A k \in Threads :
              Saving(task'[z][k], p) /\ task'[z][k].job # "prepare" =>
                 \/ /\ Saving(task[z][k], p)
                    /\ task[z][k].job # "prepare"
                    /\ task'[z][k].snap = task[z][k].snap
                 \/ task'[z][k].snap = actor[z][p].st

LEMMA SnapRev ==
  ASSUME TypeOK, NEW z \in Zones, NEW k \in Threads
  PROVE task[z][k].snap.rev \in Nat
  BY TaskFields DEF Contents

LEMMA QuietKeeps ==
  ASSUME TypeOK, TypeOK', RowAdvances, NEW z \in Zones, NEW p \in Players,
         DirtyOK(z, p), RevisionsTell(z, p), Quiet(z, p)
  PROVE DirtyOK(z, p)' /\ RevisionsTell(z, p)'
  <1> SUFFICES ASSUME actor'[z][p].life \in Live
               PROVE  DirtyOK(z, p)' /\ RevisionsTell(z, p)'
    BY DEF DirtyOK, RevisionsTell
  <1>1. dirty[z][p] \in Nat /\ dirty'[z][p] \in Nat
    BY DEF TypeOK
  <1>2. row[p].c.data \subseteq row'[p].c.data
    BY DEF RowAdvances
  <1>3. Unwritten(z, p)' \subseteq Unwritten(z, p)
    BY <1>2 DEF Unwritten, Quiet
  <1>4. ASSUME NEW rev \in Nat, Noted(z, p, rev) PROVE Noted(z, p, rev)'
    BY <1>1, <1>4 DEF Noted, Quiet
  <1>5. Unwritten(z, p)' # {} => Noted(z, p, 0)'
    BY <1>3, <1>4 DEF DirtyOK, Quiet
  <1>6. ASSUME NEW k \in Threads, Saving(task'[z][k], p), task'[z][k].job # "prepare"
        PROVE  /\ \/ Unwritten(z, p)' \subseteq task'[z][k].snap.data
                  \/ Noted(z, p, task[z][k].snap.rev)'
               /\ task'[z][k].snap.rev = actor'[z][p].st.rev =>
                     actor'[z][p].st.data \subseteq task'[z][k].snap.data
    <2>1. CASE task'[z][k].snap = actor[z][p].st
      BY <1>3, <2>1 DEF Unwritten, Quiet
    <2>2. CASE /\ Saving(task[z][k], p)
               /\ task[z][k].job # "prepare"
               /\ task'[z][k].snap = task[z][k].snap
      <3>1. PICK s : s = task[z][k].snap
        OBVIOUS
      <3>2. s.rev \in Nat /\ task'[z][k].snap = s
        BY <2>2, <3>1, SnapRev
      <3>3. Unwritten(z, p) \subseteq s.data \/ Noted(z, p, s.rev)
        BY <2>2, <3>1 DEF DirtyOK, Quiet
      <3>4. Unwritten(z, p)' \subseteq s.data \/ Noted(z, p, s.rev)'
        BY <1>3, <1>4, <3>2, <3>3
      <3>5. s.rev = actor'[z][p].st.rev => actor'[z][p].st.data \subseteq s.data
        BY <2>2, <3>1 DEF RevisionsTell, Quiet
      <3> QED
        BY <3>2, <3>4, <3>5 DEF Noted
    <2> QED
      BY <1>6, <2>1, <2>2 DEF Quiet
  <1>7. actor'[z][p].st.rev = actor'[z][p].prev =>
           actor'[z][p].st.data \subseteq row'[p].c.data
    BY <1>2 DEF RevisionsTell, Quiet
  <1>8. DirtyOK(z, p)'
    BY <1>5, <1>6 DEF DirtyOK
  <1>9. RevisionsTell(z, p)'
    BY <1>6, <1>7 DEF RevisionsTell
  <1> QED BY <1>8, <1>9

\* Zones that a step does not touch.
LEMMA OtherZones ==
  ASSUME TypeOK, TypeOK', RowAdvances, NEW y \in Zones, WriteBackOK(y),
         task'[y] = task[y], actor'[y] = actor[y], dirty'[y] = dirty[y]
  PROVE WriteBackOK(y)'
  <1>1. ASSUME NEW p \in Players PROVE Quiet(y, p)
    <2>1. dirty[y][p] \in Nat
      BY DEF TypeOK
    <2> QED BY <2>1 DEF Quiet
  <1>2. \A p \in Players : DirtyOK(y, p)' /\ RevisionsTell(y, p)'
    BY <1>1, QuietKeeps DEF WriteBackOK
  <1>3. SavesTheLast(y)' /\ DrainedIsSaved(y)'
    BY DEF WriteBackOK, SavesTheLast, DrainedIsSaved
  <1> QED
    BY <1>2, <1>3 DEF WriteBackOK

\* How a goroutine of Zone z may move: it drops its snapshot, keeps it, or takes
\* the Actor's present state.
TakesSnap(t, t2, acts) ==
    \/ t2.pc \notin SavePcs
    \/ t2.job = "prepare"
    \/ t.pc \in SavePcs /\ t2.p = t.p /\ t2.snap = t.snap /\ t2.job = t.job
    \/ t2.snap = acts[t2.p].st

LEMMA MoveQuiet ==
  ASSUME TypeOK, NEW z \in Zones, NEW k \in Threads, NEW t, SetTask(z, k, t),
         TakesSnap(task[z][k], t, actor[z]), task[z][k].pc # "dirty",
         NEW p \in Players, dirty'[z][p] >= dirty[z][p],
         actor'[z][p].life \in Live =>
            /\ actor[z][p].life \in Live
            /\ actor'[z][p].st = actor[z][p].st
            /\ actor'[z][p].prev = actor[z][p].prev
  PROVE Quiet(z, p)
  <1>1. /\ task'[z][k] = t
        /\ \A j \in Threads : j # k => task'[z][j] = task[z][j]
    BY SetTaskFacts
  <1>2. \A j \in Workers, rev \in Nat :
           Noting(task[z][j], p, rev) => Noting(task'[z][j], p, rev)
    BY <1>1, WorkersAreThreads DEF Noting
  <1>3. \A j \in Threads :
           Saving(task'[z][j], p) /\ task'[z][j].job # "prepare" =>
              \/ /\ Saving(task[z][j], p)
                 /\ task[z][j].job # "prepare"
                 /\ task'[z][j].snap = task[z][j].snap
              \/ task'[z][j].snap = actor[z][p].st
    BY <1>1 DEF Saving, TakesSnap
  <1> QED
    BY <1>2, <1>3 DEF Quiet

\* The holder of the write lock is at rest.
LEMMA ExclusiveRests ==
  ASSUME NEW z \in Zones, task'[z]["exclusive"].pc = "idle"
  PROVE SavesTheLast(z)' /\ DrainedIsSaved(z)'
  BY DEF SavesTheLast, DrainedIsSaved, SavePcs

\* A reader is at work: nobody holds the write lock.
LEMMA ReaderExcludes ==
  ASSUME DurableInv, NEW z \in Zones, NEW k \in Threads, k # "exclusive",
         task[z][k].pc # "idle", k = "flusher" => task[z][k].pc # "next"
  PROVE task[z]["exclusive"].pc = "idle"
  <1>1. k \in Workers \/ k = "flusher"
    BY DEF Threads
  <1> QED
    BY <1>1, TaskFacts DEF LockOK, Reading, Writing

\* A worker, or the flusher, moves; Actors keep their states.
LEMMA ReaderMove ==
  ASSUME DurableInv, DurableInv', WriteBackInv, RowAdvances,
         NEW z \in Zones, NEW k \in Threads, NEW t, SetTask(z, k, t), k # "exclusive",
         TakesSnap(task[z][k], t, actor[z]), task[z][k].pc # "dirty",
         \A y \in Zones : y # z => actor'[y] = actor[y] /\ dirty'[y] = dirty[y],
         \A p \in Players : dirty'[z][p] >= dirty[z][p],
         \A p \in Players : actor'[z][p].life \in Live =>
            /\ actor[z][p].life \in Live
            /\ actor'[z][p].st = actor[z][p].st
            /\ actor'[z][p].prev = actor[z][p].prev,
         actor' = actor \/ task[z]["exclusive"].pc = "idle"
  PROVE WriteBackInv'
  <1>1. TypeOK /\ TypeOK'
    BY DEF DurableInv
  <1>2. \A y \in Zones : y # z => WriteBackOK(y)'
    BY <1>1, SetTaskFacts, OtherZones DEF WriteBackInv
  <1>3. \A p \in Players : DirtyOK(z, p)' /\ RevisionsTell(z, p)'
    BY <1>1, MoveQuiet, QuietKeeps DEF WriteBackInv, WriteBackOK
  <1>4. task'[z]["exclusive"] = task[z]["exclusive"]
    BY <1>1, SetTaskFacts, WorkersAreThreads
  <1>5. SavesTheLast(z)' /\ DrainedIsSaved(z)'
    <2>1. CASE actor' = actor
      BY <1>4, <2>1 DEF WriteBackInv, WriteBackOK, SavesTheLast, DrainedIsSaved
    <2>2. CASE task[z]["exclusive"].pc = "idle"
      BY <1>4, <2>2, ExclusiveRests
    <2> QED BY <2>1, <2>2
  <1> QED
    BY <1>2, <1>3, <1>5 DEF WriteBackInv, WriteBackOK

LEMMA DirtiedFacts ==
  ASSUME TypeOK, NEW z \in Zones, NEW p \in Players, NEW rev \in Nat, Dirtied(z, p, rev)
  PROVE /\ \A y \in Zones : y # z => dirty'[y] = dirty[y]
        /\ \A q \in Players : dirty'[z][q] >= dirty[z][q]
        /\ \A q \in Players : q # p => dirty'[z][q] = dirty[z][q]
        /\ dirty'[z][p] >= rev
  BY DEF TypeOK, Dirtied

LEMMA DirtySame ==
  ASSUME TypeOK, UNCHANGED dirty, NEW z \in Zones
  PROVE \A p \in Players : dirty'[z][p] >= dirty[z][p]
  BY DEF TypeOK

LEMMA MarkDirtyWriteBack ==
  ASSUME DurableInv, DurableInv', WriteBackInv, RowAdvances,
         NEW z \in Zones, NEW k \in Workers, MarkDirty(z, k)
  PROVE WriteBackInv'
  <1>1. TypeOK /\ TypeOK' /\ k \in Threads
    BY WorkersAreThreads DEF DurableInv
  <1>2. PICK p \in Players, rev \in Nat : p = task[z][k].p /\ rev = task[z][k].target
    BY <1>1, TaskFacts, TaskFields DEF MarkDirty
  <1>3. Dirtied(z, p, rev) /\ SetTask(z, k, IdleTask) /\ actor' = actor
    BY <1>2 DEF MarkDirty, EndTask
  <1>4. /\ task'[z][k] = IdleTask
        /\ \A j \in Threads : j # k => task'[z][j] = task[z][j]
        /\ \A y \in Zones : y # z => task'[y] = task[y]
    BY <1>1, <1>3, SetTaskFacts
  <1>5. /\ \A y \in Zones : y # z => dirty'[y] = dirty[y]
        /\ \A q \in Players : dirty'[z][q] >= dirty[z][q]
        /\ dirty'[z][p] >= rev
    BY <1>1, <1>3, DirtiedFacts
  <1>6. \A y \in Zones : y # z => WriteBackOK(y)'
    BY <1>1, <1>3, <1>4, <1>5, OtherZones DEF WriteBackInv
  <1>7. ASSUME NEW q \in Players PROVE Quiet(z, q)
    <2>1. dirty'[z][q] \in Nat
      BY <1>1 DEF TypeOK
    <2>2. \A j \in Workers, n \in Nat :
             Noting(task[z][j], q, n) => Noting(task'[z][j], q, n) \/ dirty'[z][q] > n
      BY <1>2, <1>4, <1>5, <2>1, WorkersAreThreads DEF Noting
    <2>3. \A j \in Threads : Saving(task'[z][j], q) => task'[z][j] = task[z][j]
      BY <1>4, NoContentOwes DEF Saving
    <2> QED
      BY <1>3, <1>5, <2>2, <2>3 DEF Quiet
  <1>8. \A q \in Players : DirtyOK(z, q)' /\ RevisionsTell(z, q)'
    BY <1>1, <1>7, QuietKeeps DEF WriteBackInv, WriteBackOK
  <1>9. SavesTheLast(z)' /\ DrainedIsSaved(z)'
    <2>1. task[z]["exclusive"].pc = "idle"
      BY <1>1, ReaderExcludes, WorkersAreThreads DEF MarkDirty
    <2> QED
      BY <1>4, <2>1, ExclusiveRests, WorkersAreThreads
  <1> QED
    BY <1>6, <1>8, <1>9 DEF WriteBackInv, WriteBackOK

\* A command: its revision is above the persisted one and above that of every
\* snapshot, and an ordinary command is going to be noted with it.
LEMMA ExecuteWriteBack ==
  ASSUME DurableInv, DurableInv', WriteBackInv, RowAdvances,
         NEW z \in Zones, NEW k \in Workers, Execute(z, k)
  PROVE WriteBackInv'
  <1> DEFINE t == task[z][k]
             a == actor[z][t.p]
             st == Mutate(a.st, t.op, z)
             ti == [t EXCEPT !.pc = "inspect"]
             td == [t EXCEPT !.pc = "dirty", !.target = st.rev]
             as == [a EXCEPT !.st = st, !.marks[t.op] = st.rev]
             ac == [a EXCEPT !.st = st]
  <1>1. TypeOK /\ TypeOK' /\ k \in Threads /\ k # "exclusive" /\ k # "flusher"
    BY WorkersAreThreads DEF DurableInv
  <1>2. t \in Tasks /\ t.pc = "wait" /\ t.p \in Players /\ t.op \in Ops
    BY <1>1, TaskFields, TaskFacts DEF Execute
  <1>3. a \in Actors /\ a.life = "ready" /\ ActorOK(a, row[t.p]) /\ a.st \in Contents
    BY <1>1, <1>2, ActorFields DEF DurableInv, Execute
  <1>4. st.rev = a.st.rev + 1 /\ st.data = a.st.data \cup {t.op} /\ a.st.rev \in Nat
    BY <1>3 DEF Mutate, Contents
  <1>5. task[z]["exclusive"].pc = "idle"
    BY <1>1, <1>2, ReaderExcludes
  <1>6. UNCHANGED <<row, dirty>>
    BY DEF Execute, store
  <1>7. /\ ti.pc = "inspect"
        /\ td.pc = "dirty" /\ td.p = t.p /\ td.target = st.rev
    <2> HIDE DEF t, st
    <2> QED BY <1>2 DEF Tasks
  <1>8. /\ as.st = st /\ as.prev = a.prev /\ as.life = a.life
        /\ ac.st = st /\ ac.prev = a.prev /\ ac.life = a.life
    <2> HIDE DEF t, a, st
    <2> QED BY <1>3 DEF Actors
  <1>9. \/ /\ UNCHANGED actor
           /\ SetTask(z, k, ti) \/ SetTask(z, k, IdleTask)
        \/ t.op \in SyncOps /\ SetActor(z, t.p, as) /\ SetTask(z, k, ti)
        \/ t.op \notin SyncOps /\ SetActor(z, t.p, ac) /\ SetTask(z, k, td)
    BY DEF Execute
  <1> HIDE DEF ti, td, as, ac, st
  <1>10. CASE UNCHANGED actor /\ (SetTask(z, k, ti) \/ SetTask(z, k, IdleTask))
    <2>1. PICK t2 : SetTask(z, k, t2) /\ t2.pc \notin SavePcs
      BY <1>7, <1>10, NoContentOwes DEF SavePcs
    <2>2. TakesSnap(task[z][k], t2, actor[z])
      BY <2>1 DEF TakesSnap
    <2> HIDE DEF t, a
    <2> QED
      BY <1>1, <1>2, <1>6, <1>10, <2>1, <2>2, DirtySame, ReaderMove DEF t
  <1>11. ASSUME NEW b, NEW t2, SetActor(z, t.p, b), SetTask(z, k, t2), t2.pc \notin SavePcs,
                b.st = st, b.prev = a.prev, b.life = "ready",
                t.op \notin SyncOps => t2 = td
         PROVE  WriteBackInv'
    <2>1. PICK p \in Players, c \in Contents, n \in Nat :
             p = t.p /\ c = a.st /\ n = a.st.rev
      BY <1>2, <1>3, <1>4
    <2>2. /\ actor'[z][p] = b
          /\ \A q \in Players : q # p => actor'[z][q] = actor[z][q]
          /\ \A y \in Zones : y # z => actor'[y] = actor[y]
      BY <1>1, <1>11, <2>1, SetActorFacts
    <2>3. /\ task'[z][k] = t2
          /\ \A j \in Threads : j # k => task'[z][j] = task[z][j]
          /\ \A y \in Zones : y # z => task'[y] = task[y]
      BY <1>1, <1>11, SetTaskFacts
    <2>4. \A y \in Zones : y # z => WriteBackOK(y)'
      BY <1>1, <1>6, <2>2, <2>3, OtherZones DEF WriteBackInv
    <2>5. SavesTheLast(z)' /\ DrainedIsSaved(z)'
      BY <1>1, <1>5, <2>3, ExclusiveRests, WorkersAreThreads
    <2>6. TakesSnap(task[z][k], t2, actor[z])
      BY <1>11 DEF TakesSnap
    <2>7. ASSUME NEW q \in Players, q # p PROVE DirtyOK(z, q)' /\ RevisionsTell(z, q)'
      <3>1. Quiet(z, q)
        BY <1>1, <1>2, <1>6, <1>11, <2>2, <2>6, <2>7, MoveQuiet, DirtySame
      <3> QED
        BY <1>1, <3>1, QuietKeeps DEF WriteBackInv, WriteBackOK
    <2>8. ASSUME NEW j \in Threads, Saving(task'[z][j], p), task'[z][j].job # "prepare"
          PROVE  /\ task'[z][j] = task[z][j] /\ Saving(task[z][j], p)
                 /\ task[z][j].snap.rev \in Nat /\ task[z][j].snap.rev <= n
      <3>1. task'[z][j] = task[z][j]
        BY <1>11, <2>3, <2>8 DEF Saving
      <3>2. SaveOK(task[z][j], actor[z][p], row[p])
        BY <2>8, <3>1, TaskFacts DEF Saving, SavePcs
      <3>3. task[z][j].snap.rev <= actor[z][p].st.rev
        BY <2>8, <3>1, <3>2 DEF SaveOK, SnapOK, Saving
      <3> QED
        BY <1>1, <2>1, <2>8, <3>1, <3>3, SnapRev
    <2>9. RevisionsTell(z, p)'
      <3>1. b.prev <= n /\ b.prev \in Nat
        BY <1>3, <1>11, <2>1 DEF ActorOK, Live, Actors
      <3>2. b.st.rev = n + 1
        BY <1>4, <1>11, <2>1
      <3>3. b.st.rev # b.prev
        BY <3>1, <3>2
      <3>4. \A j \in Threads : Saving(task'[z][j], p) /\ task'[z][j].job # "prepare" =>
                                  task'[z][j].snap.rev # b.st.rev
        BY <2>8, <3>2
      <3> QED
        BY <2>2, <3>3, <3>4 DEF RevisionsTell
    <2>10. DirtyOK(z, p)'
      <3>1. CASE t.op \notin SyncOps
        <4>1. \A m \in Nat : m <= n => Noted(z, p, m)'
          BY <1>4, <1>7, <1>11, <2>1, <2>3, <3>1 DEF Noted, Noting
        <4> QED
          BY <2>1, <2>8, <4>1 DEF DirtyOK
      <3>2. CASE t.op \in SyncOps
        <4>1. Unwritten(z, p)' = Unwritten(z, p)
          BY <1>4, <1>6, <1>11, <2>1, <2>2, <3>2 DEF Unwritten
        <4>2. ASSUME NEW m, Noted(z, p, m) PROVE Noted(z, p, m)'
          BY <1>2, <1>6, <2>3, <4>2, WorkersAreThreads DEF Noted, Noting
        <4>3. DirtyOK(z, p) /\ actor[z][p].life \in Live
          BY <1>3, <2>1 DEF WriteBackInv, WriteBackOK, Live
        <4>4. Unwritten(z, p)' # {} => Noted(z, p, 0)'
          BY <4>1, <4>2, <4>3 DEF DirtyOK
        <4>5. ASSUME NEW j \in Threads, Saving(task'[z][j], p), task'[z][j].job # "prepare"
              PROVE  \/ Unwritten(z, p)' \subseteq task'[z][j].snap.data
                     \/ Noted(z, p, task[z][j].snap.rev)'
          <5>1. PICK s : s = task[z][j].snap
            OBVIOUS
          <5>2. task'[z][j].snap = s /\ task[z][j].job # "prepare" /\ Saving(task[z][j], p)
            BY <2>8, <4>5, <5>1
          <5>3. Unwritten(z, p) \subseteq s.data \/ Noted(z, p, s.rev)
            BY <4>3, <5>1, <5>2 DEF DirtyOK
          <5>4. Unwritten(z, p)' \subseteq s.data \/ Noted(z, p, s.rev)'
            BY <4>1, <4>2, <5>3
          <5> QED BY <5>2, <5>4 DEF Noted
        <4> QED
          BY <4>4, <4>5 DEF DirtyOK
      <3> QED BY <3>1, <3>2
    <2> QED
      BY <2>4, <2>5, <2>7, <2>9, <2>10 DEF WriteBackInv, WriteBackOK
  <1>12. CASE t.op \in SyncOps /\ SetActor(z, t.p, as) /\ SetTask(z, k, ti)
    <2> HIDE DEF t, a
    <2> QED BY <1>3, <1>7, <1>8, <1>11, <1>12 DEF SavePcs
  <1>13. CASE t.op \notin SyncOps /\ SetActor(z, t.p, ac) /\ SetTask(z, k, td)
    <2> HIDE DEF t, a
    <2> QED BY <1>3, <1>7, <1>8, <1>11, <1>13 DEF SavePcs
  <1> QED
    BY <1>9, <1>10, <1>12, <1>13

LEMMA SnapshotTakes ==
  ASSUME NEW z \in Zones, NEW t \in Tasks, NEW t1
  PROVE TakesSnap(t1, Snapshot(z, t), actor[z])
  <1> DEFINE a == actor[z][t.p]
             s == [t EXCEPT !.pc = "fence", !.snap = a.st, !.exp = a.prev, !.tok = a.ptok]
  <1>1. s.p = t.p /\ s.snap = a.st
    BY DEF Tasks
  <1>2. s.snap = actor[z][s.p].st
    BY <1>1
  <1> HIDE DEF s
  <1>3. Snapshot(z, t) \in {Flushed(t), IdleTask, s}
    BY DEF Snapshot, s
  <1>4. Flushed(t).pc \in {"confirm", "next"}
    BY DEF Flushed, Tasks, IdleTask
  <1> QED
    BY <1>2, <1>3, <1>4, NoContentOwes DEF TakesSnap, SavePcs

LEMMA RequestWriteBack ==
  ASSUME DurableInv, DurableInv', WriteBackInv, RowAdvances,
         NEW z \in Zones, NEW k \in Workers, RequestStep(z, k) \/ CancelRequest(z, k)
  PROVE WriteBackInv'
  <1> DEFINE t == task[z][k]
             a == actor[z][t.p]
  <1>1. TypeOK /\ TypeOK' /\ k \in Threads /\ k # "exclusive" /\ k # "flusher" /\ t \in Tasks
    BY WorkersAreThreads, TaskFields DEF DurableInv
  <1>2. t.pc \notin {"idle", "next"} => t.p \in Players /\ a \in Actors
    BY <1>1, TaskFacts, ActorFields
  <1> HIDE DEF t, a
  <1>3. CASE MarkDirty(z, k)
    BY <1>3, MarkDirtyWriteBack
  <1>4. CASE Execute(z, k)
    BY <1>4, ExecuteWriteBack
  <1>5. CASE RequestNotOwner(z, k) \/ CancelRequest(z, k)
    <2>1. SetTask(z, k, IdleTask) /\ UNCHANGED <<actor, dirty>> /\ t.pc # "dirty"
      BY <1>5 DEF RequestNotOwner, CancelRequest, EndTask, t
    <2>2. TakesSnap(task[z][k], IdleTask, actor[z])
      BY NoContentOwes DEF TakesSnap
    <2> QED
      BY <1>1, <2>1, <2>2, DirtySame, ReaderMove DEF t
  <1>6. CASE SettleMarkDirty(z, k)
    <2>1. /\ SetTask(z, k, [t EXCEPT !.pc = "flush"]) /\ UNCHANGED actor /\ t.pc = "mark"
          /\ Dirtied(z, t.p, t.target)
      BY <1>6 DEF SettleMarkDirty, t
    <2>2. [t EXCEPT !.pc = "flush"].pc \notin SavePcs
      BY <1>1 DEF Tasks, SavePcs
    <2>3. TakesSnap(task[z][k], [t EXCEPT !.pc = "flush"], actor[z])
      BY <2>2 DEF TakesSnap
    <2>4. t.p \in Players /\ t.target \in Nat
      BY <1>1, <1>2, <2>1 DEF Tasks
    <2>5. /\ \A y \in Zones : y # z => dirty'[y] = dirty[y]
          /\ \A q \in Players : dirty'[z][q] >= dirty[z][q]
      BY <1>1, <2>1, <2>4, DirtiedFacts
    <2> QED
      BY <1>1, <2>1, <2>3, <2>5, ReaderMove DEF t
  <1>7. CASE SettleFlush(z, k)
    <2>1. SetTask(z, k, Snapshot(z, t)) /\ UNCHANGED <<actor, dirty>> /\ t.pc = "flush"
      BY <1>7 DEF SettleFlush, t
    <2>2. TakesSnap(task[z][k], Snapshot(z, t), actor[z])
      BY <1>1, SnapshotTakes
    <2> QED
      BY <1>1, <2>1, <2>2, DirtySame, ReaderMove DEF t
  <1>8. CASE SettleInspect(z, k) \/ SettleConfirm(z, k)
    <2>1. PICK t2 : SetTask(z, k, t2) /\ t2.pc \notin SavePcs
      <3>1. [t EXCEPT !.pc = "mark", !.target = a.st.rev, !.mrev = a.marks[t.op]].pc = "mark"
        BY <1>1 DEF Tasks
      <3>2. CASE SetTask(z, k, IdleTask)
        BY <3>2, NoContentOwes
      <3>3. CASE SetTask(z, k, [t EXCEPT !.pc = "mark", !.target = a.st.rev,
                                         !.mrev = a.marks[t.op]])
        BY <3>1, <3>3 DEF SavePcs
      <3> QED
        BY <1>8, <3>2, <3>3 DEF SettleInspect, SettleConfirm, Retire, EndTask, t, a
    <2>2. t.pc \in {"inspect", "confirm"} /\ UNCHANGED dirty
      BY <1>8 DEF SettleInspect, SettleConfirm, t
    <2>3. UNCHANGED actor \/ SetActor(z, t.p, [a EXCEPT !.marks[t.op] = 0])
      BY <1>8 DEF SettleInspect, SettleConfirm, Retire, t, a
    <2> DEFINE b == [a EXCEPT !.marks[t.op] = 0]
    <2>4. b.st = a.st /\ b.prev = a.prev /\ b.life = a.life
      BY <1>2, <2>2 DEF Actors
    <2> HIDE DEF b
    <2>5. /\ \A y \in Zones : y # z => actor'[y] = actor[y]
          /\ \A p \in Players : /\ actor'[z][p].st = actor[z][p].st
                                /\ actor'[z][p].prev = actor[z][p].prev
                                /\ actor'[z][p].life = actor[z][p].life
      <3>1. UNCHANGED actor \/ SetActor(z, t.p, b)
        BY <2>3 DEF b
      <3> QED
        BY <1>1, <1>2, <2>2, <2>4, <3>1, SetActorFacts DEF a
    <2>6. task[z]["exclusive"].pc = "idle"
      BY <1>1, <2>2, ReaderExcludes DEF t
    <2>7. TakesSnap(task[z][k], t2, actor[z])
      BY <2>1 DEF TakesSnap
    <2> QED
      BY <1>1, <2>1, <2>2, <2>5, <2>6, <2>7, DirtySame, ReaderMove DEF t
  <1> QED
    BY <1>3, <1>4, <1>5, <1>6, <1>7, <1>8 DEF RequestStep

LEMMA StartRequestWriteBack ==
  ASSUME DurableInv, DurableInv', WriteBackInv, RowAdvances, NEW z \in Zones,
         NEW k \in Workers, NEW p \in Players, NEW op \in Ops, StartRequest(z, k, p, op)
  PROVE WriteBackInv'
  <1> DEFINE t2 == [IdleTask EXCEPT !.pc = "wait", !.job = "command",
                                    !.p = p, !.op = op, !.epoch = view[z]]
             a2 == [NoActor EXCEPT !.life = "loading", !.want = view[z]]
  <1>1. TypeOK /\ k \in Threads /\ k # "exclusive"
    BY WorkersAreThreads DEF DurableInv
  <1>2. t2.pc = "wait" /\ a2.life = "loading"
    BY DEF IdleTask, NoActor
  <1>3. /\ SetTask(z, k, t2) /\ UNCHANGED dirty /\ task[z][k].pc = "idle"
        /\ task[z]["exclusive"].pc = "idle"
    BY DEF StartRequest, Writing
  <1>4. UNCHANGED actor \/ SetActor(z, p, a2)
    BY DEF StartRequest
  <1> HIDE DEF t2, a2
  <1>5. TakesSnap(task[z][k], t2, actor[z])
    BY <1>2 DEF TakesSnap, SavePcs
  <1>6. /\ \A y \in Zones : y # z => actor'[y] = actor[y]
        /\ \A q \in Players : actor'[z][q].life \in Live => actor'[z][q] = actor[z][q]
    BY <1>1, <1>2, <1>4, SetActorFacts DEF Live
  <1> QED
    BY <1>1, <1>3, <1>5, <1>6, DirtySame, ReaderMove

LEMMA FlusherWriteBack ==
  ASSUME DurableInv, DurableInv', WriteBackInv, RowAdvances, NEW z \in Zones,
         FlusherStep(z) \/ StartClose(z)
  PROVE WriteBackInv'
  <1> DEFINE k == "flusher"
             t == task[z][k]
             start == [IdleTask EXCEPT !.pc = "next", !.job = "flush",
                                       !.todo = DirtyPlayers(z)]
  <1>1. TypeOK /\ k \in Threads /\ t \in Tasks /\ k # "exclusive"
    BY WorkersAreThreads, TaskFields DEF DurableInv
  <1>2. start.pc = "next"
    BY DEF IdleTask
  <1>3. UNCHANGED <<actor, dirty>> /\ t.pc # "dirty"
    BY WorkersAreThreads DEF FlusherStep, StartFlush, FlushNext, StartClose
  <1> HIDE DEF start
  <1>4. PICK t2 : SetTask(z, k, t2) /\ TakesSnap(t, t2, actor[z])
    <2>1. CASE SetTask(z, k, start)
      BY <1>2, <2>1 DEF TakesSnap, SavePcs
    <2>2. CASE SetTask(z, k, IdleTask)
      BY <2>2, NoContentOwes DEF TakesSnap
    <2>3. ASSUME NEW p \in t.todo,
                 SetTask(z, k, Snapshot(z, [t EXCEPT !.p = p, !.todo = @ \ {p}]))
          PROVE  \E t2 : SetTask(z, k, t2) /\ TakesSnap(t, t2, actor[z])
      <3> DEFINE t1 == [t EXCEPT !.p = p, !.todo = @ \ {p}]
      <3>1. t1 \in Tasks
        BY <1>1, <2>3 DEF Tasks
      <3> HIDE DEF t1
      <3>2. TakesSnap(t, Snapshot(z, t1), actor[z])
        BY <3>1, SnapshotTakes
      <3>3. SetTask(z, k, Snapshot(z, t1))
        BY <2>3 DEF t1
      <3> QED BY <3>2, <3>3
    <2> QED
      BY <2>1, <2>2, <2>3
         DEF FlusherStep, StartFlush, FlushNext, StartClose, EndTask, start
  <1> QED
    BY <1>1, <1>3, <1>4, DirtySame, ReaderMove

\* A step of Zone z: other Zones are left alone.
LEMMA ZoneWriteBack ==
  ASSUME DurableInv, DurableInv', WriteBackInv, RowAdvances, NEW z \in Zones,
         \A y \in Zones : y # z =>
            task'[y] = task[y] /\ actor'[y] = actor[y] /\ dirty'[y] = dirty[y],
         \A p \in Players : Quiet(z, p) \/ (DirtyOK(z, p)' /\ RevisionsTell(z, p)'),
         SavesTheLast(z)', DrainedIsSaved(z)'
  PROVE WriteBackInv'
  <1>1. TypeOK /\ TypeOK'
    BY DEF DurableInv
  <1>2. \A y \in Zones : y # z => WriteBackOK(y)'
    BY <1>1, OtherZones DEF WriteBackInv
  <1>3. \A p \in Players : DirtyOK(z, p)' /\ RevisionsTell(z, p)'
    BY <1>1, QuietKeeps DEF WriteBackInv, WriteBackOK
  <1> QED
    BY <1>2, <1>3 DEF WriteBackInv, WriteBackOK

\* A save on behalf of an Actor: the Actor is resident.
LEMMA SavedIsLive ==
  ASSUME DurableInv, NEW z \in Zones, NEW k \in Threads, NEW p \in Players,
         Saving(task[z][k], p), task[z][k].job # "prepare"
  PROVE actor[z][p].life \in Live /\ SnapOK(task[z][k], actor[z][p], row[p])
  BY TaskFacts DEF Saving, SaveOK, SnapOK, SavePcs

\* An Actor that is being activated moves on, becomes resident with what the
\* row has, or is removed.
LEMMA ActivationMoved ==
  ASSUME DurableInv, DurableInv', WriteBackInv, RowAdvances,
         NEW z \in Zones, NEW p \in Players, NEW a2,
         SetActor(z, p, a2), actor[z][p].life \notin Live, actor[z][p].life # "absent",
         a2.life \in Live => UNCHANGED task /\ a2.st.data \subseteq row'[p].c.data,
         \A y \in Zones : y # z => task'[y] = task[y] /\ dirty'[y] = dirty[y],
         \A q \in Players : q # p => dirty'[z][q] = dirty[z][q],
         \A k \in Threads : \/ task'[z][k] = task[z][k]
                            \/ task'[z][k] = IdleTask /\ task[z][k].pc = "wait"
  PROVE WriteBackInv'
  <1>1. TypeOK /\ "exclusive" \in Threads
    BY WorkersAreThreads DEF DurableInv
  <1>2. /\ actor'[z][p] = a2
        /\ \A q \in Players : q # p => actor'[z][q] = actor[z][q]
        /\ \A y \in Zones : y # z => actor'[y] = actor[y]
    BY <1>1, SetActorFacts
  <1>3. task'[z]["exclusive"] = task[z]["exclusive"]
    <2>1. task[z]["exclusive"].pc # "wait"
      BY <1>1, TaskFacts, WorkersAreThreads DEF ShapeOK, SavePcs
    <2> QED BY <1>1, <2>1
  <1>4. \A k \in Threads : Saving(task[z][k], p) => task[z][k].job = "prepare"
    BY SavedIsLive
  <1>5. ASSUME NEW q \in Players, q # p PROVE Quiet(z, q)
    <2>1. dirty[z][q] \in Nat
      BY <1>1 DEF TypeOK
    <2>2. \A j \in Workers, n \in Nat :
             Noting(task[z][j], q, n) => Noting(task'[z][j], q, n)
      BY WorkersAreThreads DEF Noting
    <2>3. \A j \in Threads : Saving(task'[z][j], q) => task'[z][j] = task[z][j]
      BY NoContentOwes DEF Saving
    <2> QED
      BY <1>2, <1>5, <2>1, <2>2, <2>3 DEF Quiet
  <1>6. Quiet(z, p) \/ (DirtyOK(z, p)' /\ RevisionsTell(z, p)')
    <2>1. CASE a2.life \notin Live
      <3>1. ~(actor'[z][p].life \in Live)
        BY <1>2, <2>1
      <3> QED BY <3>1 DEF Quiet
    <2>2. CASE a2.life \in Live
      <3>1. UNCHANGED task /\ Unwritten(z, p)' = {}
        BY <1>2, <2>2 DEF Unwritten
      <3>2. DirtyOK(z, p)'
        BY <3>1 DEF DirtyOK
      <3>3. RevisionsTell(z, p)'
        BY <1>2, <1>4, <2>2, <3>1 DEF RevisionsTell
      <3> QED BY <3>2, <3>3
    <2> QED BY <2>1, <2>2
  <1>7. SavesTheLast(z)'
    <2> SUFFICES ASSUME task[z]["exclusive"].pc \in SavePcs,
                        task[z]["exclusive"].job # "prepare"
                 PROVE  task'[z]["exclusive"].snap.rev
                           = actor'[z][task'[z]["exclusive"].p].st.rev
      BY <1>3 DEF SavesTheLast
    <2>1. PICK q \in Players : q = task[z]["exclusive"].p
      BY <1>1, TaskFacts DEF SavePcs
    <2>2. q # p
      BY <1>1, <1>4, <2>1 DEF Saving
    <2>3. task[z]["exclusive"].snap.rev = actor[z][q].st.rev
      BY <2>1 DEF WriteBackInv, WriteBackOK, SavesTheLast
    <2> QED
      BY <1>2, <1>3, <2>1, <2>2, <2>3
  <1>8. DrainedIsSaved(z)'
    <2> SUFFICES ASSUME task[z]["exclusive"].pc # "idle",
                        task[z]["exclusive"].job = "drain",
                        NEW q \in Players, q \notin task[z]["exclusive"].todo
                 PROVE  \/ Saving(task[z]["exclusive"], q)
                        \/ actor'[z][q].life = "absent"
                        \/ actor'[z][q].life = "ready" /\ actor'[z][q].st.rev = actor'[z][q].prev
      BY <1>3 DEF DrainedIsSaved
    <2>1. \/ Saving(task[z]["exclusive"], q)
          \/ actor[z][q].life = "absent"
          \/ actor[z][q].life = "ready" /\ actor[z][q].st.rev = actor[z][q].prev
      BY DEF WriteBackInv, WriteBackOK, DrainedIsSaved
    <2>2. CASE q = p
      BY <1>1, <1>4, <2>1, <2>2 DEF Live
    <2>3. CASE q # p
      BY <1>2, <2>1, <2>3
    <2> QED BY <2>2, <2>3
  <1>9. \A q \in Players : Quiet(z, q) \/ (DirtyOK(z, q)' /\ RevisionsTell(z, q)')
    BY <1>5, <1>6
  <1>10. \A y \in Zones : y # z =>
            task'[y] = task[y] /\ actor'[y] = actor[y] /\ dirty'[y] = dirty[y]
    BY <1>2
  <1> QED
    BY <1>7, <1>8, <1>9, <1>10, ZoneWriteBack

LEMMA ReadyWriteBack ==
  ASSUME DurableInv, DurableInv', WriteBackInv, RowAdvances,
         NEW z \in Zones, NEW p \in Players, NEW c \in Contents, NEW prev, NEW ptok,
         BecomeReady(z, p, c, prev, ptok), c.data \subseteq row'[p].c.data,
         actor[z][p].life \notin Live, actor[z][p].life # "absent"
  PROVE WriteBackInv'
  <1> DEFINE want == actor[z][p].want
             st == IF c.epoch = want THEN c
                   ELSE [c EXCEPT !.epoch = want, !.rev = @ + 1, !.by = inc[z]]
             a == [NoActor EXCEPT !.life = "ready", !.want = want,
                                  !.st = st, !.prev = prev, !.ptok = ptok]
  <1>1. TypeOK
    BY DEF DurableInv
  <1>2. SetActor(z, p, a) /\ UNCHANGED task
    BY DEF BecomeReady
  <1>3. st.data = c.data
    BY DEF Contents
  <1>4. \/ UNCHANGED dirty
        \/ \E n : Dirtied(z, p, n)
    BY DEF BecomeReady
  <1> HIDE DEF st
  <1>5. a.st = st
    BY DEF NoActor
  <1> HIDE DEF a
  <1>6. /\ \A y \in Zones : y # z => dirty'[y] = dirty[y]
        /\ \A q \in Players : q # p => dirty'[z][q] = dirty[z][q]
    BY <1>1, <1>4 DEF Dirtied, TypeOK
  <1> QED
    BY <1>2, <1>3, <1>5, <1>6, ActivationMoved

LEMMA FailedWriteBack ==
  ASSUME DurableInv, DurableInv', WriteBackInv, RowAdvances,
         NEW z \in Zones, NEW p \in Players, ActivationFailed(z, p),
         actor[z][p].life \notin Live, actor[z][p].life # "absent"
  PROVE WriteBackInv'
  <1>1. TypeOK /\ SetActor(z, p, NoActor)
    BY DEF DurableInv, ActivationFailed
  <1>2. NoActor.life \notin Live
    BY DEF NoActor, Live
  <1>3. \A y \in Zones : y # z => task'[y] = task[y] /\ dirty'[y] = dirty[y]
    BY <1>1 DEF ActivationFailed, TypeOK
  <1>4. \A q \in Players : q # p => dirty'[z][q] = dirty[z][q]
    BY <1>1 DEF ActivationFailed, TypeOK
  <1>5. \A k \in Threads : \/ task'[z][k] = task[z][k]
                           \/ task'[z][k] = IdleTask /\ task[z][k].pc = "wait"
    BY <1>1, ActivationFailedTasks
  <1> QED
    BY <1>1, <1>2, <1>3, <1>4, <1>5, ActivationMoved

LEMMA ActivationWriteBack ==
  ASSUME DurableInv, DurableInv', WriteBackInv, RowAdvances,
         NEW z \in Zones, NEW p \in Players,
         ActivationStep(z, p) \/ ActivationError(z, p)
  PROVE WriteBackInv'
  <1> DEFINE a == actor[z][p]
  <1>1. TypeOK /\ TypeOK' /\ a \in Actors /\ row[p].c \in Contents
    BY ActorFields, RowFields DEF DurableInv
  <1>2. actor[z][p].life \notin Live /\ actor[z][p].life # "absent"
    BY DEF ActivationStep, ActivateLoad, CreateInitialFence, CreateInitialInsert,
           ReconcileInitialCheckpoint, ActivationError, Live
  <1>3. \A l : [a EXCEPT !.life = l].life = l
    BY <1>1 DEF Actors
  <1> HIDE DEF a
  <1>4. CASE ActivationFailed(z, p)
    BY <1>2, <1>4, FailedWriteBack
  <1>5. ASSUME NEW l, l \notin Live, SetActor(z, p, [a EXCEPT !.life = l]),
               UNCHANGED <<dirty, task>>
        PROVE  WriteBackInv'
    BY <1>2, <1>3, <1>5, ActivationMoved
  <1>6. CASE ActivateLoad(z, p)
    <2>1. CASE UNCHANGED <<dirty, task>> /\ SetActor(z, p, [a EXCEPT !.life = "creating"])
      BY <1>5, <2>1 DEF Live
    <2>2. CASE BecomeReady(z, p, Loaded(p), row[p].c.rev, row[p].ver)
      <3>1. UNCHANGED row
        BY <1>6 DEF ActivateLoad
      <3>2. Loaded(p) \in Contents /\ Loaded(p).data = row[p].c.data
        BY <1>1, LoadedType DEF Loaded, Contents
      <3> QED
        BY <1>2, <2>2, <3>1, <3>2, ReadyWriteBack
    <2> QED
      BY <1>4, <1>6, <2>1, <2>2 DEF ActivateLoad, a
  <1>7. CASE CreateInitialFence(z, p) \/ ActivationError(z, p)
    <2>1. CASE UNCHANGED <<dirty, task>> /\ SetActor(z, p, [a EXCEPT !.life = "inserting"])
      BY <1>5, <2>1 DEF Live
    <2> QED
      BY <1>4, <1>7, <2>1 DEF CreateInitialFence, ActivationError, a
  <1>8. CASE CreateInitialInsert(z, p)
    <2>1. CASE BecomeReady(z, p, InitialContent(z, p), 1, 1)
      <3>1. InitialContent(z, p) \in Contents /\ InitialContent(z, p).data = {}
        BY InitialFacts
      <3> QED
        BY <1>2, <2>1, <3>1, ReadyWriteBack
    <2>2. CASE UNCHANGED <<dirty, task>> /\ SetActor(z, p, [a EXCEPT !.life = "reconciling"])
      BY <1>5, <2>2 DEF Live
    <2> QED
      BY <1>8, <2>1, <2>2 DEF CreateInitialInsert, a
  <1>9. CASE ReconcileInitialCheckpoint(z, p)
    <2>1. CASE BecomeReady(z, p, row[p].c, 1, row[p].ver)
      <3>1. UNCHANGED row
        BY <1>9 DEF ReconcileInitialCheckpoint, store
      <3> QED
        BY <1>1, <1>2, <2>1, <3>1, ReadyWriteBack
    <2> QED
      BY <1>4, <1>9, <2>1 DEF ReconcileInitialCheckpoint
  <1> QED
    BY <1>6, <1>7, <1>8, <1>9 DEF ActivationStep

\* The holder of the write lock moves; Actors keep their states.
LEMMA ExclusiveMove ==
  ASSUME DurableInv, DurableInv', WriteBackInv, RowAdvances,
         NEW z \in Zones, NEW t, SetTask(z, "exclusive", t),
         TakesSnap(task[z]["exclusive"], t, actor[z]),
         \A y \in Zones : y # z => actor'[y] = actor[y] /\ dirty'[y] = dirty[y],
         \A p \in Players : dirty'[z][p] >= dirty[z][p],
         \A p \in Players : actor'[z][p].life \in Live =>
            /\ actor[z][p].life \in Live
            /\ actor'[z][p].st = actor[z][p].st
            /\ actor'[z][p].prev = actor[z][p].prev,
         SavesTheLast(z)', DrainedIsSaved(z)'
  PROVE WriteBackInv'
  <1>1. TypeOK /\ "exclusive" \in Threads
    BY WorkersAreThreads DEF DurableInv
  <1>2. task[z]["exclusive"].pc # "dirty"
    BY <1>1, TaskFacts, WorkersAreThreads DEF ShapeOK, SavePcs
  <1>3. \A p \in Players : Quiet(z, p)
    BY <1>1, <1>2, MoveQuiet
  <1>4. \A y \in Zones : y # z =>
            task'[y] = task[y] /\ actor'[y] = actor[y] /\ dirty'[y] = dirty[y]
    BY <1>1, SetTaskFacts
  <1> QED
    BY <1>3, <1>4, ZoneWriteBack

LEMMA StartEvictWriteBack ==
  ASSUME DurableInv, DurableInv', WriteBackInv, RowAdvances,
         NEW z \in Zones, NEW p \in Players, StartEvict(z, p)
  PROVE WriteBackInv'
  <1> DEFINE a == actor[z][p]
             k == "exclusive"
             t2 == [IdleTask EXCEPT !.pc = "fence", !.job = "evict", !.p = p,
                                    !.snap = a.st, !.exp = a.prev, !.tok = a.ptok]
             b == [a EXCEPT !.life = "evicting"]
  <1>1. TypeOK /\ k \in Threads /\ a \in Actors /\ a.life = "ready" /\ task[z][k].pc = "idle"
    BY WorkersAreThreads, ActorFields DEF DurableInv, StartEvict, Excluded, Writing
  <1>2. t2.p = p /\ t2.snap = a.st /\ t2.job = "evict" /\ b.st = a.st /\ b.prev = a.prev
    BY <1>1 DEF IdleTask, Actors
  <1>3. \/ SetActor(z, p, b) /\ SetTask(z, k, t2) /\ UNCHANGED dirty
        \/ /\ SetActor(z, p, NoActor) /\ UNCHANGED task
           /\ dirty' = [dirty EXCEPT ![z][p] = 0]
    BY DEF StartEvict
  <1> HIDE DEF t2, b
  <1>4. CASE SetActor(z, p, b) /\ SetTask(z, k, t2) /\ UNCHANGED dirty
    <2>1. /\ actor'[z][p] = b
          /\ \A q \in Players : q # p => actor'[z][q] = actor[z][q]
          /\ \A y \in Zones : y # z => actor'[y] = actor[y]
      BY <1>1, <1>4, SetActorFacts
    <2>2. task'[z][k] = t2
      BY <1>1, <1>4, SetTaskFacts
    <2>3. SavesTheLast(z)'
      BY <1>2, <2>1, <2>2 DEF SavesTheLast
    <2>4. DrainedIsSaved(z)'
      BY <1>2, <2>2 DEF DrainedIsSaved
    <2>5. TakesSnap(task[z][k], t2, actor[z])
      BY <1>2 DEF TakesSnap
    <2>6. \A q \in Players : actor'[z][q].life \in Live =>
            /\ actor[z][q].life \in Live
            /\ actor'[z][q].st = actor[z][q].st
            /\ actor'[z][q].prev = actor[z][q].prev
      BY <1>1, <1>2, <2>1 DEF Live
    <2> QED
      BY <1>1, <1>4, <2>1, <2>3, <2>4, <2>5, <2>6, DirtySame, ExclusiveMove
  <1>5. CASE /\ SetActor(z, p, NoActor) /\ UNCHANGED task
             /\ dirty' = [dirty EXCEPT ![z][p] = 0]
    <2>1. /\ actor'[z][p] = NoActor
          /\ \A q \in Players : q # p => actor'[z][q] = actor[z][q]
          /\ \A y \in Zones : y # z => actor'[y] = actor[y]
      BY <1>1, <1>5, SetActorFacts
    <2>2. /\ \A q \in Players : q # p => dirty'[z][q] = dirty[z][q] /\ dirty[z][q] \in Nat
          /\ \A y \in Zones : y # z => dirty'[y] = dirty[y]
      BY <1>1, <1>5 DEF TypeOK
    <2>3. ASSUME NEW q \in Players PROVE Quiet(z, q)
      <3>1. CASE q = p
        BY <2>1, <3>1 DEF Quiet, NoActor, Live
      <3>2. CASE q # p
        BY <1>5, <2>1, <2>2, <3>2 DEF Quiet
      <3> QED BY <3>1, <3>2
    <2>4. SavesTheLast(z)' /\ DrainedIsSaved(z)'
      BY <1>1, <1>5, ExclusiveRests
    <2> QED
      BY <1>5, <2>1, <2>2, <2>3, <2>4, ZoneWriteBack
  <1> QED
    BY <1>3, <1>4, <1>5

LEMMA StartExclusiveWriteBack ==
  ASSUME DurableInv, DurableInv', WriteBackInv, RowAdvances, NEW z \in Zones,
         StartDrain(z) \/ StartPrepare(z)
  PROVE WriteBackInv'
  <1>1. TypeOK /\ "exclusive" \in Threads
    BY WorkersAreThreads DEF DurableInv
  <1>2. UNCHANGED <<actor, dirty>>
    BY DEF StartDrain, StartPrepare
  <1>3. PICK t2 : /\ SetTask(z, "exclusive", t2) /\ t2.pc = "next"
                  /\ t2.job = "drain" =>
                        \A p \in Players \ t2.todo : actor[z][p].life = "absent"
    <2>1. CASE StartDrain(z)
      <3>1. PICK td, e :
               /\ SetTask(z, "exclusive", [IdleTask EXCEPT !.pc = "next", !.job = "drain",
                                                           !.epoch = e, !.todo = td])
               /\ td = {p \in Players : actor[z][p].life # "absent"}
        BY <2>1 DEF StartDrain
      <3> DEFINE t2 == [IdleTask EXCEPT !.pc = "next", !.job = "drain",
                                        !.epoch = e, !.todo = td]
      <3>2. t2.pc = "next" /\ t2.todo = td
        BY DEF IdleTask
      <3> HIDE DEF t2
      <3>3. SetTask(z, "exclusive", t2)
        BY <3>1 DEF t2
      <3> QED BY <3>1, <3>2, <3>3
    <2>2. CASE StartPrepare(z)
      <3>1. PICK td, e, pl :
               SetTask(z, "exclusive", [IdleTask EXCEPT !.pc = "next", !.job = "prepare",
                                            !.epoch = e, !.plan = pl, !.todo = td])
        BY <2>2 DEF StartPrepare
      <3> DEFINE t2 == [IdleTask EXCEPT !.pc = "next", !.job = "prepare",
                                        !.epoch = e, !.plan = pl, !.todo = td]
      <3>2. t2.pc = "next" /\ t2.job = "prepare"
        BY DEF IdleTask
      <3> HIDE DEF t2
      <3>3. SetTask(z, "exclusive", t2)
        BY <3>1 DEF t2
      <3> QED BY <3>2, <3>3
    <2> QED BY <2>1, <2>2
  <1>4. task'[z]["exclusive"] = t2
    BY <1>1, <1>3, SetTaskFacts
  <1>5. SavesTheLast(z)'
    BY <1>3, <1>4 DEF SavesTheLast, SavePcs
  <1>6. DrainedIsSaved(z)'
    BY <1>2, <1>3, <1>4 DEF DrainedIsSaved
  <1>7. TakesSnap(task[z]["exclusive"], t2, actor[z])
    BY <1>3 DEF TakesSnap, SavePcs
  <1> QED
    BY <1>1, <1>2, <1>3, <1>5, <1>6, <1>7, DirtySame, ExclusiveMove

LEMMA EnvironmentWriteBack ==
  ASSUME DurableInv, DurableInv', WriteBackInv, RowAdvances,
         UNCHANGED <<task, actor, dirty>>
  PROVE WriteBackInv'
  BY OtherZones DEF DurableInv, WriteBackInv

\* The Actors of the Zone are dropped.
LEMMA StopWriteBack ==
  ASSUME DurableInv, DurableInv', WriteBackInv, RowAdvances, NEW z \in Zones,
         FinishClose(z) \/ Crash(z) \/ FinishDrain(z)
  PROVE WriteBackInv'
  <1>1. TypeOK /\ "exclusive" \in Threads
    BY WorkersAreThreads DEF DurableInv
  <1>2. /\ actor' = [actor EXCEPT ![z] = [p \in Players |-> NoActor]]
        /\ dirty' = [dirty EXCEPT ![z] = [p \in Players |-> 0]]
    BY DEF FinishClose, Crash, FinishDrain
  <1>3. /\ \A p \in Players : actor'[z][p] = NoActor
        /\ \A y \in Zones : y # z => actor'[y] = actor[y] /\ dirty'[y] = dirty[y]
    BY <1>1, <1>2 DEF TypeOK
  <1>4. \A p \in Players : Quiet(z, p)
    BY <1>3 DEF Quiet, NoActor, Live
  <1>5. /\ task'[z]["exclusive"].pc = "idle"
        /\ \A y \in Zones : y # z => task'[y] = task[y]
    <2>1. CASE FinishClose(z)
      BY <1>1, <2>1, TaskFacts DEF FinishClose, LockOK
    <2>2. CASE Crash(z)
      BY <1>1, <2>2, NoContentOwes DEF Crash, TypeOK
    <2>3. CASE FinishDrain(z)
      <3>1. SetTask(z, "exclusive", IdleTask)
        BY <2>3 DEF FinishDrain, EndTask
      <3> QED
        BY <1>1, <3>1, NoContentOwes, SetTaskFacts
    <2> QED BY <2>1, <2>2, <2>3
  <1> QED
    BY <1>3, <1>4, <1>5, ExclusiveRests, ZoneWriteBack

\* One player of a drain is absent, saved already, or going to be saved.
LEMMA DrainNextWriteBack ==
  ASSUME DurableInv, DurableInv', WriteBackInv, RowAdvances, NEW z \in Zones,
         DrainNext(z)
  PROVE WriteBackInv'
  <1> DEFINE t == task[z]["exclusive"]
  <1>1. TypeOK /\ "exclusive" \in Threads /\ t \in Tasks /\ t.pc = "next" /\ t.job = "drain"
    BY WorkersAreThreads, TaskFields DEF DurableInv, DrainNext
  <1>2. UNCHANGED actor
    BY DEF DrainNext
  <1>3. PICK p \in t.todo :
          LET a == actor[z][p]
              rest == [t EXCEPT !.todo = @ \ {p}]
          IN \/ /\ a.life = "absent" \/ (a.life = "ready" /\ ~Unsaved(a))
                /\ SetTask(z, "exclusive", rest)
                /\ UNCHANGED dirty
             \/ SetTask(z, "exclusive", IdleTask) /\ UNCHANGED dirty
             \/ /\ a.life = "ready"
                /\ SetTask(z, "exclusive", [rest EXCEPT !.pc = "fence", !.p = p,
                              !.snap = a.st, !.exp = a.prev, !.tok = a.ptok])
                /\ Dirtied(z, p, a.st.rev)
    BY DEF DrainNext, EndTask
  <1> DEFINE a == actor[z][p]
             rest == [t EXCEPT !.todo = @ \ {p}]
             t2 == [rest EXCEPT !.pc = "fence", !.p = p,
                          !.snap = a.st, !.exp = a.prev, !.tok = a.ptok]
  <1>4. /\ rest.pc = t.pc /\ rest.job = t.job /\ rest.todo = t.todo \ {p}
        /\ t2.pc = "fence" /\ t2.p = p /\ t2.snap = a.st /\ t2.todo = t.todo \ {p}
    BY <1>1 DEF Tasks
  <1>5. p \in Players /\ a \in Actors /\ a.st.rev \in Nat /\ a.prev \in Nat
        /\ ActorOK(a, row[p])
    <2>1. p \in Players
      BY <1>1 DEF Tasks
    <2> QED
      BY <1>1, <2>1, ActorFields DEF Actors, Contents, DurableInv
  <1>6. \A q \in Players \ t.todo :
            \/ actor[z][q].life = "absent"
            \/ actor[z][q].life = "ready" /\ actor[z][q].st.rev = actor[z][q].prev
    BY <1>1 DEF WriteBackInv, WriteBackOK, DrainedIsSaved, Saving, SavePcs
  <1> HIDE DEF t, a, rest, t2
  <1>7. CASE /\ a.life = "absent" \/ (a.life = "ready" /\ ~Unsaved(a))
             /\ SetTask(z, "exclusive", rest)
             /\ UNCHANGED dirty
    <2>1. task'[z]["exclusive"] = rest
      BY <1>1, <1>7, SetTaskFacts
    <2>2. SavesTheLast(z)'
      BY <1>1, <1>4, <2>1 DEF SavesTheLast, SavePcs
    <2>3. a.life = "absent" \/ (a.life = "ready" /\ a.st.rev = a.prev)
      BY <1>5, <1>7 DEF Unsaved, ActorOK, Live
    <2>4. DrainedIsSaved(z)'
      BY <1>2, <1>4, <1>6, <2>1, <2>3 DEF DrainedIsSaved, a
    <2>5. TakesSnap(task[z]["exclusive"], rest, actor[z])
      BY <1>1, <1>4 DEF TakesSnap, SavePcs
    <2> QED
      BY <1>1, <1>2, <1>7, <2>2, <2>4, <2>5, DirtySame, ExclusiveMove
  <1>8. CASE SetTask(z, "exclusive", IdleTask) /\ UNCHANGED dirty
    <2>1. task'[z]["exclusive"].pc = "idle"
      BY <1>1, <1>8, SetTaskFacts, NoContentOwes
    <2>2. TakesSnap(task[z]["exclusive"], IdleTask, actor[z])
      BY NoContentOwes DEF TakesSnap
    <2> QED
      BY <1>1, <1>2, <1>8, <2>1, <2>2, DirtySame, ExclusiveRests, ExclusiveMove
  <1>9. CASE /\ a.life = "ready"
             /\ SetTask(z, "exclusive", t2)
             /\ Dirtied(z, p, a.st.rev)
    <2>1. task'[z]["exclusive"] = t2
      BY <1>1, <1>9, SetTaskFacts
    <2>2. SavesTheLast(z)'
      BY <1>2, <1>4, <2>1 DEF SavesTheLast, a
    <2>3. DrainedIsSaved(z)'
      BY <1>2, <1>4, <1>6, <2>1 DEF DrainedIsSaved, Saving, SavePcs
    <2>4. TakesSnap(task[z]["exclusive"], t2, actor[z])
      BY <1>4 DEF TakesSnap, a
    <2>5. /\ \A y \in Zones : y # z => dirty'[y] = dirty[y]
          /\ \A q \in Players : dirty'[z][q] >= dirty[z][q]
      BY <1>1, <1>5, <1>9, DirtiedFacts
    <2> QED
      BY <1>1, <1>2, <1>9, <2>2, <2>3, <2>4, <2>5, ExclusiveMove
  <1> QED
    BY <1>3, <1>7, <1>8, <1>9 DEF a, rest, t2

LEMMA PrepareNextWriteBack ==
  ASSUME DurableInv, DurableInv', WriteBackInv, RowAdvances, NEW z \in Zones,
         PrepareNext(z)
  PROVE WriteBackInv'
  <1> DEFINE t == task[z]["exclusive"]
  <1>1. TypeOK /\ "exclusive" \in Threads /\ t \in Tasks /\ t.pc = "next" /\ t.job = "prepare"
    BY WorkersAreThreads, TaskFields DEF DurableInv, PrepareNext
  <1>2. UNCHANGED <<actor, dirty>>
    BY DEF PrepareNext
  <1>3. PICK t2 : SetTask(z, "exclusive", t2) /\ (t2.pc = "idle" \/ t2.job = "prepare")
    <2>1. CASE SetTask(z, "exclusive", IdleTask)
      BY <2>1, NoContentOwes
    <2>2. ASSUME NEW td, NEW q, NEW s, NEW e, NEW v,
                 LET rest == [t EXCEPT !.todo = td]
                 IN \/ SetTask(z, "exclusive", rest)
                    \/ SetTask(z, "exclusive", [rest EXCEPT !.pc = "fence", !.p = q,
                                                   !.snap = s, !.exp = e, !.tok = v])
          PROVE  \E t2 : SetTask(z, "exclusive", t2) /\ t2.job = "prepare"
      <3> DEFINE rest == [t EXCEPT !.todo = td]
                 t2 == [rest EXCEPT !.pc = "fence", !.p = q, !.snap = s, !.exp = e, !.tok = v]
      <3>1. rest.job = "prepare" /\ t2.job = "prepare"
        BY <1>1 DEF Tasks
      <3> HIDE DEF rest, t2
      <3>2. SetTask(z, "exclusive", rest) \/ SetTask(z, "exclusive", t2)
        BY <2>2 DEF rest, t2
      <3> QED BY <3>1, <3>2
    <2>3. \/ SetTask(z, "exclusive", IdleTask)
          \/ \E td, q, s, e, v :
                LET rest == [t EXCEPT !.todo = td]
                IN \/ SetTask(z, "exclusive", rest)
                   \/ SetTask(z, "exclusive", [rest EXCEPT !.pc = "fence", !.p = q,
                                                  !.snap = s, !.exp = e, !.tok = v])
      BY DEF PrepareNext, EndTask
    <2> QED BY <2>1, <2>2, <2>3
  <1>4. task'[z]["exclusive"] = t2
    BY <1>1, <1>3, SetTaskFacts
  <1>5. SavesTheLast(z)' /\ DrainedIsSaved(z)'
    BY <1>3, <1>4 DEF SavesTheLast, DrainedIsSaved, SavePcs
  <1>6. TakesSnap(task[z]["exclusive"], t2, actor[z])
    BY <1>3 DEF TakesSnap, SavePcs
  <1> QED
    BY <1>1, <1>2, <1>3, <1>5, <1>6, DirtySame, ExclusiveMove

\* A save goes on with its snapshot.
KeepsSave(t, t2) ==
    /\ t2.pc \in SavePcs
    /\ t2.p = t.p /\ t2.snap = t.snap /\ t2.job = t.job /\ t2.todo = t.todo

\* Or it ends without an acknowledgement.
SaveGoesOn(t, t2) ==
    \/ t2.pc = "idle"
    \/ t2.pc = "next" /\ t2.job = "prepare"
    \/ KeepsSave(t, t2)

LEMMA FailedGoesOn ==
  ASSUME NEW t \in Tasks
  PROVE SaveGoesOn(t, Failed(t))
  <1>1. CASE t.job \in {"evict", "drain"}
    <2> DEFINE t2 == [t EXCEPT !.pc = "verify"]
    <2>1. t2.pc = "verify" /\ t2.p = t.p /\ t2.snap = t.snap /\ t2.job = t.job /\ t2.todo = t.todo
      BY DEF Tasks
    <2>2. Failed(t) = t2
      BY <1>1 DEF Failed
    <2> HIDE DEF t2
    <2> QED BY <2>1, <2>2 DEF SaveGoesOn, KeepsSave, SavePcs
  <1>2. CASE t.job \notin {"evict", "drain"}
    BY <1>2, NoContentOwes DEF Failed, SaveGoesOn
  <1> QED BY <1>1, <1>2

LEMMA SaveGoesOnWriteBack ==
  ASSUME DurableInv, DurableInv', WriteBackInv, RowAdvances, NEW z \in Zones,
         NEW k \in Threads, NEW t2, task[z][k].pc \in SavePcs, SetTask(z, k, t2),
         UNCHANGED <<actor, dirty>>, SaveGoesOn(task[z][k], t2)
  PROVE WriteBackInv'
  <1>1. TypeOK
    BY DEF DurableInv
  <1>2. TakesSnap(task[z][k], t2, actor[z])
    BY DEF TakesSnap, SaveGoesOn, KeepsSave, SavePcs
  <1>3. CASE k # "exclusive"
    BY <1>1, <1>2, <1>3, DirtySame, ReaderMove DEF SavePcs
  <1>4. CASE k = "exclusive"
    <2>1. task'[z]["exclusive"] = t2
      BY <1>1, <1>4, SetTaskFacts
    <2>2. CASE t2.pc = "idle" \/ (t2.pc = "next" /\ t2.job = "prepare")
      <3>1. SavesTheLast(z)' /\ DrainedIsSaved(z)'
        BY <2>1, <2>2 DEF SavesTheLast, DrainedIsSaved, SavePcs
      <3> QED
        BY <1>1, <1>2, <1>4, <3>1, DirtySame, ExclusiveMove
    <2>3. CASE KeepsSave(task[z][k], t2)
      <3>1. SavesTheLast(z)'
        BY <1>4, <2>1, <2>3 DEF SavesTheLast, KeepsSave, WriteBackInv, WriteBackOK
      <3>2. DrainedIsSaved(z)'
        BY <1>4, <2>1, <2>3 DEF DrainedIsSaved, KeepsSave, WriteBackInv, WriteBackOK,
                                Saving, SavePcs
      <3> QED
        BY <1>1, <1>2, <1>4, <3>1, <3>2, DirtySame, ExclusiveMove
    <2> QED BY <2>2, <2>3 DEF SaveGoesOn
  <1> QED BY <1>3, <1>4

LEMMA SaveWriteBack ==
  ASSUME DurableInv, DurableInv', WriteBackInv, RowAdvances, NEW z \in Zones,
         NEW k \in Threads,
         \/ SaveFence(z, k) \/ SaveUpdate(z, k) \/ ReconcileFailedCAS(z, k)
         \/ SaveOutbox(z, k)
  PROVE WriteBackInv'
  <1> DEFINE t == task[z][k]
  <1>1. TypeOK /\ t \in Tasks /\ t.pc \in SavePcs
    BY TaskFields DEF DurableInv, SaveFence, SaveUpdate, ReconcileFailedCAS, SaveOutbox,
                      SavePcs
  <1>2. UNCHANGED <<actor, dirty>>
    BY DEF SaveFence, SaveUpdate, ReconcileFailedCAS, SaveOutbox
  <1> HIDE DEF t
  <1>3. ASSUME NEW l \in SavePcs PROVE SaveGoesOn(t, [t EXCEPT !.pc = l])
    <2> DEFINE t2 == [t EXCEPT !.pc = l]
    <2>1. t2.pc = l /\ t2.p = t.p /\ t2.snap = t.snap /\ t2.job = t.job /\ t2.todo = t.todo
      BY <1>1 DEF Tasks
    <2> HIDE DEF t2
    <2>2. SaveGoesOn(t, t2)
      BY <2>1 DEF SaveGoesOn, KeepsSave
    <2> QED BY <2>2 DEF t2
  <1>4. ASSUME NEW l \in SavePcs, NEW v PROVE SaveGoesOn(t, [t EXCEPT !.pc = l, !.newtok = v])
    <2> DEFINE t2 == [t EXCEPT !.pc = l, !.newtok = v]
    <2>1. t2.pc = l /\ t2.p = t.p /\ t2.snap = t.snap /\ t2.job = t.job /\ t2.todo = t.todo
      BY <1>1 DEF Tasks
    <2> HIDE DEF t2
    <2>2. SaveGoesOn(t, t2)
      BY <2>1 DEF SaveGoesOn, KeepsSave
    <2> QED BY <2>2 DEF t2
  <1>5. SaveGoesOn(t, Failed(t))
    BY <1>1, FailedGoesOn
  <1>6. t.job = "prepare" => SaveGoesOn(t, [t EXCEPT !.pc = "next"])
    <2> DEFINE t2 == [t EXCEPT !.pc = "next"]
    <2>1. t2.pc = "next" /\ t2.job = t.job
      BY <1>1 DEF Tasks
    <2> HIDE DEF t2
    <2>2. t.job = "prepare" => SaveGoesOn(t, t2)
      BY <2>1 DEF SaveGoesOn
    <2> QED BY <2>2 DEF t2
  <1>7. PICK t2 : SetTask(z, k, t2) /\ SaveGoesOn(t, t2)
    <2>1. "update" \in SavePcs /\ "recon" \in SavePcs /\ "outbox" \in SavePcs /\ "ack" \in SavePcs
      BY DEF SavePcs
    <2>2. CASE SaveFence(z, k)
      BY <1>3, <1>5, <2>1, <2>2 DEF SaveFence, t
    <2>3. CASE SaveUpdate(z, k)
      BY <1>3, <1>4, <1>5, <2>1, <2>3 DEF SaveUpdate, t
    <2>4. CASE ReconcileFailedCAS(z, k)
      BY <1>4, <1>5, <2>1, <2>4 DEF ReconcileFailedCAS, t
    <2>5. CASE SaveOutbox(z, k)
      BY <1>3, <1>5, <1>6, <2>1, <2>5 DEF SaveOutbox, t
    <2> QED BY <2>2, <2>3, <2>4, <2>5
  <1> QED
    BY <1>1, <1>2, <1>7, SaveGoesOnWriteBack DEF t

\* Eviction and drain look at the row after a failed save; an eviction that
\* has failed makes its Actor ready again.
LEMMA VerifyWriteBack ==
  ASSUME DurableInv, DurableInv', WriteBackInv, RowAdvances, NEW z \in Zones,
         NEW k \in Threads, CheckpointWasCommitted(z, k)
  PROVE WriteBackInv'
  <1> DEFINE t == task[z][k]
             a == actor[z][t.p]
             b == [a EXCEPT !.life = "ready"]
  <1>1. TypeOK /\ t \in Tasks /\ t.pc = "verify" /\ t.pc \in SavePcs /\ t.p \in Players
        /\ SaveOK(t, a, row[t.p]) /\ ShapeOK(k, t)
    BY TaskFields, TaskFacts DEF DurableInv, CheckpointWasCommitted, SavePcs
  <1>2. k = "exclusive" /\ "exclusive" \in Threads
    BY <1>1, WorkersAreThreads DEF ShapeOK, Threads
  <1>3. UNCHANGED dirty
    BY DEF CheckpointWasCommitted
  <1>4. a.life \in Live /\ a \in Actors
    BY <1>1, ActorFields DEF SaveOK, SnapOK
  <1>5. b.st = a.st /\ b.prev = a.prev
    BY <1>4 DEF Actors
  <1>6. \/ UNCHANGED actor /\ SetTask(z, k, [t EXCEPT !.pc = "ack", !.newtok = row[t.p].ver])
        \/ UNCHANGED actor /\ SetTask(z, k, IdleTask)
        \/ SetActor(z, t.p, b) /\ SetTask(z, k, IdleTask)
    BY DEF CheckpointWasCommitted, EndTask
  <1> HIDE DEF b, t
  <1>7. CASE UNCHANGED actor /\ SetTask(z, k, [t EXCEPT !.pc = "ack", !.newtok = row[t.p].ver])
    <2> DEFINE t2 == [t EXCEPT !.pc = "ack", !.newtok = row[t.p].ver]
    <2>1. /\ t2.pc = "ack" /\ t2.p = t.p /\ t2.snap = t.snap /\ t2.job = t.job
          /\ t2.todo = t.todo
      BY <1>1 DEF Tasks
    <2>2. SetTask(z, k, t2)
      BY <1>7
    <2> HIDE DEF t2
    <2>3. SaveGoesOn(t, t2)
      BY <2>1 DEF SaveGoesOn, KeepsSave, SavePcs
    <2> QED
      BY <1>1, <1>3, <1>7, <2>2, <2>3, SaveGoesOnWriteBack DEF t
  <1>8. CASE UNCHANGED actor /\ SetTask(z, k, IdleTask)
    <2>1. SaveGoesOn(t, IdleTask)
      BY NoContentOwes DEF SaveGoesOn
    <2> QED
      BY <1>1, <1>3, <1>8, <2>1, SaveGoesOnWriteBack DEF t
  <1>9. CASE SetActor(z, t.p, b) /\ SetTask(z, k, IdleTask)
    <2>1. PICK p \in Players : p = t.p
      BY <1>1
    <2>2. /\ actor'[z][p] = b
          /\ \A q \in Players : q # p => actor'[z][q] = actor[z][q]
          /\ \A y \in Zones : y # z => actor'[y] = actor[y]
      BY <1>1, <1>9, <2>1, SetActorFacts
    <2>3. \A q \in Players : actor'[z][q].life \in Live =>
            /\ actor[z][q].life \in Live
            /\ actor'[z][q].st = actor[z][q].st
            /\ actor'[z][q].prev = actor[z][q].prev
      BY <1>4, <1>5, <2>1, <2>2
    <2>4. SavesTheLast(z)' /\ DrainedIsSaved(z)'
      <3>1. task'[z]["exclusive"].pc = "idle"
        BY <1>1, <1>2, <1>9, SetTaskFacts, NoContentOwes
      <3> QED BY <3>1, ExclusiveRests
    <2>5. TakesSnap(task[z]["exclusive"], IdleTask, actor[z])
      BY NoContentOwes DEF TakesSnap
    <2> QED
      BY <1>1, <1>2, <1>3, <1>9, <2>2, <2>3, <2>4, <2>5, DirtySame, ExclusiveMove
  <1> QED
    BY <1>6, <1>7, <1>8, <1>9

\* What an acknowledgement does to the Actor, its dirty entry and the goroutine.
LEMMA AcknowledgeFacts ==
  ASSUME DurableInv, NEW z \in Zones, NEW k \in Threads, Acknowledge(z, k)
  PROVE \E p, s, t2, b :
          /\ p \in Players /\ s \in Contents
          /\ p = task[z][k].p /\ s = task[z][k].snap
          /\ SetTask(z, k, t2) /\ SetActor(z, p, b)
          /\ t2.pc \notin SavePcs
          /\ IF task[z][k].job = "evict" THEN t2 = IdleTask /\ b = NoActor
             ELSE /\ b.st = actor[z][p].st /\ b.life = actor[z][p].life
                  /\ b.prev = actor[z][p].prev \/ b.prev = s.rev
                  /\ task[z][k].job = "drain" =>
                        /\ b.prev = s.rev
                        /\ t2.todo = task[z][k].todo
  <1> DEFINE t == task[z][k]
             a == actor[z][t.p]
             td == [IdleTask EXCEPT !.pc = "next", !.job = "drain",
                        !.epoch = t.epoch, !.todo = t.todo]
  <1>1. TypeOK /\ t \in Tasks /\ t.pc = "ack" /\ t.p \in Players /\ t.snap \in Contents
        /\ a \in Actors /\ SaveOK(t, a, row[t.p]) /\ ShapeOK(k, t)
    BY TaskFields, TaskFacts, ActorFields DEF DurableInv, Acknowledge
  <1>2. t.job \in {"command", "flush", "evict", "drain"}
    BY <1>1 DEF SaveOK, SavePcs, ShapeOK
  <1>3. td.pc = "next" /\ td.todo = t.todo
    BY DEF IdleTask
  <1>4. Flushed(t).pc \notin SavePcs
    <2>1. Flushed(t).pc \in {"confirm", "next"}
      BY <1>1 DEF Flushed, Tasks, IdleTask
    <2> QED BY <2>1 DEF SavePcs
  <1>5. /\ AckedActor(a, t).st = a.st /\ AckedActor(a, t).life = a.life
        /\ AckedActor(a, t).prev = t.snap.rev
    BY <1>1 DEF AckedActor, Actors
  <1>6. CASE t.job = "evict"
    <2>1. SetActor(z, t.p, NoActor) /\ SetTask(z, k, IdleTask)
      BY <1>6 DEF Acknowledge
    <2> QED
      BY <1>1, <1>6, <2>1, NoContentOwes
  <1>7. CASE t.job # "evict"
    <2>1. PICK b : /\ SetActor(z, t.p, b)
                   /\ b.st = a.st /\ b.life = a.life
                   /\ b.prev = a.prev \/ b.prev = t.snap.rev
                   /\ t.job = "drain" => b.prev = t.snap.rev
      <3>1. \/ SetActor(z, t.p, AckedActor(a, t))
            \/ UNCHANGED actor /\ t.job # "drain"
        BY <1>7 DEF Acknowledge
      <3>2. UNCHANGED actor => SetActor(z, t.p, a)
        BY <1>1 DEF SetActor, TypeOK
      <3> HIDE DEF a, t
      <3> QED BY <1>5, <3>1, <3>2
    <2>2. PICK t2 : /\ SetTask(z, k, t2) /\ t2.pc \notin SavePcs
                    /\ t.job = "drain" => t2.todo = t.todo
      <3>1. CASE t.job = "drain"
        <4>1. SetTask(z, k, td)
          BY <3>1 DEF Acknowledge
        <4> HIDE DEF td
        <4> QED BY <1>3, <4>1 DEF SavePcs
      <3>2. CASE t.job # "drain"
        <4>1. SetTask(z, k, Flushed(t))
          BY <1>2, <1>7, <3>2 DEF Acknowledge
        <4> QED BY <1>4, <3>2, <4>1
      <3> QED BY <3>1, <3>2
    <2> HIDE DEF td
    <2> QED
      BY <1>1, <1>7, <2>1, <2>2
  <1> QED BY <1>6, <1>7

\* The entry of the revision that was written is cleared.
LEMMA ClearDirtyFacts ==
  ASSUME DurableInv, NEW z \in Zones, NEW k \in Threads, Acknowledge(z, k),
         NEW p \in Players, p = task[z][k].p, NEW n \in Nat, n = task[z][k].snap.rev
  PROVE /\ \A y \in Zones : y # z => dirty'[y] = dirty[y]
        /\ \A q \in Players : q # p => dirty'[z][q] = dirty[z][q] /\ dirty[z][q] \in Nat
        /\ task[z][k].job # "evict" =>
              dirty'[z][p] = IF dirty[z][p] <= n THEN 0 ELSE dirty[z][p]
  <1>1. TypeOK /\ ClearDirty(z, task[z][k])
    BY DEF DurableInv, Acknowledge
  <1> QED
    BY <1>1 DEF TypeOK, ClearDirty

LEMMA AcknowledgeWriteBack ==
  ASSUME DurableInv, DurableInv', WriteBackInv, RowAdvances, NEW z \in Zones,
         NEW k \in Threads, Acknowledge(z, k)
  PROVE WriteBackInv'
  <1>1. TypeOK /\ TypeOK' /\ task[z][k].pc = "ack" /\ task[z][k].pc \in SavePcs
        /\ task[z][k] \in Tasks
    BY TaskFields DEF DurableInv, Acknowledge, SavePcs
  <1>2. UNCHANGED row
    BY DEF Acknowledge, store
  <1>3. PICK p, s, t2, b :
          /\ p \in Players /\ s \in Contents
          /\ p = task[z][k].p /\ s = task[z][k].snap
          /\ SetTask(z, k, t2) /\ SetActor(z, p, b)
          /\ t2.pc \notin SavePcs
          /\ IF task[z][k].job = "evict" THEN t2 = IdleTask /\ b = NoActor
             ELSE /\ b.st = actor[z][p].st /\ b.life = actor[z][p].life
                  /\ b.prev = actor[z][p].prev \/ b.prev = s.rev
                  /\ task[z][k].job = "drain" =>
                        /\ b.prev = s.rev
                        /\ t2.todo = task[z][k].todo
    BY AcknowledgeFacts
  <1> p \in Players /\ s \in Contents
    BY <1>3
  <1>4. /\ task'[z][k] = t2
        /\ \A j \in Threads : j # k => task'[z][j] = task[z][j]
        /\ \A y \in Zones : y # z => task'[y] = task[y]
    BY <1>1, <1>3, SetTaskFacts
  <1>5. /\ actor'[z][p] = b
        /\ \A q \in Players : q # p => actor'[z][q] = actor[z][q]
        /\ \A y \in Zones : y # z => actor'[y] = actor[y]
    BY <1>1, <1>3, SetActorFacts
  <1>6. PICK n \in Nat : n = s.rev
    BY <1>3 DEF Contents
  <1>7. /\ \A y \in Zones : y # z => dirty'[y] = dirty[y]
        /\ \A q \in Players : q # p => dirty'[z][q] = dirty[z][q] /\ dirty[z][q] \in Nat
        /\ task[z][k].job # "evict" =>
              dirty'[z][p] = IF dirty[z][p] <= n THEN 0 ELSE dirty[z][p]
    BY <1>3, <1>6, ClearDirtyFacts
  <1>8. /\ SaveOK(task[z][k], actor[z][p], row[p]) /\ ShapeOK(k, task[z][k]) /\ LockOK(z)
        /\ DirtyOK(z, p) /\ RevisionsTell(z, p) /\ SavesTheLast(z) /\ DrainedIsSaved(z)
    BY <1>1, <1>3, TaskFacts DEF WriteBackInv, WriteBackOK
  <1>9. /\ s.data \subseteq row[p].c.data /\ actor[z][p].life \in Live
        /\ task[z][k].job # "prepare" /\ Saving(task[z][k], p)
    BY <1>1, <1>3, <1>8 DEF SaveOK, WrittenOK, SnapOK, Saving
  <1>10. ASSUME NEW q \in Players, q # p PROVE Quiet(z, q)
    <2>1. TakesSnap(task[z][k], t2, actor[z])
      BY <1>3 DEF TakesSnap
    <2>2. dirty'[z][q] >= dirty[z][q]
      BY <1>7, <1>10
    <2> QED
      BY <1>1, <1>3, <1>5, <1>10, <2>1, <2>2, MoveQuiet
  <1>11. ASSUME task[z][k].job # "evict" PROVE DirtyOK(z, p)' /\ RevisionsTell(z, p)'
    <2>1. b.st = actor[z][p].st /\ b.life = actor[z][p].life
          /\ (b.prev = actor[z][p].prev \/ b.prev = s.rev)
      BY <1>3, <1>11
    <2>2. Unwritten(z, p)' = Unwritten(z, p)
      BY <1>2, <1>5, <2>1 DEF Unwritten
    <2>3. dirty[z][p] \in Nat /\ dirty'[z][p] \in Nat
      BY <1>1 DEF TypeOK
    <2>4. Unwritten(z, p) # {} => Noted(z, p, n)
      <3>1. Unwritten(z, p) \subseteq s.data \/ Noted(z, p, n)
        BY <1>3, <1>6, <1>8, <1>9 DEF DirtyOK
      <3>2. Unwritten(z, p) \cap s.data = {}
        BY <1>9 DEF Unwritten
      <3> QED BY <3>1, <3>2
    <2>5. \A j \in Workers, m \in Nat : Noting(task[z][j], p, m) => Noting(task'[z][j], p, m)
      BY <1>1, <1>4, WorkersAreThreads DEF Noting
    <2>6. \A j \in Workers : task[z][j].target \in Nat
      BY <1>1, TaskFields, WorkersAreThreads DEF Tasks
    <2>7. ASSUME NEW m \in Nat, Unwritten(z, p) # {}, Noted(z, p, m) PROVE Noted(z, p, m)'
      <3>1. CASE dirty[z][p] > n
        BY <1>7, <1>11, <2>3, <2>5, <2>7, <3>1 DEF Noted
      <3>2. CASE ~(dirty[z][p] > n)
        <4>1. PICK j \in Workers : Noting(task[z][j], p, n)
          BY <2>4, <2>7, <3>2 DEF Noted
        <4>2. CASE dirty[z][p] > m
          <5>1. n > m
            BY <2>3, <3>2, <4>2
          <5>2. Noting(task[z][j], p, m)
            BY <2>6, <4>1, <5>1 DEF Noting
          <5> QED BY <2>5, <5>2 DEF Noted
        <4>3. CASE ~(dirty[z][p] > m)
          BY <2>5, <2>7, <4>3 DEF Noted
        <4> QED BY <4>2, <4>3
      <3> QED BY <3>1, <3>2
    <2>8. Unwritten(z, p) # {} => Noted(z, p, 0)'
      BY <1>8, <1>9, <2>7 DEF DirtyOK
    <2>9. ASSUME NEW j \in Threads, Saving(task'[z][j], p), task'[z][j].job # "prepare"
          PROVE  /\ \/ Unwritten(z, p)' \subseteq task'[z][j].snap.data
                    \/ Noted(z, p, task[z][j].snap.rev)'
                 /\ task'[z][j].snap.rev = actor'[z][p].st.rev =>
                       actor'[z][p].st.data \subseteq task'[z][j].snap.data
      <3>1. task'[z][j] = task[z][j]
        BY <1>3, <1>4, <2>9 DEF Saving
      <3>2. PICK c : c = task[z][j].snap
        OBVIOUS
      <3>3. c.rev \in Nat /\ task'[z][j].snap = c
        BY <1>1, <3>1, <3>2, SnapRev
      <3>4. Unwritten(z, p) \subseteq c.data \/ Noted(z, p, c.rev)
        BY <1>8, <1>9, <2>9, <3>1, <3>2 DEF DirtyOK
      <3>5. Unwritten(z, p)' \subseteq c.data \/ Noted(z, p, c.rev)'
        BY <2>2, <2>7, <3>3, <3>4
      <3>6. c.rev = actor'[z][p].st.rev => actor'[z][p].st.data \subseteq c.data
        BY <1>5, <1>8, <1>9, <2>1, <2>9, <3>1, <3>2 DEF RevisionsTell
      <3> QED
        BY <3>3, <3>5, <3>6 DEF Noted
    <2>10. b.st.rev = b.prev => b.st.data \subseteq row'[p].c.data
      <3>1. CASE b.prev = actor[z][p].prev
        BY <1>2, <1>8, <1>9, <2>1, <3>1 DEF RevisionsTell
      <3>2. CASE b.prev = s.rev
        BY <1>2, <1>3, <1>8, <1>9, <2>1, <3>2 DEF RevisionsTell
      <3> QED BY <2>1, <3>1, <3>2
    <2>11. DirtyOK(z, p)'
      BY <2>2, <2>8, <2>9 DEF DirtyOK
    <2>12. RevisionsTell(z, p)'
      BY <1>5, <2>9, <2>10 DEF RevisionsTell
    <2> QED BY <2>11, <2>12
  <1>12. Quiet(z, p) \/ (DirtyOK(z, p)' /\ RevisionsTell(z, p)')
    <2>1. CASE task[z][k].job = "evict"
      BY <1>3, <1>5, <2>1 DEF Quiet, NoActor, Live
    <2> QED BY <1>11, <2>1
  <1>13. SavesTheLast(z)' /\ DrainedIsSaved(z)'
    <2>1. CASE k # "exclusive"
      <3>1. task[z]["exclusive"].pc = "idle"
        BY <1>1, <2>1, ReaderExcludes
      <3>2. task'[z]["exclusive"].pc = "idle"
        BY <1>4, <2>1, <3>1, WorkersAreThreads
      <3> QED BY <3>2, ExclusiveRests
    <2>2. CASE k = "exclusive" /\ task[z][k].job = "evict"
      <3>1. task'[z]["exclusive"].pc = "idle"
        BY <1>3, <1>4, <2>2, NoContentOwes
      <3> QED BY <3>1, ExclusiveRests
    <2>3. CASE k = "exclusive" /\ task[z][k].job # "evict"
      <3>1. task[z][k].job = "drain" /\ b.prev = s.rev /\ t2.todo = task[z][k].todo
            /\ b.st = actor[z][p].st /\ b.life = actor[z][p].life
        BY <1>1, <1>3, <1>8, <1>9, <2>3, WorkersAreThreads DEF ShapeOK
      <3>2. s.rev = actor[z][p].st.rev
        BY <1>1, <1>3, <1>8, <1>9, <2>3 DEF SavesTheLast
      <3>3. b.life = "ready"
        BY <1>8, <1>9, <2>3, <3>1 DEF LockOK, Live
      <3>4. \A q \in Players \ t2.todo :
                \/ q = p
                \/ actor[z][q].life = "absent"
                \/ actor[z][q].life = "ready" /\ actor[z][q].st.rev = actor[z][q].prev
        BY <1>1, <1>3, <1>8, <2>3, <3>1 DEF DrainedIsSaved, Saving
      <3>5. DrainedIsSaved(z)'
        BY <1>4, <1>5, <2>3, <3>1, <3>2, <3>3, <3>4 DEF DrainedIsSaved
      <3>6. SavesTheLast(z)'
        BY <1>3, <1>4, <2>3 DEF SavesTheLast
      <3> QED BY <3>5, <3>6
    <2> QED BY <2>1, <2>2, <2>3
  <1>14. \A q \in Players : Quiet(z, q) \/ (DirtyOK(z, q)' /\ RevisionsTell(z, q)')
    BY <1>10, <1>12
  <1>15. \A y \in Zones : y # z =>
            task'[y] = task[y] /\ actor'[y] = actor[y] /\ dirty'[y] = dirty[y]
    BY <1>4, <1>5, <1>7
  <1> QED
    BY <1>13, <1>14, <1>15, ZoneWriteBack

LEMMA NextWriteBack == DurableInv /\ WriteBackInv /\ [Next]_vars => WriteBackInv'
  <1> SUFFICES ASSUME DurableInv, WriteBackInv, [Next]_vars PROVE WriteBackInv'
    OBVIOUS
  <1>1. DurableInv' /\ RowAdvances
    BY NextInv, NextAdvances
  <1>2. CASE UNCHANGED vars \/ StoreStep
    <2>1. UNCHANGED <<task, actor, dirty>>
      BY <1>2 DEF vars, StoreStep, Land, Relay
    <2> QED BY <1>1, <2>1, EnvironmentWriteBack
  <1>3. ASSUME NEW z \in Zones, ZoneStep(z) PROVE WriteBackInv'
    <2>1. CASE \E k \in Workers, p \in Players, op \in Ops : StartRequest(z, k, p, op)
      BY <1>1, <2>1, StartRequestWriteBack
    <2>2. CASE \E k \in Workers : RequestStep(z, k) \/ CancelRequest(z, k)
      BY <1>1, <2>2, RequestWriteBack
    <2>3. CASE \E p \in Players : ActivationStep(z, p) \/ ActivationError(z, p)
      BY <1>1, <2>3, ActivationWriteBack
    <2>4. CASE \E k \in Threads : SaveStep(z, k)
      BY <1>1, <2>4, SaveWriteBack, VerifyWriteBack, AcknowledgeWriteBack DEF SaveStep
    <2>5. CASE FlusherStep(z) \/ StartClose(z)
      BY <1>1, <2>5, FlusherWriteBack
    <2>6. CASE FinishClose(z) \/ Crash(z) \/ FinishDrain(z)
      BY <1>1, <2>6, StopWriteBack
    <2>7. CASE \E p \in Players : StartEvict(z, p)
      BY <1>1, <2>7, StartEvictWriteBack
    <2>8. CASE StartDrain(z) \/ StartPrepare(z) \/ DrainNext(z) \/ PrepareNext(z)
      BY <1>1, <2>8, StartExclusiveWriteBack, DrainNextWriteBack, PrepareNextWriteBack
    <2>9. CASE AdvanceFence(z) \/ Authorize(z) \/ Revoke(z) \/ Restart(z)
      <3>1. UNCHANGED <<task, actor, dirty>>
        BY <2>9 DEF AdvanceFence, Authorize, Revoke, Restart
      <3> QED BY <1>1, <3>1, EnvironmentWriteBack
    <2> QED
      BY <1>3, <2>1, <2>2, <2>3, <2>4, <2>5, <2>6, <2>7, <2>8, <2>9
         DEF ZoneStep, ExclusiveStep
  <1> QED
    BY <1>2, <1>3 DEF Next

LEMMA InitWriteBack == Init => WriteBackInv
  <1> SUFFICES ASSUME Init, NEW z \in Zones PROVE WriteBackOK(z)
    BY DEF WriteBackInv
  <1>1. /\ \A p \in Players : actor[z][p] = NoActor
        /\ task[z]["exclusive"] = IdleTask
    BY WorkersAreThreads DEF Init
  <1>2. NoActor.life \notin Live
    BY DEF NoActor, Live
  <1>3. \A p \in Players : DirtyOK(z, p) /\ RevisionsTell(z, p)
    BY <1>1, <1>2 DEF DirtyOK, RevisionsTell
  <1>4. SavesTheLast(z) /\ DrainedIsSaved(z)
    BY <1>1, NoContentOwes DEF SavesTheLast, DrainedIsSaved
  <1> QED
    BY <1>3, <1>4 DEF WriteBackOK

\* The inductive invariant of the runtime holds in every reachable state: copies
\* of a checkpoint only grow, owe their events, and are noted until written.
THEOREM InvTheorem == Spec => []Inv
  <1>1. Init => Inv
    BY InitInv, InitOutbox, InitWriteBack DEF Inv
  <1>2. Inv /\ [Next]_vars => Inv'
    BY NextInv, NextOutbox, NextWriteBack DEF Inv
  <1> QED
    BY <1>1, <1>2, PTL DEF Spec

\* ensureOutbox after SaveCAS, Load's repair and the relay together: an outbox
\* row exists only for a durable mutation, and a durable mutation that owes an
\* event still has it pending or has had it delivered.
THEOREM OutboxFollowsCheckpointTheorem == Spec => []OutboxFollowsCheckpoint
  <1>1. Inv => OutboxFollowsCheckpoint
    BY DEF Inv, OutboxInv, OwesEvents, OutboxFollowsCheckpoint
  <1> QED
    BY <1>1, InvTheorem, PTL

\* markDirty against the flusher's clearing of the entry: an ordinary command
\* that was executed is in the row, or its player is in the dirty map, or the
\* goroutine that executed it is about to put it there.
THEOREM DirtyTrackedTheorem == Spec => []DirtyTracked
  <1>1. Inv => DirtyTracked
    <2> SUFFICES ASSUME Inv, NEW z \in Zones, NEW p \in Players,
                        actor[z][p].life = "ready",
                        NEW o \in actor[z][p].st.data \ (SyncOps \cup row[p].c.data)
                 PROVE  \/ dirty[z][p] > 0
                        \/ \E k \in Workers : task[z][k].pc = "dirty" /\ task[z][k].p = p
      BY DEF DirtyTracked
    <2>1. DirtyOK(z, p)
      BY DEF Inv, WriteBackInv, WriteBackOK
    <2> QED
      BY <2>1 DEF DirtyOK, Unwritten, Noted, Noting, Live
  <1> QED
    BY <1>1, InvTheorem, PTL

----------------------------------------------------------------------------
(* No Actor is removed with something only it knows.                       *)

\* A resident Actor stays.
Stays == \A y \in Zones, q \in Players :
            actor[y][q].life \in Live => actor'[y][q].life # "absent"

LEMMA SetActorStays ==
  ASSUME TypeOK, NEW z \in Zones, NEW p \in Players, NEW b, SetActor(z, p, b),
         actor[z][p].life \in Live => b.life # "absent"
  PROVE Stays
  BY SetActorFacts DEF Stays, Live

LEMMA SameActorStays ==
  ASSUME UNCHANGED actor PROVE Stays
  BY DEF Stays, Live

LEMMA RequestStays ==
  ASSUME DurableInv, NEW z \in Zones, NEW k \in Workers,
         RequestStep(z, k) \/ CancelRequest(z, k)
  PROVE Stays
  <1> DEFINE t == task[z][k]
             a == actor[z][t.p]
  <1>1. TypeOK /\ k \in Threads
    BY WorkersAreThreads DEF DurableInv
  <1>2. CASE UNCHANGED actor
    BY <1>2, SameActorStays
  <1>3. CASE Execute(z, k) \/ SettleInspect(z, k) \/ SettleConfirm(z, k)
    <2>1. t.p \in Players /\ a \in Actors
      BY <1>1, <1>3, TaskFacts, ActorFields DEF Execute, SettleInspect, SettleConfirm
    <2>2. \/ UNCHANGED actor
          \/ \E st, n : SetActor(z, t.p, [a EXCEPT !.st = st, !.marks[t.op] = n])
          \/ \E st : SetActor(z, t.p, [a EXCEPT !.st = st])
          \/ \E n : SetActor(z, t.p, [a EXCEPT !.marks[t.op] = n])
      BY <1>3 DEF Execute, SettleInspect, SettleConfirm, Retire
    <2>3. UNCHANGED actor \/ \E b : SetActor(z, t.p, b) /\ b.life = a.life
      <3> HIDE DEF a, t
      <3>1. ASSUME NEW st, NEW n, SetActor(z, t.p, [a EXCEPT !.st = st, !.marks[t.op] = n])
            PROVE  \E b : SetActor(z, t.p, b) /\ b.life = a.life
        <4> DEFINE b == [a EXCEPT !.st = st, !.marks[t.op] = n]
        <4>1. b.life = a.life
          BY <2>1 DEF Actors
        <4>2. SetActor(z, t.p, b)
          BY <3>1
        <4> HIDE DEF b
        <4> QED BY <4>1, <4>2
      <3>2. ASSUME NEW st, SetActor(z, t.p, [a EXCEPT !.st = st])
            PROVE  \E b : SetActor(z, t.p, b) /\ b.life = a.life
        <4> DEFINE b == [a EXCEPT !.st = st]
        <4>1. b.life = a.life
          BY <2>1 DEF Actors
        <4>2. SetActor(z, t.p, b)
          BY <3>2
        <4> HIDE DEF b
        <4> QED BY <4>1, <4>2
      <3>3. ASSUME NEW n, SetActor(z, t.p, [a EXCEPT !.marks[t.op] = n])
            PROVE  \E b : SetActor(z, t.p, b) /\ b.life = a.life
        <4> DEFINE b == [a EXCEPT !.marks[t.op] = n]
        <4>1. b.life = a.life
          BY <2>1 DEF Actors
        <4>2. SetActor(z, t.p, b)
          BY <3>3
        <4> HIDE DEF b
        <4> QED BY <4>1, <4>2
      <3> QED BY <2>2, <3>1, <3>2, <3>3, Zenon
    <2> QED
      BY <1>1, <1>2, <2>1, <2>3, SetActorStays DEF Live
  <1> QED
    BY <1>2, <1>3 DEF RequestStep, CancelRequest, RequestNotOwner, MarkDirty,
                      SettleMarkDirty, SettleFlush

LEMMA StartStays ==
  ASSUME DurableInv, NEW z \in Zones,
         \/ \E k \in Workers, p \in Players, op \in Ops : StartRequest(z, k, p, op)
         \/ \E p \in Players : ActivationStep(z, p) \/ ActivationError(z, p)
  PROVE Stays
  <1>1. TypeOK
    BY DEF DurableInv
  <1>2. \/ UNCHANGED actor
        \/ \E p \in Players : \E b : SetActor(z, p, b) /\ actor[z][p].life \notin Live
    BY ZenonT(60) DEF StartRequest, ActivationStep, ActivateLoad, CreateInitialFence,
           CreateInitialInsert, ReconcileInitialCheckpoint, ActivationError,
           BecomeReady, ActivationFailed, Live
  <1> QED
    BY <1>1, <1>2, SameActorStays, SetActorStays

\* Eviction after its save: the row has the last snapshot.
LEMMA SaveRemoval ==
  ASSUME DurableInv, WriteBackInv, NEW z \in Zones, NEW k \in Threads, SaveStep(z, k),
         NEW y \in Zones, NEW q \in Players,
         actor[y][q].life \in Live, actor'[y][q].life = "absent"
  PROVE actor[y][q].st.data \subseteq row'[q].c.data
  <1>1. TypeOK
    BY DEF DurableInv
  <1>2. CASE SaveFence(z, k) \/ SaveUpdate(z, k) \/ ReconcileFailedCAS(z, k) \/ SaveOutbox(z, k)
    BY <1>2 DEF SaveFence, SaveUpdate, ReconcileFailedCAS, SaveOutbox, Live
  <1>3. CASE CheckpointWasCommitted(z, k)
    <2>1. PICK p \in Players : p = task[z][k].p
      BY <1>3, TaskFacts DEF CheckpointWasCommitted
    <2>2. [actor[z][p] EXCEPT !.life = "ready"].life = "ready"
      BY <1>1, <2>1, ActorFields DEF Actors
    <2>3. UNCHANGED actor \/ SetActor(z, p, [actor[z][p] EXCEPT !.life = "ready"])
      BY <1>3, <2>1 DEF CheckpointWasCommitted
    <2>4. Stays
      BY <1>1, <2>2, <2>3, SameActorStays, SetActorStays
    <2> QED BY <2>4 DEF Stays
  <1>4. CASE Acknowledge(z, k)
    <2>1. PICK p, s, t2, b :
          /\ p \in Players /\ s \in Contents
          /\ p = task[z][k].p /\ s = task[z][k].snap
          /\ SetActor(z, p, b)
          /\ IF task[z][k].job = "evict" THEN b = NoActor
             ELSE b.life = actor[z][p].life
      BY <1>4, AcknowledgeFacts
    <2>2. /\ actor'[z][p] = b
          /\ \A x \in Players : x # p => actor'[z][x] = actor[z][x]
          /\ \A x \in Zones : x # z => actor'[x] = actor[x]
      BY <1>1, <2>1, SetActorFacts
    <2>3. y = z /\ q = p /\ task[z][k].job = "evict"
      BY <2>1, <2>2 DEF Live
    <2>4. SaveOK(task[z][k], actor[z][p], row[p]) /\ task[z][k].pc = "ack"
          /\ Saving(task[z][k], p) /\ k = "exclusive"
      BY <1>4, <2>1, <2>3, TaskFacts DEF Acknowledge, Saving, SavePcs, ShapeOK, Threads
    <2>5. s.data \subseteq row[p].c.data
      BY <2>1, <2>4 DEF SaveOK, WrittenOK, SavePcs
    <2>6. s.rev = actor[z][p].st.rev
      BY <2>1, <2>3, <2>4 DEF WriteBackInv, WriteBackOK, SavesTheLast, Saving
    <2>7. actor[z][p].st.data \subseteq s.data
      BY <2>1, <2>3, <2>4, <2>6 DEF WriteBackInv, WriteBackOK, RevisionsTell
    <2>8. UNCHANGED row
      BY <1>4 DEF Acknowledge, store
    <2> QED
      BY <2>3, <2>5, <2>7, <2>8
  <1> QED
    BY <1>2, <1>3, <1>4 DEF SaveStep

\* Eviction without a save, and the end of a drain: the revision is persisted.
LEMMA SavedRemoval ==
  ASSUME DurableInv, WriteBackInv, NEW z \in Zones,
         FinishDrain(z) \/ \E p \in Players : StartEvict(z, p),
         NEW y \in Zones, NEW q \in Players,
         actor[y][q].life \in Live, actor'[y][q].life = "absent"
  PROVE actor[y][q].st.data \subseteq row'[q].c.data
  <1>1. TypeOK
    BY DEF DurableInv
  <1>2. UNCHANGED row
    BY DEF FinishDrain, StartEvict, store
  <1>3. actor[y][q].st.rev = actor[y][q].prev
    <2>1. CASE FinishDrain(z)
      <3>1. y = z
        BY <1>1, <2>1 DEF FinishDrain, TypeOK, Live
      <3>2. \A p \in Players : \/ actor[z][p].life = "absent"
                               \/ actor[z][p].st.rev = actor[z][p].prev
        BY <2>1 DEF FinishDrain, WriteBackInv, WriteBackOK, DrainedIsSaved, Saving, SavePcs
      <3> QED BY <3>1, <3>2 DEF Live
    <2>2. ASSUME NEW p \in Players, StartEvict(z, p) PROVE actor[y][q].st.rev = actor[y][q].prev
      <3> DEFINE a == actor[z][p]
                 b == [a EXCEPT !.life = "evicting"]
      <3>1. a \in Actors /\ ActorOK(a, row[p]) /\ a.life = "ready"
            /\ a.st.rev \in Nat /\ a.prev \in Nat
        BY <1>1, <2>2, ActorFields DEF DurableInv, StartEvict, Actors, Contents
      <3>2. b.life = "evicting"
        BY <3>1 DEF Actors
      <3>3. SetActor(z, p, b) \/ (SetActor(z, p, NoActor) /\ ~Unsaved(a))
        BY <2>2 DEF StartEvict
      <3> HIDE DEF b
      <3>4. CASE SetActor(z, p, b)
        BY <1>1, <3>2, <3>4, SetActorStays DEF Stays
      <3>5. CASE SetActor(z, p, NoActor) /\ ~Unsaved(a)
        <4>1. a.st.rev = a.prev
          BY <3>1, <3>5 DEF Unsaved, ActorOK, Live
        <4>2. y = z /\ q = p
          BY <1>1, <3>5, SetActorFacts DEF Live
        <4> QED BY <4>1, <4>2
      <3> QED BY <3>3, <3>4, <3>5
    <2> QED BY <2>1, <2>2
  <1> QED
    BY <1>2, <1>3 DEF WriteBackInv, WriteBackOK, RevisionsTell

LEMMA NextRemoval ==
  ASSUME DurableInv, WriteBackInv, [Next]_vars, NEW y \in Zones, NEW q \in Players,
         actor[y][q].life \in Live, actor'[y][q].life = "absent", status'[y] = "up"
  PROVE actor[y][q].st.data \subseteq row'[q].c.data
  <1>1. CASE UNCHANGED actor
    BY <1>1 DEF Live
  <1>2. CASE Stays
    BY <1>2 DEF Stays
  <1>3. ASSUME NEW z \in Zones, ZoneStep(z)
        PROVE  actor[y][q].st.data \subseteq row'[q].c.data
    <2>1. CASE \/ \E k \in Workers, p \in Players, op \in Ops : StartRequest(z, k, p, op)
               \/ \E p \in Players : ActivationStep(z, p) \/ ActivationError(z, p)
      BY <1>2, <2>1, StartStays
    <2>2. CASE \E k \in Workers : RequestStep(z, k) \/ CancelRequest(z, k)
      BY <1>2, <2>2, RequestStays
    <2>3. CASE \E k \in Threads : SaveStep(z, k)
      BY <2>3, SaveRemoval
    <2>4. CASE \/ FlusherStep(z) \/ StartClose(z)
               \/ StartDrain(z) \/ StartPrepare(z) \/ DrainNext(z) \/ PrepareNext(z)
               \/ AdvanceFence(z) \/ Authorize(z) \/ Revoke(z) \/ Restart(z)
      BY <1>1, <2>4 DEF FlusherStep, StartFlush, FlushNext, StartClose, StartDrain,
         StartPrepare, DrainNext, PrepareNext, AdvanceFence, Authorize, Revoke, Restart
    <2>5. CASE FinishDrain(z) \/ \E p \in Players : StartEvict(z, p)
      BY <2>5, SavedRemoval
    <2>6. CASE FinishClose(z) \/ Crash(z)
      <3>1. /\ status'[z] = "down"
            /\ \A x \in Zones : x # z => actor'[x] = actor[x]
        BY <2>6 DEF FinishClose, Crash, DurableInv, TypeOK
      <3> QED BY <3>1 DEF Live
    <2> QED
      BY <1>3, <2>1, <2>2, <2>3, <2>4, <2>5, <2>6 DEF ZoneStep, ExclusiveStep
  <1> QED
    BY <1>1, <1>3 DEF Next, StoreStep, Land, Relay, vars

\* evictIdleActor and DrainShardForMigration remove an Actor of a Zone that goes
\* on only when everything the Actor holds is in the checkpoint row.
THEOREM RemovalLosesNothingTheorem == Spec => RemovalLosesNothing
  <1>1. Inv /\ [Next]_vars =>
           [\A z \in Zones, p \in Players :
              /\ actor[z][p].life \in {"ready", "evicting"}
              /\ actor'[z][p].life = "absent"
              /\ status'[z] = "up"
              => actor[z][p].st.data \subseteq row'[p].c.data]_vars
    BY NextRemoval DEF Inv, Live
  <1> QED
    BY <1>1, InvTheorem, PTL DEF Spec, RemovalLosesNothing
=============================================================================
