-------------------------- MODULE PlayerRuntimeInv --------------------------
(***************************************************************************)
(* The inductive invariant of the runtime.  First the part behind          *)
(* AckedDurable and RowExtends.                                            *)
(*                                                                         *)
(* The idea: whoever holds the current version token of a row (a resident  *)
(* Actor, a save in flight, a request that was given up) holds a state     *)
(* that contains everything in the row.  So a conditional update can only  *)
(* extend the row, and an Actor's persistedRevision tells the truth about  *)
(* which of its Saga steps are in the row.                                 *)
(***************************************************************************)
EXTENDS PlayerRuntime

Live == {"ready", "evicting"}

\* The holder of token tok, with state c, may overwrite row r only if c
\* extends it.
Extends(c, tok, r) ==
    /\ tok <= r.ver
    /\ tok = r.ver => r.c.data \subseteq c.data /\ r.c.epoch <= c.epoch

RowOK(r) == r.ver = 0 => r.c = NoContent

\* A resident Actor: a Saga step it holds is in the row, or its marker is
\* above the revision known to be persisted.
ActorOK(a, r) ==
    a.life \in Live =>
        /\ Extends(a.st, a.ptok, r)
        /\ a.prev <= a.st.rev
        /\ \A o \in SyncOps : /\ a.marks[o] <= a.st.rev
                              /\ o \in a.st.data /\ a.marks[o] <= a.prev
                                 => o \in r.c.data

\* A save in flight on behalf of Actor a.
SnapOK(t, a, r) ==
    /\ a.life \in Live
    /\ t.snap.data \subseteq a.st.data
    /\ t.snap.rev <= a.st.rev
    /\ t.snap.epoch <= a.st.epoch
    /\ \A o \in SyncOps : o \in a.st.data /\ a.marks[o] <= t.snap.rev
                          => o \in t.snap.data \/ o \in r.c.data

\* The row has been written (or found to be written) with the snapshot.
WrittenOK(t, r) ==
    /\ t.snap.data \subseteq r.c.data
    /\ Extends(t.snap, t.newtok, r)

SaveOK(t, a, r) ==
    t.pc \in SavePcs =>
        /\ Extends(t.snap, t.tok, r)
        /\ t.pc \in {"outbox", "ack"} => WrittenOK(t, r)
        /\ t.job # "prepare" => SnapOK(t, a, r)
        /\ t.job = "prepare" => t.pc \notin {"ack", "verify"}

\* A Saga step between its execution and its answer.
SettlePcs == {"inspect", "mark", "flush", "confirm"} \cup SavePcs
SettleOK(t, a) ==
    t.pc \in SettlePcs =>
        /\ t.op \in SyncOps
        /\ a.life \in Live
        /\ t.op \in a.st.data
        /\ t.pc # "inspect" => a.marks[t.op] <= t.mrev

\* Which goroutine may be at which job, and for whom.
ShapeOK(k, t) ==
    /\ t.pc # "idle" =>
          t.job \in (IF k = "flusher" THEN {"flush"}
                     ELSE IF k = "exclusive" THEN {"evict", "drain", "prepare"}
                     ELSE {"command"})
    /\ t.pc \notin {"idle", "next"} => t.p \in Players
    /\ k \notin Workers => t.pc \in {"idle", "next"} \cup SavePcs
    /\ k \in Workers => t.pc \notin {"next", "verify"}
    /\ k \in Workers /\ t.pc # "idle" => t.op \in Ops
    /\ k = "flusher" => t.pc # "verify"
    /\ t.job = "evict" => t.pc # "next"

TaskOK(k, t, acts, rows) ==
    /\ ShapeOK(k, t)
    /\ t.pc \notin {"idle", "next"} => SaveOK(t, acts[t.p], rows[t.p])
    /\ k \in Workers /\ t.pc # "idle" => SettleOK(t, acts[t.p])

LateOK(r, row_) == Extends(r.snap, r.tok, row_) /\ r.snap.rev > r.exp

\* The write lock excludes readers; only a Zone that is up has requests.
LockOK(z) ==
    /\ Writing(z) => ~Reading(z)
    /\ status[z] # "up" => /\ \A k \in Workers : task[z][k].pc = "idle"
                           /\ task[z]["exclusive"].pc = "idle"
    /\ \A p \in Players : actor[z][p].life = "evicting" =>
           /\ task[z]["exclusive"].pc \in SavePcs
           /\ task[z]["exclusive"].job = "evict"
           /\ task[z]["exclusive"].p = p

\* Answered Saga steps are durable, and rows only grow.
DurableInv ==
    /\ TypeOK
    /\ \A p \in Players : RowOK(row[p])
    /\ \A z \in Zones, p \in Players : ActorOK(actor[z][p], row[p])
    /\ \A z \in Zones, k \in Threads :
          TaskOK(k, task[z][k], actor[z], row)
    /\ \A r \in late : LateOK(r, row[r.p])
    /\ \A z \in Zones : LockOK(z)
    /\ AckedDurable

-----------------------------------------------------------------------------
(***************************************************************************)
(* Outbox entries: every copy of a checkpoint still owes, or has had        *)
(* delivered, the events of the mutations it contains.                     *)
(***************************************************************************)

OwesEvents(c, box) ==
    /\ c.pend \subseteq c.data
    /\ \A o \in OutboxOps \cap c.data : o \in c.pend \/ box[o] = "delivered"

Saving(t, p) == t.pc \in SavePcs /\ t.p = p

OutboxInv ==
    /\ \A p \in Players : OwesEvents(row[p].c, outbox[p])
    /\ \A p \in Players, o \in OutboxOps : outbox[p][o] # "none" => o \in row[p].c.data
    /\ \A z \in Zones, p \in Players : OwesEvents(actor[z][p].st, outbox[p])
    /\ \A z \in Zones, k \in Threads, p \in Players :
          Saving(task[z][k], p) => OwesEvents(task[z][k].snap, outbox[p])
    /\ \A r \in late : OwesEvents(r.snap, outbox[r.p])

-----------------------------------------------------------------------------
(***************************************************************************)
(* The dirty map.  A save clears the entry of the revision it has written;  *)
(* what was executed after its snapshot is noted with a later revision, or  *)
(* will be.                                                                *)
(***************************************************************************)

\* Ordinary commands that only the Actor knows of.
Unwritten(z, p) == actor[z][p].st.data \ (SyncOps \cup row[p].c.data)

Noting(t, p, rev) == t.pc = "dirty" /\ t.p = p /\ t.target > rev

Noted(z, p, rev) ==
    dirty[z][p] > rev \/ \E k \in Workers : Noting(task[z][k], p, rev)

DirtyOK(z, p) ==
    actor[z][p].life \in Live =>
        /\ Unwritten(z, p) # {} => Noted(z, p, 0)
        /\ \A k \in Threads :
              Saving(task[z][k], p) /\ task[z][k].job # "prepare" =>
                  \/ Unwritten(z, p) \subseteq task[z][k].snap.data
                  \/ Noted(z, p, task[z][k].snap.rev)

-----------------------------------------------------------------------------
(***************************************************************************)
(* Removal.  Revisions tell whether everything is saved, and the holder of  *)
(* the write lock saves what the Actor has to the last.                    *)
(***************************************************************************)

\* The row has all of an Actor whose revision is persisted; a snapshot has
\* all of an Actor that is still at its revision.
RevisionsTell(z, p) ==
    LET a == actor[z][p] IN
    a.life \in Live =>
        /\ a.st.rev = a.prev => a.st.data \subseteq row[p].c.data
        /\ \A k \in Threads :
              /\ Saving(task[z][k], p)
              /\ task[z][k].job # "prepare"
              /\ task[z][k].snap.rev = a.st.rev
              => a.st.data \subseteq task[z][k].snap.data

\* Eviction and drain save the last revision.
SavesTheLast(z) ==
    LET t == task[z]["exclusive"] IN
    t.pc \in SavePcs /\ t.job # "prepare" => t.snap.rev = actor[z][t.p].st.rev

\* An Actor that a drain has dealt with is absent or saved.
DrainedIsSaved(z) ==
    LET t == task[z]["exclusive"] IN
    t.pc # "idle" /\ t.job = "drain" =>
        \A p \in Players \ t.todo :
            \/ Saving(t, p)
            \/ actor[z][p].life = "absent"
            \/ actor[z][p].life = "ready" /\ actor[z][p].st.rev = actor[z][p].prev

WriteBackOK(z) ==
    /\ \A p \in Players : DirtyOK(z, p) /\ RevisionsTell(z, p)
    /\ SavesTheLast(z)
    /\ DrainedIsSaved(z)

WriteBackInv == \A z \in Zones : WriteBackOK(z)

\* The inductive invariant: rows and copies of checkpoints only grow and keep
\* owing their events, the dirty map misses nothing, and the revisions by
\* which eviction and drain decide are right.
Inv == DurableInv /\ OutboxInv /\ WriteBackInv
=============================================================================
