-------------------------- MODULE FriendInteraction --------------------------
(***************************************************************************)
(* A visitor's action on a friend's farm (steal, pest, catch, clean) touches *)
(* two Actors on two Zones.  The Saga drives a FriendInteraction record from *)
(* INIT to COMPLETED or ABORTED: reserve at the visitor, apply at the owner, *)
(* commit or release at the visitor.  The direct path, which the Zone's RPC  *)
(* uses, keeps no record: apply at the owner, then the visitor's side effect.*)
(* Any number of drivers (requests, retries, the Reconciler) may work on the *)
(* same interaction at once.                                               *)
(*                                                                         *)
(* Sources: server/internal/interaction (saga.go, action_saga.go,           *)
(* reconciler.go, tcaplus_store.go), server/internal/player (steal_crop.go, *)
(* friend_action_chance.go, apply_pest.go, catch_pest.go,                   *)
(* help_clean_plot.go, friend_action_await.go, friend_action_side_effect.go)*)
(* and server/cmd/zone/friend_rpc.go.                                      *)
(***************************************************************************)
EXTENDS Integers, FiniteSets

CONSTANTS
    Sagas,        \* interactions driven by a Saga
    Directs,      \* interactions driven by the direct path
    Steals,       \* those of them that steal a crop
    Requests,     \* goroutines that serve requests
    Reconciler,   \* the goroutine that runs ReconcileDue
    Room,         \* action chances, or free room of the crop's stack
    MaxHarvests,  \* bound on the visitor's own harvests
    MaxFaults     \* bound on failed calls, lost replies and crashes

ASSUME InteractionAssumption ==
    /\ Sagas \cap Directs = {}
    /\ Steals \subseteq Sagas \cup Directs
    /\ Sagas \subseteq Steals \/ Sagas \cap Steals = {}   \* one pool
    /\ Reconciler \notin Requests
    /\ Room \in Nat /\ MaxHarvests \in Nat /\ MaxFaults \in Nat

Interactions == Sagas \cup Directs

Drivers == Requests \cup {Reconciler}

VARIABLES
    record,      \* the FriendInteraction table: status and version
    view,        \* the farm view epoch a request carries; 0: not requested yet
    visitor,     \* the visitor Actor's state
    visitorRow,  \* its checkpoint row
    owner,       \* the owner Actor's state
    ownerRow,    \* its checkpoint row
    open,        \* the plot is eligible (stealable, free of pests, ...)
    epoch,       \* farmViewEpoch of the owner Actor in memory
    visiting,    \* interactions whose visit is still registered at the owner
    driver,      \* what each goroutine is doing
    late,        \* calls whose caller gave up and that may still be carried out
    faults,
    everApplied  \* history: interactions the owner has ever applied

vars == <<record, view, visitor, visitorRow, owner, ownerRow, open, epoch, visiting,
          driver, late, faults, everApplied>>

-----------------------------------------------------------------------------

Forward == {"INIT", "VISITOR_RESERVED", "OWNER_APPLIED", "VISITOR_COMMITTED"}

Terminal == {"COMPLETED", "ABORTED"}

Statuses == Forward \cup Terminal \cup {"RELEASING"}

\* gain counts what the visitor has been credited, room what is left of the
\* chances or of the stack.
VisitorStates ==
    [reservations : [Interactions -> {"none", "RESERVED", "CONSUMED", "RELEASED"}],
     receipts : SUBSET Interactions, gain : Nat, room : Int, harvested : Nat]

\* taken counts the times the plot was changed by a visitor.
OwnerStates == [receipts : SUBSET Interactions, taken : Nat]

Idle == [phase |-> "idle"]

\* record and version are the driver's copy of the row; next is the status it is
\* about to persist.
Tasks ==
    {Idle}
    \cup [phase : {"call", "settle", "persist"}, i : Sagas,
          status : Statuses, next : Statuses, version : Nat]
    \cup [phase : {"apply", "effect"}, i : Directs]

Calls == {"reserve", "apply", "commit", "release"}

Fault == faults < MaxFaults /\ faults' = faults + 1

Set(d, t) == driver' = [driver EXCEPT ![d] = t]

-----------------------------------------------------------------------------
(***************************************************************************)
(* The jobs of the two Actors, as functions of their state.                 *)
(***************************************************************************)

Reserved(v) == {i \in Interactions : v.reservations[i] = "RESERVED"}

\* As if reservations of others were not counted.
RoomIgnoringReserved(v) == v.room >= 1

RoomToReserve(v) == v.room >= Cardinality(Reserved(v)) + 1

\* A reservation of the same ID answers alreadyReserved, whatever its status.
Refuses(v, i) == v.reservations[i] = "none" /\ ~RoomToReserve(v)

Reserve(v, i) ==
    IF v.reservations[i] = "none" /\ RoomToReserve(v)
    THEN [v EXCEPT !.reservations[i] = "RESERVED"]
    ELSE v

\* Neither a receipt to replay nor a reservation to consume; a chance to spend
\* is needed too, but a stolen crop is added without a look at the stack.
CannotCommit(v, i) ==
    /\ i \notin v.receipts
    /\ v.reservations[i] # "RESERVED" \/ (i \notin Steals /\ v.room = 0)

\* As if the visitor's receipts were not consulted.
CreditAgain(v, i) ==
    [v EXCEPT !.receipts = @ \cup {i}, !.gain = @ + 1]

\* findFriendReceipt first: a credited interaction is not credited again.
Credit(v, i) ==
    IF i \in v.receipts THEN v
    ELSE [v EXCEPT !.receipts = @ \cup {i}, !.gain = @ + 1]

\* (The error of a career counter that overflows, after the reservation has been
\* consumed, is left out.)
Commit(v, i) ==
    IF i \in v.receipts \/ CannotCommit(v, i) THEN v
    ELSE [Credit(v, i) EXCEPT !.reservations[i] = "CONSUMED", !.room = @ - 1]

Release(v, i) ==
    IF v.reservations[i] = "RESERVED"
    THEN [v EXCEPT !.reservations[i] = "RELEASED"]
    ELSE v

\* The visit lease is looked at before the receipt; only a steal carries the view.
Accepts(o, i) ==
    /\ i \in visiting
    /\ i \in o.receipts \/ (open /\ (i \in Steals => view[i] = epoch))

\* As if the owner's receipts were not consulted.
ApplyAgain(o, i) ==
    IF Accepts(o, i)
    THEN [receipts |-> o.receipts \cup {i}, taken |-> o.taken + 1]
    ELSE o

ApplyVisitorAction(o, i) ==
    IF Accepts(o, i) /\ i \notin o.receipts
    THEN [receipts |-> o.receipts \cup {i}, taken |-> o.taken + 1]
    ELSE o

Apply(i) ==
    /\ owner' = ApplyVisitorAction(owner, i)
    /\ open' = (open /\ owner' = owner)
    /\ everApplied' = everApplied \cup owner'.receipts

-----------------------------------------------------------------------------
(***************************************************************************)
(* The Saga.                                                               *)
(***************************************************************************)

Stores == <<record, view>>
Visitor == <<visitor, visitorRow>>
Owner == <<owner, ownerRow, open, epoch, visiting, everApplied>>

Load(d, i) ==
    Set(d, [phase |-> "call", i |-> i, status |-> record'[i].status,
            next |-> record'[i].status, version |-> record'[i].version])

\* A new request names a live visit and the view it was shown; the digest keeps a
\* repeated one from naming others.
Visit(i) ==
    /\ view' = [view EXCEPT ![i] = epoch]
    /\ visiting' = visiting \cup {i}

\* Execute: createOrLoad inserts the record or loads it.
Execute(d, i) ==
    /\ driver[d] = Idle /\ record[i].status \notin Terminal
    /\ IF record[i].status = "none"
       THEN /\ record' = [record EXCEPT ![i] = [status |-> "INIT", version |-> 1]]
            /\ Visit(i)
       ELSE UNCHANGED <<record, view, visiting>>
    /\ Load(d, i)
    /\ UNCHANGED <<Visitor, owner, ownerRow, open, epoch, everApplied, late, faults>>

Due(i) == record[i].status \in Statuses \ Terminal

\* ReconcileDue meets a record that is not terminal and due; Resume loads it.  It
\* returns at the first error and skips a type it has no adapter for, so it may
\* never come to a record: nothing is assumed of it, and no process runs it.
Reconcile(i) ==
    /\ driver[Reconciler] = Idle /\ Due(i)
    /\ UNCHANGED Stores
    /\ Load(Reconciler, i)
    /\ UNCHANGED <<Visitor, Owner, late, faults>>

\* The call that belongs to the status the driver has read.
Call(d) ==
    CASE driver[d].status = "INIT" -> "reserve"
      [] driver[d].status = "VISITOR_RESERVED" -> "apply"
      [] driver[d].status = "OWNER_APPLIED" -> "commit"
      [] driver[d].status = "RELEASING" -> "release"
      [] OTHER -> "none"

At(d, call) == driver[d].phase = "call" /\ Call(d) = call

To(d, phase, next) == Set(d, [driver[d] EXCEPT !.phase = phase, !.next = next])

ReserveStep(d) ==
    LET i == driver[d].i IN
    /\ At(d, "reserve")
    /\ visitor' = Reserve(visitor, i)
    /\ IF Refuses(visitor, i) THEN To(d, "persist", "RELEASING")
       ELSE To(d, "settle", "VISITOR_RESERVED")
    /\ UNCHANGED <<Stores, visitorRow, Owner, late, faults>>

\* As if every refusal were taken for a lost reply that was applied.
RejectedAccepted(i) == "OWNER_APPLIED"

\* An error in the response is a decision, unlike an error of the call.
OwnerAnswer(i) == IF Accepts(owner, i) THEN "OWNER_APPLIED" ELSE "RELEASING"

ApplyStep(d) ==
    LET i == driver[d].i IN
    /\ At(d, "apply")
    /\ Apply(i)
    /\ To(d, "persist", OwnerAnswer(i))
    /\ UNCHANGED <<Stores, Visitor, ownerRow, epoch, visiting, late, faults>>

\* deferRetry advances the retry time, and with it the version of the record; the
\* update may fail as well.
DeferRetry(d) ==
    LET i == driver[d].i IN
    /\ Set(d, Idle)
    /\ \/ /\ record[i].version = driver[d].version
          /\ record' = [record EXCEPT ![i].version = @ + 1]
       \/ record' = record

CommitStep(d) ==
    LET i == driver[d].i IN
    /\ At(d, "commit")
    /\ visitor' = Commit(visitor, i)
    /\ IF CannotCommit(visitor, i) THEN DeferRetry(d)
       ELSE To(d, "settle", "VISITOR_COMMITTED") /\ record' = record
    /\ UNCHANGED <<view, visitorRow, Owner, late, faults>>

ReleaseStep(d) ==
    /\ At(d, "release")
    /\ visitor' = Release(visitor, driver[d].i)
    /\ To(d, "settle", "ABORTED")
    /\ UNCHANGED <<Stores, visitorRow, Owner, late, faults>>

\* As if the marker were confirmed without a write.
RowAsBefore == visitorRow

\* settleSyncStepLocked returns once the row holds the job's change.
SettledRow == visitor

Settle(d) ==
    /\ driver[d].phase = "settle"
    /\ visitorRow' = SettledRow
    /\ To(d, "persist", driver[d].next)
    /\ UNCHANGED <<Stores, visitor, Owner, late, faults>>

FinishStep(d) ==
    /\ driver[d].phase = "call" /\ driver[d].status = "VISITOR_COMMITTED"
    /\ To(d, "persist", "COMPLETED")
    /\ UNCHANGED <<Stores, Visitor, Owner, late, faults>>

\* As if the update did not check the version.
AnyVersion(d) == TRUE

SameVersion(d) == record[driver[d].i].version = driver[d].version

Written(d) ==
    [record EXCEPT ![driver[d].i] = [status |-> driver[d].next, version |-> driver[d].version + 1]]

\* Update, and on to the next step of the loop or the end of the call.
Persist(d) ==
    LET next == driver[d].next IN
    /\ driver[d].phase = "persist"
    /\ IF SameVersion(d)
       THEN /\ record' = Written(d)
            /\ Set(d, IF next \in Terminal THEN Idle
                      ELSE [driver[d] EXCEPT !.phase = "call", !.status = next,
                                             !.version = @ + 1])
       ELSE record' = record /\ Set(d, Idle)
    /\ UNCHANGED <<view, Visitor, Owner, late, faults>>

-----------------------------------------------------------------------------
(***************************************************************************)
(* Failures of a driver's calls.                                           *)
(***************************************************************************)

\* The caller gives up on a call that is not carried out, or not yet.
CallFails(d) ==
    LET i == driver[d].i IN
    /\ driver[d].phase = "call" /\ Call(d) # "none"
    /\ Fault
    /\ late' = late \/ late' = late \cup {[call |-> Call(d), i |-> i]}
    /\ IF Call(d) = "release" THEN To(d, "persist", "ABORTED") /\ record' = record
       ELSE DeferRetry(d)
    /\ UNCHANGED <<view, Visitor, Owner>>

\* The owner applies the action and the reply is lost.
ReplyLost(d) ==
    /\ At(d, "apply")
    /\ Fault
    /\ Apply(driver[d].i)
    /\ DeferRetry(d)
    /\ UNCHANGED <<view, Visitor, ownerRow, epoch, visiting, late>>

\* The job is done and its save fails.  The error of a release is ignored.
SettleFails(d) ==
    /\ driver[d].phase = "settle"
    /\ Fault
    /\ IF driver[d].next = "ABORTED" THEN To(d, "persist", "ABORTED") /\ record' = record
       ELSE DeferRetry(d)
    /\ UNCHANGED <<view, Visitor, Owner, late>>

\* The update fails, or it succeeds without its caller learning so.
PersistFails(d) ==
    /\ driver[d].phase = "persist"
    /\ Fault
    /\ Set(d, Idle)
    /\ record' = record \/ (SameVersion(d) /\ record' = Written(d))
    /\ UNCHANGED <<view, Visitor, Owner, late>>

-----------------------------------------------------------------------------
(***************************************************************************)
(* The direct path.  A client may send the same request again.              *)
(***************************************************************************)

ExecuteDirect(d, i) ==
    /\ driver[d] = Idle
    /\ IF view[i] = 0 THEN Visit(i) ELSE UNCHANGED <<view, visiting>>
    /\ Set(d, [phase |-> "apply", i |-> i])
    /\ UNCHANGED <<record, Visitor, owner, ownerRow, open, epoch, everApplied, late, faults>>

\* AwaitFriendOwnerCall: the visitor's mailbox is free during the call.
AwaitOwner(d) ==
    LET i == driver[d].i IN
    /\ driver[d].phase = "apply"
    /\ Apply(i)
    /\ Set(d, IF OwnerAnswer(i) = "OWNER_APPLIED" THEN [driver[d] EXCEPT !.phase = "effect"] ELSE Idle)
    /\ UNCHANGED <<Stores, Visitor, ownerRow, epoch, visiting, late, faults>>

AwaitFails(d) ==
    LET i == driver[d].i IN
    /\ driver[d].phase = "apply"
    /\ Fault
    /\ Set(d, Idle)
    /\ \/ /\ Apply(i) /\ late' = late
       \/ /\ late' = late \/ late' = late \cup {[call |-> "apply", i |-> i]}
          /\ UNCHANGED <<owner, open, everApplied>>
    /\ UNCHANGED <<Stores, Visitor, ownerRow, epoch, visiting>>

\* ApplyVisitorFriendSideEffect only marks the visitor dirty.
SideEffect(d) ==
    /\ driver[d].phase = "effect"
    /\ visitor' = Credit(visitor, driver[d].i)
    /\ Set(d, Idle)
    /\ UNCHANGED <<Stores, visitorRow, Owner, late, faults>>

SideEffectFails(d) ==
    /\ driver[d].phase = "effect"
    /\ Fault
    /\ Set(d, Idle)
    /\ UNCHANGED <<Stores, Visitor, Owner, late>>

-----------------------------------------------------------------------------
(***************************************************************************)
(* Everything else that happens to the two Actors.                          *)
(***************************************************************************)

\* A call its caller has given up on is carried out after all.
LateCall(c) ==
    /\ late' = late \ {c}
    /\ \/ /\ c.call = "apply" /\ Apply(c.i) /\ visitor' = visitor
       \/ /\ c.call # "apply"
          /\ visitor' = CASE c.call = "reserve" -> Reserve(visitor, c.i)
                          [] c.call = "commit" -> Commit(visitor, c.i)
                          [] c.call = "release" -> Release(visitor, c.i)
          /\ UNCHANGED <<owner, open, everApplied>>
    /\ UNCHANGED <<Stores, visitorRow, ownerRow, epoch, visiting, driver, faults>>

\* The visitor's own harvest fills the stack without a look at reservations.
VisitorHarvest ==
    /\ Sagas \subseteq Steals /\ visitor.harvested < MaxHarvests /\ visitor.room > 0
    /\ visitor' = [visitor EXCEPT !.room = @ - 1, !.harvested = @ + 1]
    /\ UNCHANGED <<Stores, visitorRow, Owner, driver, late, faults>>

\* The owner's commands and ticks make the plot eligible and ineligible again.
OwnerCommand ==
    /\ open' = ~open
    /\ UNCHANGED <<Stores, Visitor, owner, ownerRow, epoch, visiting, driver, late, faults, everApplied>>

\* The visitor leaves, or the visit lease expires; whoever enters
\* again is given another visit.
VisitEnds ==
    /\ visiting # {}
    /\ visiting' = {}
    /\ UNCHANGED <<Stores, Visitor, owner, ownerRow, open, epoch, driver, late, faults, everApplied>>

FlushVisitor ==
    /\ visitorRow # visitor
    /\ visitorRow' = visitor
    /\ UNCHANGED <<Stores, visitor, Owner, driver, late, faults>>

FlushOwner ==
    /\ ownerRow # owner
    /\ ownerRow' = owner
    /\ UNCHANGED <<Stores, Visitor, owner, open, epoch, visiting, everApplied, driver, late, faults>>

\* The visitor's Actor is lost.  Goroutines of another Zone survive, but not the
\* ones that wait for this Actor's row; jobs in its mailbox are gone.
CrashVisitor(survivors) ==
    /\ Fault
    /\ \A d \in survivors : driver[d].phase \notin {"idle", "settle"}
    /\ visitor' = visitorRow
    /\ driver' = [d \in Drivers |-> IF d \in survivors THEN driver[d] ELSE Idle]
    /\ late' = {c \in late : c.call = "apply"}
    /\ UNCHANGED <<Stores, visitorRow, Owner>>

\* The owner's Actor is lost; the next activation draws a new farm view epoch, and
\* the visits registered in memory are gone.
CrashOwner ==
    /\ Fault
    /\ owner' = ownerRow
    /\ epoch' = epoch + 1
    /\ visiting' = {}
    /\ UNCHANGED <<Stores, Visitor, ownerRow, open, driver, late, everApplied>>

-----------------------------------------------------------------------------

Init ==
    /\ record = [i \in Sagas |-> [status |-> "none", version |-> 0]]
    /\ view = [i \in Interactions |-> 0]
    /\ visitor = [reservations |-> [i \in Interactions |-> "none"], receipts |-> {},
                  gain |-> 0, room |-> Room, harvested |-> 0]
    /\ visitorRow = visitor
    /\ owner = [receipts |-> {}, taken |-> 0]
    /\ ownerRow = owner
    /\ open = TRUE /\ epoch = 1 /\ visiting = {}
    /\ driver = [d \in Drivers |-> Idle]
    /\ late = {} /\ faults = 0 /\ everApplied = {}

SagaStep(d) ==
    \/ ReserveStep(d) \/ ApplyStep(d) \/ CommitStep(d) \/ ReleaseStep(d)
    \/ Settle(d) \/ FinishStep(d) \/ Persist(d)

DirectStep(d) == AwaitOwner(d) \/ SideEffect(d)

Interrupt(d) ==
    \/ CallFails(d) \/ ReplyLost(d) \/ SettleFails(d) \/ PersistFails(d)
    \/ AwaitFails(d) \/ SideEffectFails(d)

Next ==
    \/ \E d \in Requests :
        \/ \E i \in Sagas : Execute(d, i)
        \/ \E i \in Directs : ExecuteDirect(d, i)
    \/ \E i \in Sagas : Reconcile(i)
    \/ \E d \in Drivers : SagaStep(d) \/ DirectStep(d) \/ Interrupt(d)
    \/ \E c \in late : LateCall(c)
    \/ \E survivors \in SUBSET Drivers : CrashVisitor(survivors)
    \/ VisitorHarvest \/ OwnerCommand \/ VisitEnds
    \/ FlushVisitor \/ FlushOwner \/ CrashOwner

Spec == Init /\ [][Next]_vars

\* Goroutines that have begun are scheduled; nobody has to begin, or to reconcile.
FairSpec == Spec /\ \A d \in Drivers : WF_vars(SagaStep(d) \/ DirectStep(d))

-----------------------------------------------------------------------------
(***************************************************************************)
(* Properties.                                                             *)
(***************************************************************************)

TypeOK ==
    /\ record \in [Sagas -> [status : Statuses \cup {"none"}, version : Nat]]
    /\ view \in [Interactions -> Nat]
    /\ visitor \in VisitorStates /\ visitorRow \in VisitorStates
    /\ owner \in OwnerStates /\ ownerRow \in OwnerStates
    /\ open \in BOOLEAN /\ epoch \in Nat /\ visiting \in SUBSET Interactions
    /\ driver \in [Drivers -> Tasks]
    /\ late \in SUBSET [call : Calls, i : Interactions]
    /\ faults \in 0..MaxFaults
    /\ everApplied \in SUBSET Interactions

\* However often a step is retried, replayed, carried out late or by two drivers
\* at once, and whatever crashes in between, each Actor's state holds one effect
\* per interaction: the plot was taken once per owner receipt and the visitor
\* credited once per visitor receipt.
OneEffectEach ==
    /\ \A o \in {owner, ownerRow} : o.taken = Cardinality(o.receipts)
    /\ \A v \in {visitor, visitorRow} : v.gain = Cardinality(v.receipts)

\* Nobody is credited for an action the owner refused or never saw.
CreditedWasApplied == visitor.receipts \cup visitorRow.receipts \subseteq everApplied

\* The record, which several drivers move, agrees with the visitor: an aborted
\* interaction is never credited, and one that is past its commit has its
\* receipt in the visitor's row, whatever crashes.
OutcomeAgrees ==
    \A i \in Sagas :
        /\ record[i].status \in {"RELEASING", "ABORTED"} =>
               i \notin visitor.receipts \cup visitorRow.receipts
        /\ record[i].status \in {"VISITOR_COMMITTED", "COMPLETED"} =>
               i \in visitor.receipts \cap visitorRow.receipts

\* Chances are never promised to more interactions than there are; the visitor's
\* own harvests are all that can overfill a stack.
ReservationsFit == Cardinality(Reserved(visitor)) <= visitor.room + visitor.harvested

\* An interaction that is past the owner's step still holds what it reserved, in
\* memory and in the row, so its commit cannot fail for want of a reservation.
AppliedCanCommit ==
    \A i \in Sagas : record[i].status = "OWNER_APPLIED" =>
        \A v \in {visitor, visitorRow} : i \in v.receipts \/ v.reservations[i] = "RESERVED"

-----------------------------------------------------------------------------
(***************************************************************************)
(* The inductive invariant.                                                *)
(***************************************************************************)

Done == {"OWNER_APPLIED", "VISITOR_COMMITTED", "COMPLETED"}
Gone == {"RELEASING", "ABORTED"}

\* What a status says of the Actors: it stays true whatever happens.
Backed(i, s) ==
    /\ s \in {"VISITOR_RESERVED"} \cup Done => visitorRow.reservations[i] # "none"
    /\ s \in Done => i \in everApplied
    /\ s \in {"VISITOR_COMMITTED", "COMPLETED"} => i \in visitorRow.receipts

\* What the owner applied is committed, what is being released is aborted.
Succeeds(s, t) == (s \in Done => t \in Done) /\ (s \in Gone => t \in Gone)

Balanced(v) ==
    /\ IsFiniteSet(v.receipts) /\ v.gain = Cardinality(v.receipts)
    /\ IsFiniteSet(Reserved(v)) /\ Cardinality(Reserved(v)) <= v.room + v.harvested
    /\ \A i \in Interactions : v.reservations[i] = "CONSUMED" => i \in v.receipts

\* What a visitor's state says of the records.
Explained(v) ==
    /\ v.receipts \subseteq everApplied
    /\ \A i \in Sagas :
        /\ i \in v.receipts => record[i].status \in Done
        /\ v.reservations[i] = "RELEASED" => record[i].status \in Gone

\* v is a later state of the visitor than w, or the same.
Later(v, w) ==
    /\ w.receipts \subseteq v.receipts
    /\ \A i \in Interactions : w.reservations[i] # "none" => v.reservations[i] # "none"

OwnerOK(o) ==
    IsFiniteSet(o.receipts) /\ o.taken = Cardinality(o.receipts) /\ o.receipts \subseteq everApplied

Driving(d) == driver[d].phase \in {"call", "settle", "persist"}

\* A driver has read the record as it is or as it was; what it is about to write
\* will be true.
DriverOK(d) ==
    LET t == driver[d] IN
    /\ t.version <= record[t.i].version /\ record[t.i].status # "none"
    /\ t.version = record[t.i].version => t.status = record[t.i].status
    /\ Backed(t.i, t.status) /\ Succeeds(t.status, record[t.i].status)
    /\ t.phase \in {"settle", "persist"} => Succeeds(t.status, t.next)
    /\ t.phase = "settle" =>
        /\ t.next \in {"VISITOR_RESERVED", "VISITOR_COMMITTED", "ABORTED"}
        /\ t.next = "VISITOR_RESERVED" => visitor.reservations[t.i] # "none"
        /\ t.next = "VISITOR_COMMITTED" => t.status = "OWNER_APPLIED" /\ t.i \in visitor.receipts
    /\ t.phase = "persist" => Backed(t.i, t.next)

LateOK(c) ==
    c.call # "apply" =>
        /\ c.i \in Sagas
        /\ c.call = "commit" => record[c.i].status \in Done /\ c.i \in everApplied
        /\ c.call = "release" => record[c.i].status \in Gone

Inv ==
    /\ TypeOK
    /\ \A v \in {visitor, visitorRow} : Balanced(v) /\ Explained(v)
    /\ Later(visitor, visitorRow)
    /\ \A o \in {owner, ownerRow} : OwnerOK(o)
    /\ \A i \in Sagas : Backed(i, record[i].status)
    /\ \A d \in Drivers : Driving(d) => DriverOK(d)
    /\ \A d \in Drivers : driver[d].phase = "effect" => driver[d].i \in everApplied
    /\ \A c \in late : LateOK(c)

\* A request that is repeated as long as it can be, which is what MemoryStore
\* leaves an interrupted interaction to, brings it to an end, COMPLETED or
\* ABORTED, without the Reconciler's help and in spite of its interference.
RetriedEnds ==
    \A i \in Sagas :
        SF_vars(\E d \in Requests : Execute(d, i)) =>
            (record[i].status # "none" ~> record[i].status \in Terminal)
=============================================================================
