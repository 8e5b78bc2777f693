------------------------ MODULE ShardMigrationProofs ------------------------
(***************************************************************************)
(* Proofs about ShardMigration, for every set of replicas and Zones and     *)
(* every bound: the invariant Inv is inductive, and the three rows of a     *)
(* shard implement ShardOwnership, however many leaders write them.         *)
(***************************************************************************)
EXTENDS ShardMigration, TLAPS

(***************************************************************************)
(* Types of the rows' values.                                              *)
(***************************************************************************)

LEMMA ConstantTypes ==
  /\ FirstRoute \in Entries /\ NoTask \in Tasks /\ NoProgress \in Progress
  /\ Idle \in Workers /\ FenceOf(FirstRoute) \in Fences
  /\ NoMarker \in [epoch : Nat, tr : Nat]
  BY MigrationAssumption DEF FirstRoute, NoTask, NoProgress, Idle, FenceOf, NoMarker, Entries,
     Tasks, Progress, Workers, Fences, Sources, Source, Phases, RouteActive

LEMMA EntryTypes ==
  ASSUME NEW e \in Entries
  PROVE Source(e) \in Sources /\ FenceOf(e) \in Fences
  BY DEF Entries, Source, FenceOf, Sources, Fences

LEMMA GotoFacts ==
  ASSUME worker \in [Replicas -> Workers], NEW r \in Replicas, NEW ph \in Phases, Goto(r, ph)
  PROVE /\ worker' \in [Replicas -> Workers]
        /\ worker'[r].phase = ph /\ worker'[r].prog = worker[r].prog
        /\ \A q \in Replicas \ {r} : worker'[q] = worker[q]
  BY DEF Goto, Workers

LEMMA QuitFacts ==
  ASSUME worker \in [Replicas -> Workers], NEW r \in Replicas, NEW ph \in Phases, Quit(r, ph)
  PROVE /\ worker' \in [Replicas -> Workers]
        /\ worker'[r].phase = ph /\ worker'[r].prog = NoProgress
        /\ \A q \in Replicas \ {r} : worker'[q] = worker[q]
  BY ConstantTypes DEF Quit, Workers

LEMMA ContinueFacts ==
  ASSUME worker \in [Replicas -> Workers], NEW r \in Replicas, NEW p \in Progress, Continue(r, p)
  PROVE /\ worker' \in [Replicas -> Workers]
        /\ worker'[r].phase = "work" /\ worker'[r].prog = p
        /\ \A q \in Replicas \ {r} : worker'[q] = worker[q]
  <1>1. [phase |-> "work", id |-> worker[r].id, prog |-> p] \in Workers
    BY DEF Workers, Phases
  <1> QED
    BY <1>1 DEF Continue

LEMMA SetFacts ==
  ASSUME worker \in [Replicas -> Workers], NEW r \in Replicas, NEW w \in Workers,
         worker' = [worker EXCEPT ![r] = w]
  PROVE /\ worker' \in [Replicas -> Workers]
        /\ worker'[r] = w
        /\ \A q \in Replicas \ {r} : worker'[q] = worker[q]
  OBVIOUS

LEMMA TaskTypes ==
  ASSUME TypeOK, NEW st \in {"PLANNED", "RUNNING", "COMPLETED", "CANCELLED"}
  PROVE /\ [task EXCEPT !.status = st] \in Tasks
        /\ [task EXCEPT !.status = st].id = task.id
  BY DEF TypeOK, Tasks

(***************************************************************************)
(* TypeOK, action by action.                                               *)
(***************************************************************************)

LEMMA PlanningTypes ==
  ASSUME TypeOK, NEW r \in Replicas,
         \/ \E z \in Zones : Move(r, z) \/ \E p \in Priorities : Propose(r, z, p)
         \/ CancelStale(r)
  PROVE TypeOK'
  <1>1. ASSUME NEW z \in Zones, NEW p \in {1, 2}, UpsertPlanned(r, z, p) PROVE TypeOK'
    <2>1. Source(cur[r]) \in Sources
      BY EntryTypes DEF TypeOK
    <2>2. task' \in Tasks
      BY <1>1, <2>1 DEF UpsertPlanned, TypeOK, Tasks
    <2> QED
      BY <1>1, <2>2 DEF UpsertPlanned, TypeOK, Rows, Zone, Election
  <1>2. CASE CancelStale(r)
    BY <1>2, TaskTypes, ConstantTypes DEF CancelStale, TypeOK, Rows, Zone, Election
  <1>3. \A z \in Zones : Move(r, z) => UpsertPlanned(r, z, 2)
    BY DEF Move
  <1>4. \A z \in Zones, p \in Priorities : Propose(r, z, p) => UpsertPlanned(r, z, p)
    BY DEF Propose
  <1> QED
    BY <1>1, <1>2, <1>3, <1>4, MigrationAssumption

LEMMA ClaimTypes ==
  ASSUME TypeOK, NEW r \in Replicas, Claim(r)
  PROVE TypeOK'
  <1>1. task' \in Tasks /\ task.id \in Nat
    BY TaskTypes DEF Claim, TypeOK, Tasks
  <1>2. [Idle EXCEPT !.phase = "claimed", !.id = task.id] \in Workers
    BY <1>1, ConstantTypes DEF Idle, Workers, Phases
  <1> QED
    BY <1>1, <1>2 DEF Claim, TypeOK, Rows, Zone, Election

LEMMA PreparedTypes ==
  ASSUME NEW e \in Entries, NEW z \in Zones, NEW t \in Nat
  PROVE /\ Prepared(e, z, t) \in Entries
        /\ Prepared(e, z, t).state = "PREPARING" /\ Prepared(e, z, t).tr = t
        /\ Prepared(e, z, t).epoch = e.epoch + 1
  BY DEF Prepared, Entries

\* Begin keeps the rows but the counter; the worker holds the row it read, a new
\* progress with a fresh transition ID, or nothing.
LEMMA BeginFacts ==
  ASSUME TypeOK, NEW r \in Replicas, Begin(r)
  PROVE /\ UNCHANGED <<route, fence, prog, Unshared, cur, Zone, faults>>
        /\ worker' \in [Replicas -> Workers]
        /\ \A q \in Replicas \ {r} : worker'[q] = worker[q]
        /\ worker'[r].phase \in {"fail", "work", "done", "create"}
        /\ \/ trs' = trs /\ worker'[r].prog \in {prog, NoProgress}
           \/ /\ trs' = trs + 1
              /\ worker'[r].prog.step = SourceDraining
              /\ worker'[r].prog.prepared.state = "PREPARING"
              /\ worker'[r].prog.prepared.tr = trs + 1
              /\ worker'[r].prog.prepared.epoch = worker'[r].prog.source.epoch + 1
  <1> DEFINE w == worker[r]
             mine == task.status = "RUNNING" /\ task.id = w.id
             next == IF ~mine THEN "fail"
                     ELSE IF prog.step # 0
                          THEN IF ProgressMatchesTask(prog, task) THEN "work" ELSE "fail"
                          ELSE IF CompletedTaskRoute(task, cur[r]) THEN "done"
                               ELSE IF TaskMatchesSource(task, cur[r]) THEN "create" ELSE "fail"
             new == [step |-> SourceDraining, source |-> task.source,
                     prepared |-> Prepared(cur[r], task.target, trs + 1)]
             held == CASE next = "work" -> prog
                       [] next = "create" -> new
                       [] OTHER -> NoProgress
             nw == [phase |-> next, id |-> w.id, prog |-> held]
  <1>1. /\ worker' = [worker EXCEPT ![r] = nw]
        /\ trs' = IF next = "create" THEN trs + 1 ELSE trs
        /\ UNCHANGED <<route, fence, prog, Unshared, cur, Zone, faults>>
    BY DEF Begin
  <1>2. next \in {"fail", "work", "done", "create"}
    OBVIOUS
  <1>3. /\ cur[r] \in Entries /\ task.target \in Zones /\ task.source \in Sources
        /\ trs + 1 \in Nat /\ w.id \in Nat
    BY DEF TypeOK, Tasks, Workers
  <1>4. new \in Progress
    BY <1>3, PreparedTypes DEF Progress, SourceDraining, RouteActive
  <1>5. next = "create" => task.source.epoch = cur[r].epoch
    BY DEF TaskMatchesSource, Source
  <1>6. /\ new.step = SourceDraining /\ new.prepared.state = "PREPARING"
        /\ new.prepared.tr = trs + 1 /\ new.prepared.epoch = cur[r].epoch + 1
        /\ new.source = task.source
    BY <1>3, PreparedTypes
  <1>7. \/ next = "work" /\ held = prog
        \/ next = "create" /\ held = new
        \/ next \in {"fail", "done"} /\ held = NoProgress
    BY <1>2
  <1> HIDE DEF new, next, held
  <1>8. nw \in Workers
    BY <1>2, <1>3, <1>4, <1>7, ConstantTypes DEF Workers, Phases, TypeOK
  <1>9. worker'[r] = nw /\ worker' \in [Replicas -> Workers]
        /\ \A q \in Replicas \ {r} : worker'[q] = worker[q]
    BY <1>1, <1>8, SetFacts DEF TypeOK
  <1>10. CASE next = "create"
    BY <1>1, <1>2, <1>5, <1>6, <1>7, <1>9, <1>10
  <1>11. CASE next # "create"
    BY <1>1, <1>2, <1>7, <1>9, <1>11
  <1> QED
    BY <1>10, <1>11

LEMMA BeginTypes ==
  ASSUME TypeOK, NEW r \in Replicas, Begin(r)
  PROVE TypeOK'
  <1>1. trs' \in Nat
    BY BeginFacts DEF TypeOK
  <1> QED
    BY <1>1, BeginFacts DEF TypeOK, Unshared, Zone

LEMMA CreateTypes ==
  ASSUME TypeOK, NEW r \in Replicas, Create(r)
  PROVE TypeOK'
  <1>1. worker[r].prog \in Progress /\ "fail" \in Phases /\ "work" \in Phases
    BY DEF TypeOK, Workers, Phases
  <1>2. worker' \in [Replicas -> Workers] /\ prog' \in Progress
    BY <1>1, GotoFacts, QuitFacts DEF Create, TypeOK
  <1> QED
    BY <1>2 DEF Create, TypeOK, Unshared, Zone

LEMMA MarkerTypes ==
  ASSUME TypeOK, NEW r \in Replicas, DrainSource(r)
  PROVE marker' \in [Zones -> [epoch : Nat, tr : Nat]]
  <1> DEFINE p == worker[r].prog
             z == p.source.owner
  <1>1. p.source.owner \in Zones /\ p.source.epoch \in Nat /\ p.prepared.tr \in Nat
    BY DEF TypeOK, Workers, Progress, Sources, Entries
  <1>2. \/ marker' = [marker EXCEPT ![z] = [epoch |-> p.source.epoch, tr |-> p.prepared.tr]]
        \/ marker' = [marker EXCEPT ![z] = NoMarker] \/ marker' = marker
    BY DEF DrainSource, Resume
  <1> QED
    BY <1>1, <1>2, ConstantTypes DEF TypeOK

LEMMA PhaseTypes ==
  {"check", "retry", "fail", "done", "write", "work"} \subseteq Phases
  BY DEF Phases

\* The steps that only look or talk to a Zone.
LEMMA DrainSourceTypes ==
  ASSUME TypeOK, NEW r \in Replicas, DrainSource(r)
  PROVE TypeOK'
  <1>1. Goto(r, "check") \/ Quit(r, "retry")
    BY DEF DrainSource
  <1>2. worker' \in [Replicas -> Workers]
    BY <1>1, GotoFacts, QuitFacts, PhaseTypes DEF TypeOK
  <1>3. faults' \in 0..MaxFaults
    BY MigrationAssumption DEF DrainSource, Fault, TypeOK
  <1> QED
    BY <1>2, <1>3, MarkerTypes DEF DrainSource, TypeOK, Rows, Unshared

LEMMA LookTypes ==
  ASSUME TypeOK, NEW r \in Replicas,
         EnterLoading(r) \/ PrepareTarget(r) \/ EnterCompletion(r)
  PROVE TypeOK'
  <1>1. Goto(r, "check") \/ Quit(r, "retry")
    BY DEF EnterLoading, PrepareTarget, EnterCompletion
  <1>2. worker' \in [Replicas -> Workers]
    BY <1>1, GotoFacts, QuitFacts, PhaseTypes DEF TypeOK
  <1> QED
    BY <1>2 DEF EnterLoading, PrepareTarget, EnterCompletion, TypeOK, Rows, Unshared, Zone

LEMMA HeldTypes ==
  ASSUME TypeOK, NEW r \in Replicas
  PROVE /\ worker[r].prog \in Progress /\ worker[r].prog.prepared \in Entries
        /\ worker[r].prog.source \in Sources /\ worker[r].prog.step \in 0..RouteActive
        /\ worker[r].id \in Nat
  BY DEF TypeOK, Workers, Progress

LEMMA ActivatedTypes ==
  ASSUME NEW e \in Entries, NEW a, a = [e EXCEPT !.state = "ACTIVE", !.ver = @ + 1]
  PROVE /\ a \in Entries /\ a.state = "ACTIVE"
        /\ a.owner = e.owner /\ a.epoch = e.epoch /\ a.tr = e.tr
  <1>1. e = [state |-> e.state, owner |-> e.owner, epoch |-> e.epoch, ver |-> e.ver,
             prev |-> e.prev, tr |-> e.tr]
    BY DEF Entries
  <1>2. a = [state |-> "ACTIVE", owner |-> e.owner, epoch |-> e.epoch, ver |-> e.ver + 1,
             prev |-> e.prev, tr |-> e.tr]
    BY <1>1
  <1>3. e.owner \in Zones /\ e.epoch \in Nat /\ e.ver + 1 \in Nat /\ e.prev \in Zones /\ e.tr \in Nat
    BY DEF Entries
  <1> HIDE <1>1
  <1> QED
    BY <1>2, <1>3 DEF Entries

LEMMA CommitTypes ==
  ASSUME TypeOK, NEW r \in Replicas, CommitPreparing(r) \/ CommitActive(r)
  PROVE TypeOK'
  <1>1. \/ \E e \in Entries : CommitRoute(r, e)
        \/ RouteConflict(r)
    <2>1. route \in Entries
      BY DEF TypeOK
    <2> QED
      BY <2>1, HeldTypes, ActivatedTypes DEF CommitPreparing, CommitActive
  <1>2. Goto(r, "check") \/ Quit(r, "fail") \/ Quit(r, "retry")
    BY <1>1 DEF CommitRoute, RouteConflict
  <1>3. worker' \in [Replicas -> Workers]
    BY <1>2, GotoFacts, QuitFacts, PhaseTypes DEF TypeOK
  <1>4. route' \in Entries /\ cur' \in [Replicas -> Entries]
    BY <1>1 DEF TypeOK, CommitRoute, RouteConflict
  <1>5. faults' \in 0..MaxFaults
    BY <1>1, MigrationAssumption DEF TypeOK, CommitRoute, RouteConflict, Fault
  <1> QED
    BY <1>3, <1>4, <1>5 DEF CommitPreparing, CommitActive, TypeOK, Unshared, Zone

LEMMA AdvanceFenceTypes ==
  ASSUME TypeOK, NEW r \in Replicas, AdvanceFence(r)
  PROVE TypeOK'
  <1>1. FenceOf(worker[r].prog.prepared) \in Fences
    BY HeldTypes, EntryTypes
  <1>2. Goto(r, "check") \/ Quit(r, "retry")
    BY DEF AdvanceFence
  <1>3. worker' \in [Replicas -> Workers] /\ fence' \in Fences
    BY <1>1, <1>2, GotoFacts, QuitFacts, PhaseTypes DEF TypeOK, AdvanceFence
  <1> QED
    BY <1>3 DEF AdvanceFence, TypeOK, Unshared, Zone

\* The look at the row keeps the progress, moves it on by one step, or drops it.
LEMMA CheckFacts ==
  ASSUME TypeOK, NEW r \in Replicas, CheckProgress(r)
  PROVE /\ UNCHANGED <<Rows, Unshared, cur, Zone, faults>>
        /\ worker' \in [Replicas -> Workers]
        /\ \A q \in Replicas \ {r} : worker'[q] = worker[q]
        /\ worker[r].phase = "check"
        /\ \/ worker'[r].prog = NoProgress /\ worker'[r].phase \in {"done", "fail"}
           \/ worker'[r].phase = "write" /\ worker'[r].prog = worker[r].prog
           \/ /\ worker[r].prog.step < RouteActive
              /\ prog.step = worker[r].prog.step + 1 /\ SameIdentity(prog, worker[r].prog)
              /\ worker'[r].phase = "work" /\ worker'[r].prog = prog
  <1> DEFINE w == worker[r]
             s == w.prog.step
  <1>1. /\ w.phase = "check" /\ UNCHANGED <<Rows, Unshared, cur, Zone, faults>>
        /\ \/ Goto(r, "write") \/ Quit(r, "done") \/ Quit(r, "fail")
           \/ /\ s < RouteActive /\ prog.step = s + 1 /\ SameIdentity(prog, w.prog)
              /\ Continue(r, prog)
    BY DEF CheckProgress
  <1>2. w \in Workers /\ prog \in Progress /\ worker \in [Replicas -> Workers]
    BY DEF TypeOK
  <1>3. CASE Goto(r, "write")
    <2>1. /\ worker' \in [Replicas -> Workers]
          /\ worker'[r].phase = "write" /\ worker'[r].prog = w.prog
          /\ \A q \in Replicas \ {r} : worker'[q] = worker[q]
      BY <1>2, <1>3, GotoFacts, PhaseTypes
    <2> QED
      BY <1>1, <2>1
  <1>4. CASE Quit(r, "done") \/ Quit(r, "fail")
    <2>1. /\ worker' \in [Replicas -> Workers] /\ worker'[r].prog = NoProgress
          /\ worker'[r].phase \in {"done", "fail"}
          /\ \A q \in Replicas \ {r} : worker'[q] = worker[q]
      BY <1>2, <1>4, QuitFacts, PhaseTypes
    <2> QED
      BY <1>1, <2>1
  <1>5. CASE /\ s < RouteActive /\ prog.step = s + 1 /\ SameIdentity(prog, w.prog)
             /\ Continue(r, prog)
    <2>1. /\ worker' \in [Replicas -> Workers]
          /\ worker'[r].phase = "work" /\ worker'[r].prog = prog
          /\ \A q \in Replicas \ {r} : worker'[q] = worker[q]
      BY <1>2, <1>5, ContinueFacts
    <2> QED
      BY <1>1, <1>5, <2>1
  <1> QED
    BY <1>1, <1>3, <1>4, <1>5

LEMMA CheckTypes ==
  ASSUME TypeOK, NEW r \in Replicas, CheckProgress(r)
  PROVE TypeOK'
  BY CheckFacts DEF TypeOK, Rows, Unshared, Zone

\* The write moves the worker and the row to the next step, or closes the row.
LEMMA WriteFacts ==
  ASSUME TypeOK, NEW r \in Replicas, WriteProgress(r)
  PROVE /\ UNCHANGED <<route, fence, trs, Unshared, cur, Zone, faults>>
        /\ worker' \in [Replicas -> Workers] /\ prog' \in Progress
        /\ \A q \in Replicas \ {r} : worker'[q] = worker[q]
        /\ worker[r].phase = "write"
        /\ \/ /\ worker'[r].prog = NoProgress /\ prog' \in {prog, NoProgress}
              /\ worker'[r].phase \in {"done", "retry"}
           \/ /\ worker[r].prog.step < RouteActive
              /\ prog'.step = worker[r].prog.step + 1 /\ SameIdentity(prog', worker[r].prog)
              /\ worker'[r].phase = "work" /\ worker'[r].prog = prog'
  <1> DEFINE w == worker[r]
             s == w.prog.step
             np == [w.prog EXCEPT !.step = s + 1]
  <1>1. /\ w.phase = "write" /\ UNCHANGED <<route, fence, trs, Unshared, cur, Zone, faults>>
        /\ \/ Quit(r, "done") /\ prog' = NoProgress
           \/ Quit(r, "retry") /\ prog' = prog
           \/ s < RouteActive /\ prog' = np /\ Continue(r, np)
    BY DEF WriteProgress
  <1>2. /\ w.prog \in Progress /\ prog \in Progress /\ worker \in [Replicas -> Workers]
        /\ s \in 0..RouteActive
    BY HeldTypes DEF TypeOK
  <1>3. CASE (Quit(r, "done") /\ prog' = NoProgress) \/ (Quit(r, "retry") /\ prog' = prog)
    <2>1. /\ worker' \in [Replicas -> Workers] /\ worker'[r].prog = NoProgress
          /\ worker'[r].phase \in {"done", "retry"}
          /\ \A q \in Replicas \ {r} : worker'[q] = worker[q]
      BY <1>2, <1>3, QuitFacts, PhaseTypes
    <2> QED
      BY <1>1, <1>2, <1>3, <2>1, ConstantTypes
  <1>4. CASE s < RouteActive /\ prog' = np /\ Continue(r, np)
    <2>1. np \in Progress /\ np.step = s + 1 /\ SameIdentity(np, w.prog)
      BY <1>2, <1>4 DEF SameIdentity, Progress, RouteActive
    <2> HIDE DEF np
    <2>2. /\ worker' \in [Replicas -> Workers]
          /\ worker'[r].phase = "work" /\ worker'[r].prog = np
          /\ \A q \in Replicas \ {r} : worker'[q] = worker[q]
      BY <1>2, <1>4, <2>1, ContinueFacts
    <2> QED
      BY <1>1, <1>4, <2>1, <2>2
  <1> QED
    BY <1>1, <1>3, <1>4

LEMMA WriteTypes ==
  ASSUME TypeOK, NEW r \in Replicas, WriteProgress(r)
  PROVE TypeOK'
  BY WriteFacts DEF TypeOK, Unshared, Zone

LEMMA FinishTypes ==
  ASSUME TypeOK, NEW r \in Replicas, CompleteTask(r) \/ FailTask(r) \/ RetryTask(r)
  PROVE TypeOK'
  <1>1. \E st \in {"COMPLETED", "CANCELLED", "PLANNED"} : Finish(r, st)
    BY DEF CompleteTask, FailTask, RetryTask
  <1>2. PICK st \in {"COMPLETED", "CANCELLED", "PLANNED"} : Finish(r, st)
    BY <1>1
  <1>3. task' \in Tasks /\ open' \in [Replicas -> Tasks]
    <2>1. task \in Tasks /\ open \in [Replicas -> Tasks] /\ NoTask \in Tasks
      BY ConstantTypes DEF TypeOK
    <2>2. [task EXCEPT !.status = st] \in Tasks
      BY <1>2, TaskTypes
    <2>3. task' \in Tasks
      BY <1>2, <2>1, <2>2 DEF Finish
    <2>4. \/ open' = open
          \/ \E t \in {task', NoTask} : open' = [open EXCEPT ![r] = t]
      BY <1>2 DEF Finish
    <2> QED
      BY <2>1, <2>3, <2>4
  <1>4. worker' \in [Replicas -> Workers]
    BY QuitFacts, SetFacts, ConstantTypes, PhaseTypes DEF CompleteTask, FailTask, RetryTask, TypeOK
  <1> QED
    BY <1>2, <1>3, <1>4 DEF Finish, TypeOK, Rows, Election, Zone

LEMMA CallFailsTypes ==
  ASSUME TypeOK, NEW r \in Replicas, CallFails(r)
  PROVE TypeOK'
  <1>1. worker' \in [Replicas -> Workers]
    BY QuitFacts, SetFacts, ConstantTypes, PhaseTypes DEF CallFails, TypeOK
  <1>2. faults' \in 0..MaxFaults
    BY MigrationAssumption DEF CallFails, Fault, TypeOK
  <1> QED
    BY <1>1, <1>2 DEF CallFails, TypeOK, Rows, Unshared, Zone

LEMMA RecoveredTypes ==
  ASSUME TypeOK
  PROVE Recovered \in Tasks
  <1>1. prog.source \in Sources /\ prog.prepared.owner \in Zones
    BY DEF TypeOK, Progress, Entries
  <1>2. task.id + 1 \in Nat /\ task.priority \in {0, 1, 2}
    BY DEF TypeOK, Tasks
  <1> QED
    BY <1>1, <1>2 DEF Recovered, Tasks

LEMMA BecomeLeaderTypes ==
  ASSUME TypeOK, NEW r \in Replicas, BecomeLeader(r)
  PROVE TypeOK'
  <1>1. task' \in Tasks
    BY RecoveredTypes DEF BecomeLeader, TypeOK
  <1>2. open' \in [Replicas -> Tasks] /\ cur' \in [Replicas -> Entries]
    BY <1>1, ConstantTypes DEF BecomeLeader, TypeOK
  <1>3. faults' \in 0..MaxFaults
    BY MigrationAssumption DEF BecomeLeader, Fault, TypeOK
  <1>4. /\ lead' \in [Replicas -> {"down", "follower", "planner", "worker"}]
        /\ holder' \in Replicas \cup {NoReplica} /\ indexed' \subseteq Replicas
    BY DEF BecomeLeader, TypeOK
  <1> QED
    BY <1>1, <1>2, <1>3, <1>4 DEF BecomeLeader, TypeOK, Rows, Zone

LEMMA CancelTypes ==
  ASSUME TypeOK, NEW r \in Replicas, Cancel(r)
  PROVE worker' \in [Replicas -> Workers]
  BY QuitFacts, PhaseTypes DEF Cancel, TypeOK

LEMMA SchedulerStopsTypes ==
  ASSUME TypeOK, NEW r \in Replicas, SchedulerStops(r)
  PROVE TypeOK'
  <1>1. worker' \in [Replicas -> Workers]
    BY CancelTypes DEF SchedulerStops
  <1>2. task' \in Tasks
    BY TaskTypes DEF SchedulerStops, TypeOK
  <1>3. faults' \in 0..MaxFaults
    BY MigrationAssumption DEF SchedulerStops, Fault, TypeOK
  <1> QED
    BY <1>1, <1>2, <1>3 DEF SchedulerStops, TypeOK, Rows, Zone

LEMMA ProcessTypes ==
  ASSUME TypeOK, NEW r \in Replicas, StepDown(r) \/ Crash(r) \/ Restart(r)
  PROVE TypeOK'
  <1>1. CASE StepDown(r)
    <2>1. worker' \in [Replicas -> Workers]
      BY <1>1, CancelTypes DEF StepDown
    <2> QED
      BY <1>1, <2>1 DEF StepDown, TypeOK, Rows, Zone
  <1>2. CASE Crash(r)
    <2>1. faults' \in 0..MaxFaults
      BY <1>2, MigrationAssumption DEF Crash, Fault, TypeOK
    <2> QED
      BY <1>2, <2>1, ConstantTypes DEF Crash, TypeOK, Rows, Zone
  <1>3. CASE Restart(r)
    BY <1>3 DEF Restart, TypeOK, Rows, Zone
  <1> QED
    BY <1>1, <1>2, <1>3

LEMMA ZoneTypes ==
  ASSUME TypeOK, NEW z \in Zones, Refresh(z) \/ RestartZone(z)
  PROVE TypeOK'
  <1>1. faults' \in 0..MaxFaults
    BY MigrationAssumption DEF Refresh, RestartZone, Fault, TypeOK
  <1> QED
    BY <1>1, ConstantTypes DEF Refresh, RestartZone, TypeOK, Rows, Local

LEMMA NextTypes ==
  ASSUME TypeOK, [Next]_vars
  PROVE TypeOK'
  <1>1. ASSUME NEW r \in Replicas, WorkerStep(r) PROVE TypeOK'
    BY <1>1, BeginTypes, CreateTypes, DrainSourceTypes, LookTypes, CommitTypes, AdvanceFenceTypes,
       CheckTypes, WriteTypes, FinishTypes DEF WorkerStep
  <1>2. ASSUME NEW r \in Replicas, ReplicaStep(r) PROVE TypeOK'
    BY <1>1, <1>2, PlanningTypes, ClaimTypes, CallFailsTypes, BecomeLeaderTypes, ProcessTypes,
       SchedulerStopsTypes DEF ReplicaStep
  <1>3. CASE UNCHANGED vars
    BY <1>3 DEF vars, TypeOK
  <1> QED
    BY <1>2, <1>3, ZoneTypes DEF Next

(***************************************************************************)
(* The invariant.                                                          *)
(***************************************************************************)

LEMMA BacksLater ==
  ASSUME NEW e1 \in Entries, NEW e2 \in Entries, NEW f1 \in Fences, NEW f2 \in Fences,
         NEW p \in Progress, NEW s \in Nat, Backs(e1, f1, p, s),
         e1.epoch <= e2.epoch, e1.epoch = e2.epoch => e1.owner = e2.owner,
         f1.epoch <= f2.epoch
  PROVE Backs(e2, f2, p, s)
  BY DEF Backs, Entries, Fences, Progress, SourceFlushed, RoutePreparing

LEMMA NothingBacked ==
  ASSUME NEW e, NEW f, NEW w \in Workers, w.prog = NoProgress,
         w.phase \notin {"check", "write"}
  PROVE Backs(e, f, NoProgress, 0) /\ Backs(e, f, w.prog, Reached(w))
  BY DEF Backs, NoProgress, Reached, SourceFlushed, RoutePreparing

LEMMA FewerDraws ==
  ASSUME NEW D1, NEW D2, NEW n \in Nat, Unambiguous(D1, n), D2 \subseteq D1
  PROVE Unambiguous(D2, n)
  BY DEF Unambiguous

LEMMA FreshDraw ==
  ASSUME NEW D1, NEW D2, NEW n \in Nat, NEW k, Unambiguous(D1, n),
         D2 \subseteq D1 \cup {<<n + 1, k>>}
  PROVE Unambiguous(D2, n + 1)
  <1> DEFINE fresh == <<n + 1, k>>
  <1>1. fresh[1] = n + 1
    OBVIOUS
  <1>2. \A d \in D1 : d[1] \in 0..n /\ d[1] # n + 1
    BY DEF Unambiguous
  <1> HIDE DEF fresh
  <1>3. \A d \in D2 : d \in D1 \/ d = fresh
    BY DEF fresh
  <1>4. \A d \in D2 : d[1] \in 0..(n + 1)
    BY <1>1, <1>2, <1>3
  <1>5. \A d1, d2 \in D2 : d1[1] = d2[1] => d1[2] = d2[2]
    BY <1>1, <1>2, <1>3 DEF Unambiguous
  <1> QED
    BY <1>4, <1>5 DEF Unambiguous

LEMMA ReachedType ==
  ASSUME NEW w \in Workers
  PROVE Reached(w) \in Nat
  BY DEF Workers, Progress, Reached, RouteActive

\* A worker's copy that claims no more than it did.
Tame(w1, w2) ==
    \/ w2.prog = NoProgress /\ w2.phase \notin {"check", "write"}
    \/ /\ w2.prog = w1.prog
       /\ Reached(w2) # 0 => Reached(w1) # 0
       /\ Reached(w2) > SourceFlushed => Reached(w1) > SourceFlushed
       /\ Reached(w2) > RoutePreparing => Reached(w1) > RoutePreparing

LEMMA TameBacked ==
  ASSUME NEW e, NEW f, NEW w1, NEW w2 \in Workers, Tame(w1, w2), Backs(e, f, w1.prog, Reached(w1))
  PROVE Backs(e, f, w2.prog, Reached(w2))
  BY NothingBacked DEF Tame, Backs

\* The steps that leave route, fence, progress row and counter alone.
LEMMA QuietInv ==
  ASSUME Inv, TypeOK', UNCHANGED Rows, \A r \in Replicas : Tame(worker[r], worker'[r])
  PROVE Inv'
  <1>1. UNCHANGED <<route, fence, prog, trs>>
    BY DEF Rows
  <1>2. ASSUME NEW r \in Replicas PROVE Backs(route', fence', worker'[r].prog, Reached(worker'[r]))
    <2>1. worker'[r] \in Workers
      BY DEF TypeOK
    <2> QED
      BY <1>1, <2>1, TameBacked DEF Inv, ProgressBacked
  <1>3. ProgressBacked'
    BY <1>1, <1>2 DEF Inv, ProgressBacked
  <1>4. \A r \in Replicas : Draw(worker'[r].prog.prepared) \in
            {Draw(FirstRoute), Draw(worker[r].prog.prepared)}
    BY DEF Tame, NoProgress
  <1>5. Drawn' \subseteq Drawn
    BY <1>1, <1>4 DEF Drawn
  <1>6. OneEpoch'
    BY <1>1, <1>5, FewerDraws DEF Inv, OneEpoch, TypeOK
  <1> QED
    BY <1>1, <1>3, <1>6 DEF Inv, FenceAgrees

LEMMA GotoTame ==
  ASSUME TypeOK, NEW r \in Replicas, NEW ph \in Phases,
         \/ Goto(r, ph) /\ worker[r].prog.step \notin {0, SourceFlushed, RoutePreparing}
         \/ Quit(r, ph) /\ ph \in {"retry", "fail", "done"}
  PROVE \A q \in Replicas : Tame(worker[q], worker'[q])
  <1>1. \A q \in Replicas \ {r} : Tame(worker[q], worker'[q])
    BY GotoFacts, QuitFacts DEF Tame, TypeOK
  <1>2. CASE Quit(r, ph) /\ ph \in {"retry", "fail", "done"}
    BY <1>1, <1>2, QuitFacts DEF Tame, TypeOK
  <1>3. CASE Goto(r, ph) /\ worker[r].prog.step \notin {0, SourceFlushed, RoutePreparing}
    <2>1. worker'[r].prog = worker[r].prog /\ worker[r].prog.step \in 0..RouteActive
      BY <1>3, GotoFacts, HeldTypes DEF TypeOK
    <2>2. Tame(worker[r], worker'[r])
      BY <1>3, <2>1 DEF Tame, Reached, SourceFlushed, RoutePreparing, RouteActive
    <2> QED
      BY <1>1, <2>2
  <1> QED
    BY <1>2, <1>3

LEMMA SameTame ==
  ASSUME worker' = worker
  PROVE \A q \in Replicas : Tame(worker[q], worker'[q])
  BY DEF Tame

LEMMA IdleTame ==
  ASSUME TypeOK, NEW r \in Replicas, NEW w \in Workers, w.prog = NoProgress,
         w.phase \notin {"check", "write"}, worker' = [worker EXCEPT ![r] = w]
  PROVE \A q \in Replicas : Tame(worker[q], worker'[q])
  BY SetFacts DEF Tame, TypeOK

LEMMA QuietWorker ==
  ASSUME TypeOK, NEW r \in Replicas,
         \/ DrainSource(r) \/ EnterLoading(r) \/ PrepareTarget(r) \/ EnterCompletion(r)
         \/ CheckProgress(r) /\ worker'[r].phase # "work"
  PROVE UNCHANGED Rows /\ \A q \in Replicas : Tame(worker[q], worker'[q])
  <1>1. CASE DrainSource(r) \/ EnterLoading(r) \/ PrepareTarget(r) \/ EnterCompletion(r)
    <2>1. UNCHANGED Rows /\ (Goto(r, "check") \/ Quit(r, "retry"))
      BY <1>1 DEF DrainSource, EnterLoading, PrepareTarget, EnterCompletion
    <2>2. worker[r].prog.step \notin {0, SourceFlushed, RoutePreparing} \/ Quit(r, "retry")
      BY <1>1 DEF DrainSource, EnterLoading, PrepareTarget, EnterCompletion, Working, At,
         SourceDraining, SourceFlushed, RoutePreparing, FenceAdvanced, TargetLoading, RouteActive
    <2>3. "check" \in Phases /\ "retry" \in Phases
      BY PhaseTypes
    <2>4. CASE Quit(r, "retry")
      BY <2>1, <2>3, <2>4, GotoTame
    <2>5. CASE Goto(r, "check") /\ worker[r].prog.step \notin {0, SourceFlushed, RoutePreparing}
      <3>1. \A q \in Replicas : Tame(worker[q], worker'[q])
        BY <2>3, <2>5, GotoTame
      <3> QED
        BY <2>1, <3>1
    <2> QED
      BY <2>1, <2>2, <2>4, <2>5
  <1>2. CASE CheckProgress(r) /\ worker'[r].phase # "work"
    <2>1. \/ worker'[r].prog = NoProgress /\ worker'[r].phase \in {"done", "fail"}
          \/ /\ worker'[r].phase = "write" /\ worker'[r].prog = worker[r].prog
             /\ worker[r].phase = "check"
      BY <1>2, CheckFacts
    <2>2. Tame(worker[r], worker'[r])
      BY <2>1 DEF Tame, Reached
    <2> QED
      BY <1>2, <2>2, CheckFacts DEF Tame
  <1> QED
    BY <1>1, <1>2

LEMMA QuietNext ==
  ASSUME TypeOK, NEW r \in Replicas,
         \/ \E z \in Zones : Move(r, z) \/ \E p \in Priorities : Propose(r, z, p)
         \/ CancelStale(r) \/ Claim(r) \/ SchedulerStops(r) \/ CallFails(r)
         \/ CompleteTask(r) \/ FailTask(r) \/ RetryTask(r)
         \/ BecomeLeader(r) \/ StepDown(r) \/ Crash(r) \/ Restart(r)
  PROVE UNCHANGED Rows /\ \A q \in Replicas : Tame(worker[q], worker'[q])
  <1>1. UNCHANGED Rows
    BY DEF Move, Propose, UpsertPlanned, CancelStale, Claim, CallFails, CompleteTask, FailTask,
       RetryTask, Finish, SchedulerStops, BecomeLeader, StepDown, Crash, Restart
  <1>2. \/ worker' = worker
        \/ \E ph \in {"retry", "fail", "done"} : Quit(r, ph)
        \/ worker' = [worker EXCEPT ![r] = Idle]
        \/ worker' = [worker EXCEPT ![r] = [Idle EXCEPT !.phase = "claimed", !.id = task.id]]
    BY PhaseTypes DEF Move, Propose, UpsertPlanned, CancelStale, Claim, CallFails, CompleteTask,
       FailTask, RetryTask, SchedulerStops, Cancel, BecomeLeader, StepDown, Crash, Restart
  <1>3. /\ [Idle EXCEPT !.phase = "claimed", !.id = task.id] \in Workers
        /\ [Idle EXCEPT !.phase = "claimed", !.id = task.id].prog = NoProgress
        /\ [Idle EXCEPT !.phase = "claimed", !.id = task.id].phase = "claimed"
        /\ Idle \in Workers /\ Idle.prog = NoProgress /\ Idle.phase = "idle"
    BY ConstantTypes DEF Idle, Workers, Phases, TypeOK, Tasks
  <1> QED
    BY <1>1, <1>2, <1>3, SameTame, GotoTame, IdleTame, PhaseTypes

\* The steps that change a row: what is left to show of each of them.
LEMMA LoudInv ==
  ASSUME Inv, TypeOK', NEW r \in Replicas,
         route.epoch <= route'.epoch, route.epoch = route'.epoch => route.owner = route'.owner,
         fence.epoch <= fence'.epoch, FenceAgrees',
         \A q \in Replicas \ {r} : worker'[q] = worker[q],
         Backs(route', fence', worker'[r].prog, Reached(worker'[r])),
         prog' = prog \/ Backs(route', fence', prog', prog'.step),
         \/ trs' = trs /\ Drawn' \subseteq Drawn
         \/ trs' = trs + 1 /\ \E k : Drawn' \subseteq Drawn \cup {<<trs + 1, k>>}
  PROVE Inv'
  <1>1. /\ route \in Entries /\ route' \in Entries /\ fence \in Fences /\ fence' \in Fences
        /\ prog \in Progress /\ prog.step \in Nat /\ trs \in Nat
    BY DEF Inv, TypeOK, Progress, RouteActive
  <1>2. Backs(route', fence', prog', prog'.step)
    BY <1>1, BacksLater DEF Inv, ProgressBacked
  <1>3. ASSUME NEW q \in Replicas \ {r}
        PROVE Backs(route', fence', worker'[q].prog, Reached(worker'[q]))
    <2>1. worker[q] \in Workers /\ worker[q].prog \in Progress /\ Reached(worker[q]) \in Nat
      BY HeldTypes, ReachedType DEF Inv, TypeOK
    <2>2. Backs(route, fence, worker[q].prog, Reached(worker[q]))
      BY DEF Inv, ProgressBacked
    <2>3. Backs(route', fence', worker[q].prog, Reached(worker[q]))
      BY <1>1, <2>1, <2>2, BacksLater
    <2> QED
      BY <2>3
  <1>4. ProgressBacked'
    BY <1>2, <1>3 DEF ProgressBacked
  <1>5. OneEpoch'
    BY <1>1, FewerDraws, FreshDraw DEF Inv, OneEpoch
  <1> QED
    BY <1>4, <1>5 DEF Inv

LEMMA Numbers ==
  ASSUME TypeOK
  PROVE route.epoch \in Nat /\ fence.epoch \in Nat /\ trs \in Nat
  BY DEF TypeOK, Entries, Fences

\* A worker of which only the progress matters to the draws.
LEMMA DrawsKept ==
  ASSUME NEW r \in Replicas, \A q \in Replicas \ {r} : worker'[q] = worker[q],
         Draw(route') \in Drawn, Draw(prog'.prepared) \in Drawn
  PROVE Drawn' \subseteq Drawn \cup {Draw(worker'[r].prog.prepared)}
  BY DEF Drawn

LEMMA HeldDraws ==
  /\ Draw(route) \in Drawn /\ Draw(prog.prepared) \in Drawn
  /\ Draw(NoProgress.prepared) \in Drawn
  /\ \A r \in Replicas : Draw(worker[r].prog.prepared) \in Drawn
  BY DEF Drawn, NoProgress

LEMMA BeginInv ==
  ASSUME Inv, NEW r \in Replicas, Begin(r)
  PROVE Inv'
  <1>1. TypeOK /\ TypeOK'
    BY BeginTypes DEF Inv
  <1>2. route' = route /\ fence' = fence /\ prog' = prog
    BY <1>1, BeginFacts
  <1>3. /\ \A q \in Replicas \ {r} : worker'[q] = worker[q]
        /\ worker'[r].phase \in {"fail", "work", "done", "create"}
    BY <1>1, BeginFacts
  <1>4. Reached(worker'[r]) = worker'[r].prog.step /\ worker'[r] \in Workers
    BY <1>1, <1>3 DEF Reached, TypeOK
  <1>5. FenceAgrees'
    BY <1>2 DEF Inv, FenceAgrees
  <1>6. Drawn' \subseteq Drawn \cup {Draw(worker'[r].prog.prepared)}
    BY <1>2, <1>3, DrawsKept, HeldDraws
  <1>7. CASE trs' = trs /\ worker'[r].prog \in {prog, NoProgress}
    <2>1. Drawn' \subseteq Drawn
      BY <1>6, <1>7, HeldDraws
    <2>2. Backs(route', fence', worker'[r].prog, Reached(worker'[r]))
      BY <1>2, <1>3, <1>4, <1>7, NothingBacked DEF Inv, ProgressBacked
    <2> QED
      BY <1>1, <1>2, <1>3, <1>5, <1>7, <2>1, <2>2, LoudInv, Numbers
  <1>8. CASE /\ trs' = trs + 1
             /\ worker'[r].prog.step = SourceDraining
             /\ worker'[r].prog.prepared.state = "PREPARING"
             /\ worker'[r].prog.prepared.tr = trs + 1
             /\ worker'[r].prog.prepared.epoch = worker'[r].prog.source.epoch + 1
    <2>1. Draw(worker'[r].prog.prepared) = <<trs + 1, worker'[r].prog.prepared.epoch>>
      BY <1>8 DEF Draw
    <2>2. \E k : Drawn' \subseteq Drawn \cup {<<trs + 1, k>>}
      BY <1>6, <2>1
    <2>3. Backs(route', fence', worker'[r].prog, Reached(worker'[r]))
      BY <1>4, <1>8 DEF Backs, SourceDraining, SourceFlushed, RoutePreparing
    <2> QED
      BY <1>1, <1>2, <1>3, <1>5, <1>8, <2>2, <2>3, LoudInv, Numbers
  <1> QED
    BY <1>1, <1>7, <1>8, BeginFacts

LEMMA CreateInv ==
  ASSUME Inv, NEW r \in Replicas, Create(r)
  PROVE Inv'
  <1>1. TypeOK /\ TypeOK'
    BY CreateTypes DEF Inv
  <1>2. route' = route /\ fence' = fence /\ trs' = trs /\ worker[r].phase = "create"
    BY DEF Create
  <1>3. FenceAgrees'
    BY <1>2 DEF Inv, FenceAgrees
  <1>4. Backs(route, fence, worker[r].prog, worker[r].prog.step)
    BY <1>2 DEF Inv, ProgressBacked, Reached
  <1>5. \/ prog' = prog /\ worker'[r].prog = NoProgress /\ worker'[r].phase = "fail"
        \/ prog' = worker[r].prog /\ worker'[r].prog = prog' /\ worker'[r].phase = "work"
    BY <1>1, GotoFacts, QuitFacts, PhaseTypes DEF Create, TypeOK
  <1>6. \A q \in Replicas \ {r} : worker'[q] = worker[q]
    BY <1>1, GotoFacts, QuitFacts, PhaseTypes DEF Create, TypeOK
  <1>7. worker'[r] \in Workers
    BY <1>1 DEF TypeOK
  <1>8. Backs(route', fence', worker'[r].prog, Reached(worker'[r]))
    BY <1>2, <1>4, <1>5, <1>7, NothingBacked DEF Reached
  <1>9. Drawn' \subseteq Drawn
    BY <1>2, <1>5, <1>6, DrawsKept, HeldDraws
  <1> QED
    BY <1>1, <1>2, <1>3, <1>4, <1>5, <1>6, <1>8, <1>9, LoudInv, Numbers

LEMMA CheckInv ==
  ASSUME Inv, NEW r \in Replicas, CheckProgress(r)
  PROVE Inv'
  <1>1. TypeOK /\ TypeOK'
    BY CheckTypes DEF Inv
  <1>2. CASE worker'[r].phase # "work"
    BY <1>1, <1>2, QuietWorker, QuietInv
  <1>3. CASE worker'[r].phase = "work" /\ worker'[r].prog = prog
    <2>1. UNCHANGED <<route, fence, prog, trs>> /\ \A q \in Replicas \ {r} : worker'[q] = worker[q]
      BY <1>1, CheckFacts DEF Rows
    <2>2. FenceAgrees'
      BY <2>1 DEF Inv, FenceAgrees
    <2>3. Backs(route', fence', worker'[r].prog, Reached(worker'[r]))
      BY <1>3, <2>1 DEF Inv, ProgressBacked, Reached
    <2>4. Drawn' \subseteq Drawn
      BY <1>3, <2>1, DrawsKept, HeldDraws
    <2> QED
      BY <1>1, <2>1, <2>2, <2>3, <2>4, LoudInv, Numbers
  <1> QED
    BY <1>1, <1>2, <1>3, CheckFacts

LEMMA WriteInv ==
  ASSUME Inv, NEW r \in Replicas, WriteProgress(r)
  PROVE Inv'
  <1>1. TypeOK /\ TypeOK' /\ worker[r].prog.step \in 0..RouteActive
    BY WriteTypes, HeldTypes DEF Inv
  <1>2. /\ UNCHANGED <<route, fence, trs>> /\ worker[r].phase = "write"
        /\ \A q \in Replicas \ {r} : worker'[q] = worker[q]
    BY <1>1, WriteFacts
  <1>3. FenceAgrees'
    BY <1>2 DEF Inv, FenceAgrees
  <1>4. Backs(route, fence, worker[r].prog, worker[r].prog.step + 1)
    BY <1>2 DEF Inv, ProgressBacked, Reached
  <1>5. CASE /\ worker'[r].prog = NoProgress /\ prog' \in {prog, NoProgress}
             /\ worker'[r].phase \in {"done", "retry"}
    <2>1. worker'[r] \in Workers
      BY <1>1 DEF TypeOK
    <2>2. Backs(route', fence', worker'[r].prog, Reached(worker'[r]))
      BY <1>5, <2>1, NothingBacked
    <2>3. NoProgress.step = 0 /\ Backs(route', fence', NoProgress, 0)
      BY <1>5, <2>1, NothingBacked DEF NoProgress
    <2>4. prog' = prog \/ Backs(route', fence', prog', prog'.step)
      BY <1>5, <2>3
    <2>5. Drawn' \subseteq Drawn
      BY <1>2, <1>5, DrawsKept, HeldDraws
    <2> QED
      BY <1>1, <1>2, <1>3, <2>2, <2>4, <2>5, LoudInv, Numbers
  <1>6. CASE /\ prog'.step = worker[r].prog.step + 1 /\ SameIdentity(prog', worker[r].prog)
             /\ worker'[r].phase = "work" /\ worker'[r].prog = prog'
    <2>1. prog'.source = worker[r].prog.source /\ prog'.prepared = worker[r].prog.prepared
      BY <1>6 DEF SameIdentity
    <2>4. Backs(route', fence', prog', prog'.step)
      BY <1>2, <1>4, <1>6, <2>1, <1>1 DEF Backs, RouteActive
    <2>5. Backs(route', fence', worker'[r].prog, Reached(worker'[r]))
      BY <1>6, <2>4 DEF Reached
    <2>6. Drawn' \subseteq Drawn
      BY <1>2, <1>6, <2>1, DrawsKept, HeldDraws
    <2> QED
      BY <1>1, <1>2, <1>3, <2>4, <2>5, <2>6, LoudInv, Numbers
  <1> QED
    BY <1>1, <1>5, <1>6, WriteFacts

\* What a worker before or after one of the three writes knows.
LEMMA WorkingFacts ==
  ASSUME Inv, NEW r \in Replicas, NEW s \in {SourceFlushed, RoutePreparing, TargetReady},
         Working(r, s)
  PROVE Backs(route, fence, worker[r].prog, s) /\ worker[r].prog.step = s
  BY DEF Inv, ProgressBacked, Reached, Working, At

\* After a commit the attempt goes on with its progress or is over.
CommitEnds(r) == Goto(r, "check") \/ Quit(r, "fail") \/ Quit(r, "retry")

LEMMA CommitEndsFacts ==
  ASSUME worker \in [Replicas -> Workers], NEW r \in Replicas, CommitEnds(r)
  PROVE /\ \A q \in Replicas \ {r} : worker'[q] = worker[q]
        /\ Draw(worker'[r].prog.prepared) \in Drawn
        /\ \/ worker'[r].prog = worker[r].prog /\ worker'[r].phase = "check"
           \/ \A e, f : Backs(e, f, worker'[r].prog, Reached(worker'[r]))
  <1>1. CASE Goto(r, "check")
    BY <1>1, GotoFacts, PhaseTypes, HeldDraws
  <1>2. CASE Quit(r, "fail") \/ Quit(r, "retry")
    <2>1. /\ worker'[r] \in Workers /\ worker'[r].prog = NoProgress
          /\ worker'[r].phase \notin {"check", "write"}
          /\ \A q \in Replicas \ {r} : worker'[q] = worker[q]
      BY <1>2, QuitFacts, PhaseTypes
    <2> QED
      BY <2>1, NothingBacked, HeldDraws
  <1> QED
    BY <1>1, <1>2 DEF CommitEnds

\* What the commit of PREPARING does to the route.
LEMMA CommitPreparingFacts ==
  ASSUME Inv, NEW r \in Replicas, CommitPreparing(r)
  PROVE LET e == worker[r].prog.prepared
        IN /\ UNCHANGED <<fence, prog, trs>>
           /\ e \in Entries
           /\ \/ Quit(r, "fail") /\ route' = route
              \/ /\ CommitEnds(r) /\ route' = e /\ e.state = "PREPARING"
                 /\ \/ route = e
                    \/ route.state = "ACTIVE" /\ e.epoch = route.epoch + 1
  <1> DEFINE p == worker[r].prog
             e == p.prepared
  <1>1. TypeOK /\ Working(r, SourceFlushed) /\ UNCHANGED <<fence, prog, trs>>
    BY DEF Inv, CommitPreparing
  <1>2. p \in Progress /\ e \in Entries
    BY <1>1, HeldTypes
  <1>3. e.state = "PREPARING" /\ e.epoch = p.source.epoch + 1
    BY <1>1, WorkingFacts DEF Backs, SourceFlushed
  <1>4. \/ Quit(r, "fail") /\ route' = route
        \/ route = e /\ CommitRoute(r, route)
        \/ MayPrepare(p) /\ CommitRoute(r, e)
    BY DEF CommitPreparing, RouteConflict
  <1>5. MayPrepare(p) => route.state = "ACTIVE" /\ route.epoch = p.source.epoch
    BY DEF MayPrepare, Source
  <1> QED
    BY <1>1, <1>2, <1>3, <1>4, <1>5 DEF CommitRoute, CommitEnds

LEMMA CommitPreparingInv ==
  ASSUME Inv, NEW r \in Replicas, CommitPreparing(r)
  PROVE Inv'
  <1> DEFINE e == worker[r].prog.prepared
  <1>1. TypeOK /\ TypeOK' /\ worker \in [Replicas -> Workers]
    BY CommitTypes DEF Inv, TypeOK
  <1>2. UNCHANGED <<fence, prog, trs>> /\ e \in Entries /\ Draw(e) \in Drawn
    BY CommitPreparingFacts, HeldDraws
  <1>3. CASE Quit(r, "fail") /\ route' = route
    BY <1>1, <1>2, <1>3, GotoTame, QuietInv, PhaseTypes DEF Rows
  <1>4. CASE /\ CommitEnds(r) /\ route' = e /\ e.state = "PREPARING"
             /\ \/ route = e
                \/ route.state = "ACTIVE" /\ e.epoch = route.epoch + 1
    <2>1. /\ \A q \in Replicas \ {r} : worker'[q] = worker[q]
          /\ Draw(worker'[r].prog.prepared) \in Drawn
          /\ \/ worker'[r].prog = worker[r].prog /\ worker'[r].phase = "check"
             \/ Backs(route', fence', worker'[r].prog, Reached(worker'[r]))
      BY <1>1, <1>4, CommitEndsFacts
    <2>2. /\ Backs(route, fence, worker[r].prog, SourceFlushed)
          /\ worker[r].prog.step = SourceFlushed
      BY WorkingFacts DEF CommitPreparing
    <2>3. e.epoch \in Nat /\ route.epoch \in Nat /\ fence.epoch \in Nat
      BY <1>1, <1>2, Numbers DEF Entries
    <2>4. Backs(route', fence', worker'[r].prog, Reached(worker'[r]))
      <3>1. CASE worker'[r].prog = worker[r].prog /\ worker'[r].phase = "check"
        <4>1. Reached(worker'[r]) = RoutePreparing
          BY <2>2, <3>1 DEF Reached, SourceFlushed, RoutePreparing
        <4> QED
          BY <1>2, <1>4, <2>2, <2>3, <3>1, <4>1 DEF Backs, SourceFlushed, RoutePreparing
      <3> QED
        BY <2>1, <3>1
    <2>5. FenceAgrees'
      BY <1>2, <1>4, <2>3 DEF Inv, FenceAgrees
    <2>6. Drawn' \subseteq Drawn
      BY <1>2, <1>4, <2>1, DrawsKept, HeldDraws
    <2>7. route.epoch <= route'.epoch /\ (route.epoch = route'.epoch => route.owner = route'.owner)
      BY <1>4, <2>3
    <2> QED
      BY <1>1, <1>2, <2>1, <2>3, <2>4, <2>5, <2>6, <2>7, LoudInv
  <1> QED
    BY <1>3, <1>4, CommitPreparingFacts

\* The fence moves only while the route is withdrawn.
LEMMA AdvanceFenceFacts ==
  ASSUME Inv, NEW r \in Replicas, AdvanceFence(r)
  PROVE LET e == worker[r].prog.prepared
        IN /\ UNCHANGED <<route, prog, trs>>
           /\ e \in Entries
           /\ \/ Quit(r, "retry") /\ fence' = fence
              \/ /\ Goto(r, "check") /\ fence'.owner = e.owner /\ fence'.epoch = e.epoch
                 /\ e.epoch <= route.epoch /\ (e.epoch = route.epoch => e.owner = route.owner)
                 /\ \/ fence' = fence
                    \/ route.state = "PREPARING" /\ fence.epoch < e.epoch
  <1> DEFINE e == worker[r].prog.prepared
  <1>1. TypeOK /\ Working(r, RoutePreparing) /\ UNCHANGED <<route, prog, trs>>
    BY DEF Inv, AdvanceFence
  <1>2. e \in Entries /\ e.epoch \in Nat /\ route.epoch \in Nat /\ fence.epoch \in Nat
    BY <1>1, HeldTypes, Numbers DEF Entries
  <1>3. e.epoch <= route.epoch /\ (e.epoch = route.epoch => e.owner = route.owner)
    BY <1>1, <1>2, WorkingFacts DEF Backs, SourceFlushed, RoutePreparing
  <1>4. \/ Quit(r, "retry") /\ fence' = fence
        \/ /\ Goto(r, "check") /\ fence' = FenceOf(e)
           /\ fence = FenceOf(e) \/ fence.epoch < e.epoch
    BY DEF AdvanceFence, MayFence
  <1>5. FenceOf(e).owner = e.owner /\ FenceOf(e).epoch = e.epoch
    BY DEF FenceOf
  <1>6. route.state \in {"ACTIVE", "PREPARING"}
    BY <1>1 DEF TypeOK, Entries
  <1>7. fence.epoch < e.epoch => route.state = "PREPARING"
    BY <1>2, <1>3, <1>6 DEF Inv, FenceAgrees
  <1> QED
    BY <1>1, <1>2, <1>3, <1>4, <1>5, <1>7

LEMMA AdvanceFenceInv ==
  ASSUME Inv, NEW r \in Replicas, AdvanceFence(r)
  PROVE Inv'
  <1> DEFINE e == worker[r].prog.prepared
  <1>1. TypeOK /\ TypeOK' /\ worker \in [Replicas -> Workers]
    BY AdvanceFenceTypes DEF Inv, TypeOK
  <1>2. UNCHANGED <<route, prog, trs>> /\ e \in Entries
    BY AdvanceFenceFacts
  <1>3. CASE Quit(r, "retry") /\ fence' = fence
    BY <1>1, <1>2, <1>3, GotoTame, QuietInv, PhaseTypes DEF Rows
  <1>4. CASE /\ Goto(r, "check") /\ fence'.owner = e.owner /\ fence'.epoch = e.epoch
             /\ e.epoch <= route.epoch /\ (e.epoch = route.epoch => e.owner = route.owner)
             /\ \/ fence' = fence
                \/ route.state = "PREPARING" /\ fence.epoch < e.epoch
    <2>1. /\ worker'[r].prog = worker[r].prog /\ worker'[r].phase = "check"
          /\ \A q \in Replicas \ {r} : worker'[q] = worker[q]
      BY <1>1, <1>4, GotoFacts, PhaseTypes
    <2>2. Reached(worker'[r]) = FenceAdvanced /\ Backs(route, fence, worker[r].prog, RoutePreparing)
      BY <2>1, WorkingFacts DEF AdvanceFence, Reached, Working, At, RoutePreparing, FenceAdvanced
    <2>3. e.epoch \in Nat /\ route.epoch \in Nat /\ fence.epoch \in Nat
      BY <1>1, <1>2, Numbers DEF Entries
    <2>4. Backs(route', fence', worker'[r].prog, Reached(worker'[r]))
      BY <1>2, <1>4, <2>1, <2>2, <2>3 DEF Backs, SourceFlushed, RoutePreparing, FenceAdvanced
    <2>5. FenceAgrees'
      BY <1>2, <1>4, <2>3 DEF Inv, FenceAgrees
    <2>6. Drawn' \subseteq Drawn
      BY <1>2, <2>1, DrawsKept, HeldDraws
    <2> QED
      BY <1>1, <1>2, <1>4, <2>1, <2>3, <2>4, <2>5, <2>6, LoudInv
  <1> QED
    BY <1>3, <1>4, AdvanceFenceFacts

\* The route becomes ACTIVE for the owner the fence names.
LEMMA CommitActiveFacts ==
  ASSUME Inv, NEW r \in Replicas, CommitActive(r)
  PROVE /\ UNCHANGED <<fence, prog, trs>>
        /\ \/ Quit(r, "fail") /\ route' = route
           \/ /\ CommitEnds(r)
              /\ \/ route' = route
                 \/ /\ route.state = "PREPARING" /\ route'.state = "ACTIVE"
                    /\ route'.owner = route.owner /\ route'.epoch = route.epoch
                    /\ route'.tr = route.tr
                    /\ fence.epoch = route.epoch /\ fence.owner = route.owner
  <1> DEFINE e == worker[r].prog.prepared
             a == [route EXCEPT !.state = "ACTIVE", !.ver = @ + 1]
  <1>1. TypeOK /\ Working(r, TargetReady) /\ UNCHANGED <<fence, prog, trs>>
    BY DEF Inv, CommitActive
  <1>2. e \in Entries /\ e.epoch \in Nat /\ route.epoch \in Nat /\ fence.epoch \in Nat
    BY <1>1, HeldTypes, Numbers DEF Entries
  <1>3. e.epoch <= fence.epoch
    BY <1>1, <1>2, WorkingFacts DEF Backs, TargetReady, RoutePreparing
  <1>4. \/ Quit(r, "fail") /\ route' = route
        \/ CommitEnds(r) /\ route' = route
        \/ CommitEnds(r) /\ MayActivate(e) /\ route' = a
    BY DEF CommitActive, CommitRoute, RouteConflict, CommitEnds
  <1>5. ASSUME MayActivate(e)
        PROVE /\ route.state = "PREPARING"
              /\ fence.epoch = route.epoch /\ fence.owner = route.owner
    <2>1. Draw(route) \in Drawn /\ Draw(e) \in Drawn
      BY HeldDraws
    <2>2. Draw(route)[1] = Draw(e)[1] /\ Draw(route)[2] = route.epoch /\ Draw(e)[2] = e.epoch
      BY <1>5 DEF MayActivate, Draw
    <2>3. route.epoch = e.epoch
      BY <2>1, <2>2 DEF Inv, OneEpoch, Unambiguous
    <2> QED
      BY <1>2, <1>3, <1>5, <2>3 DEF Inv, FenceAgrees, MayActivate
  <1>6. /\ a.state = "ACTIVE" /\ a.owner = route.owner /\ a.epoch = route.epoch
        /\ a.tr = route.tr
    BY <1>1, ActivatedTypes DEF TypeOK
  <1> QED
    BY <1>1, <1>4, <1>5, <1>6

LEMMA CommitActiveInv ==
  ASSUME Inv, NEW r \in Replicas, CommitActive(r)
  PROVE Inv'
  <1>1. TypeOK /\ TypeOK' /\ worker \in [Replicas -> Workers]
    BY CommitTypes DEF Inv, TypeOK
  <1>2. UNCHANGED <<fence, prog, trs>>
    BY CommitActiveFacts
  <1>3. CASE Quit(r, "fail") /\ route' = route
    BY <1>1, <1>2, <1>3, GotoTame, QuietInv, PhaseTypes DEF Rows
  <1>4. CASE /\ CommitEnds(r)
             /\ \/ route' = route
                \/ /\ route.state = "PREPARING" /\ route'.state = "ACTIVE"
                   /\ route'.owner = route.owner /\ route'.epoch = route.epoch
                   /\ route'.tr = route.tr
                   /\ fence.epoch = route.epoch /\ fence.owner = route.owner
    <2>1. /\ \A q \in Replicas \ {r} : worker'[q] = worker[q]
          /\ Draw(worker'[r].prog.prepared) \in Drawn
          /\ \/ worker'[r].prog = worker[r].prog /\ worker'[r].phase = "check"
             \/ Backs(route', fence', worker'[r].prog, Reached(worker'[r]))
      BY <1>1, <1>4, CommitEndsFacts
    <2>2. Backs(route, fence, worker[r].prog, TargetReady) /\ worker[r].prog.step = TargetReady
      BY WorkingFacts DEF CommitActive
    <2>3. route.epoch \in Nat /\ fence.epoch \in Nat
      BY <1>1, Numbers
    <2>4. route'.epoch = route.epoch /\ route'.owner = route.owner /\ Draw(route') = Draw(route)
      BY <1>4 DEF Draw
    <2>5. Backs(route', fence', worker'[r].prog, Reached(worker'[r]))
      <3>1. CASE worker'[r].prog = worker[r].prog /\ worker'[r].phase = "check"
        <4>1. Reached(worker'[r]) = RouteActive
          BY <2>2, <3>1 DEF Reached, TargetReady, RouteActive
        <4> QED
          BY <1>2, <2>2, <2>4, <3>1, <4>1
             DEF Backs, SourceFlushed, RoutePreparing, TargetReady, RouteActive
      <3> QED
        BY <2>1, <3>1
    <2>6. FenceAgrees'
      BY <1>2, <1>4, <2>3 DEF Inv, FenceAgrees
    <2>7. Drawn' \subseteq Drawn
      BY <1>2, <2>1, <2>4, DrawsKept, HeldDraws
    <2> QED
      BY <1>1, <1>2, <2>1, <2>3, <2>4, <2>5, <2>6, <2>7, LoudInv
  <1> QED
    BY <1>3, <1>4, CommitActiveFacts

LEMMA InitInv ==
  ASSUME Init
  PROVE Inv
  <1>1. TypeOK
    <2>1. /\ route \in Entries /\ fence \in Fences /\ task \in Tasks /\ prog \in Progress
      BY ConstantTypes DEF Init
    <2>2. trs \in Nat /\ faults \in 0..MaxFaults
      BY MigrationAssumption DEF Init
    <2>3. indexed \subseteq Replicas /\ holder \in Replicas \cup {NoReplica}
      BY MigrationAssumption DEF Init
    <2>5. /\ cur \in [Replicas -> Entries] /\ open \in [Replicas -> Tasks]
          /\ worker \in [Replicas -> Workers] /\ view \in [Zones -> Entries]
          /\ marker \in [Zones -> [epoch : Nat, tr : Nat]]
      BY ConstantTypes DEF Init
    <2>6. lead \in [Replicas -> {"down", "follower", "planner", "worker"}]
      BY DEF Init
    <2> QED
      BY <2>1, <2>2, <2>3, <2>5, <2>6 DEF TypeOK
  <1>2. \A r \in Replicas : worker[r] = Idle /\ Idle.prog = NoProgress /\ Idle.phase = "idle"
    BY DEF Init, Idle
  <1>3. NoProgress.step = 0 /\ NoProgress.prepared = FirstRoute /\ prog = NoProgress
    BY DEF Init, NoProgress
  <1>4. ProgressBacked
    <2>1. Idle \in Workers /\ Idle.prog = NoProgress /\ Idle.phase \notin {"check", "write"}
      BY ConstantTypes DEF Idle
    <2>2. /\ Backs(route, fence, NoProgress, 0)
          /\ Backs(route, fence, Idle.prog, Reached(Idle))
      BY <2>1, NothingBacked
    <2> QED
      BY <1>2, <1>3, <2>2 DEF ProgressBacked
  <1>5. FenceAgrees
    BY DEF Init, FenceAgrees, FenceOf, FirstRoute
  <1>6. Drawn \subseteq {Draw(FirstRoute)}
    BY <1>2, <1>3 DEF Drawn, Init
  <1>7. Draw(FirstRoute)[1] = 0 /\ trs = 0
    BY DEF Draw, FirstRoute, Init
  <1>8. OneEpoch
    BY <1>6, <1>7 DEF OneEpoch, Unambiguous
  <1> QED
    BY <1>1, <1>4, <1>5, <1>8 DEF Inv

LEMMA NextInv ==
  ASSUME Inv, [Next]_vars
  PROVE Inv'
  <1>1. TypeOK /\ TypeOK'
    BY NextTypes DEF Inv
  <1>2. ASSUME NEW r \in Replicas, ReplicaStep(r) PROVE Inv'
    <2>1. CASE Begin(r) \/ Create(r) \/ CommitPreparing(r) \/ AdvanceFence(r) \/ CommitActive(r)
               \/ CheckProgress(r) \/ WriteProgress(r)
      BY <2>1, BeginInv, CreateInv, CommitPreparingInv, AdvanceFenceInv, CommitActiveInv, CheckInv,
         WriteInv
    <2>2. CASE DrainSource(r) \/ EnterLoading(r) \/ PrepareTarget(r) \/ EnterCompletion(r)
      BY <1>1, <2>2, QuietWorker, QuietInv
    <2>3. CASE \/ \E z \in Zones : Move(r, z) \/ \E p \in Priorities : Propose(r, z, p)
               \/ CancelStale(r) \/ Claim(r) \/ SchedulerStops(r) \/ CallFails(r)
               \/ CompleteTask(r) \/ FailTask(r) \/ RetryTask(r)
               \/ BecomeLeader(r) \/ StepDown(r) \/ Crash(r) \/ Restart(r)
      BY <1>1, <2>3, QuietNext, QuietInv
    <2> QED
      BY <1>2, <2>1, <2>2, <2>3 DEF ReplicaStep, WorkerStep
  <1>3. CASE (\E z \in Zones : Refresh(z) \/ RestartZone(z)) \/ UNCHANGED vars
    <2>1. UNCHANGED Rows /\ worker' = worker
      BY <1>3 DEF Refresh, RestartZone, vars, Rows
    <2> QED
      BY <1>1, <2>1, SameTame, QuietInv
  <1> QED
    BY <1>2, <1>3 DEF Next

(***************************************************************************)
(* Every copy of a progress row, those of deposed leaders included, is     *)
(* backed by the route and the fence (Inv), in every reachable state.      *)
(***************************************************************************)
THEOREM InvTheorem == Spec => []Inv
  <1>1. Init => Inv
    BY InitInv
  <1>2. Inv /\ [Next]_vars => Inv'
    BY NextInv
  <1> QED
    BY <1>1, <1>2, PTL DEF Spec

(***************************************************************************)
(* Refinement.                                                             *)
(***************************************************************************)

Writer == [owner |-> fence.owner, epoch |-> fence.epoch]

Routed == IF route.state = "ACTIVE" THEN [owner |-> route.owner, epoch |-> route.epoch] ELSE Nobody

LEMMA GrantTypes ==
  ASSUME TypeOK
  PROVE /\ Writer \in [owner : Zones, epoch : Nat]
        /\ Writer.owner = fence.owner /\ Writer.epoch = fence.epoch
        /\ Routed = Nobody <=> route.state # "ACTIVE"
  BY MigrationAssumption DEF TypeOK, Fences, Entries, Writer, Routed

LEMMA InitOwned ==
  ASSUME Init
  PROVE Ownership!Init
  <1>1. TypeOK
    BY InitInv DEF Inv
  <1>2. Writer \in [owner : Zones, epoch : Nat] /\ Routed = Writer
    BY <1>1, GrantTypes DEF Init, FenceOf, FirstRoute, Writer, Routed
  <1> QED
    BY <1>2 DEF Ownership!Init, Ownership!Grants, Writer, Routed

LEMMA SameOwned ==
  ASSUME UNCHANGED <<route, fence>>
  PROVE UNCHANGED Ownership!ownership
  BY DEF Ownership!ownership

LEMMA CommitPreparingOwned ==
  ASSUME Inv, NEW r \in Replicas, CommitPreparing(r)
  PROVE [Ownership!Next]_(Ownership!ownership)
  <1>1. UNCHANGED <<route, fence>>
        \/ (fence' = fence /\ route.state = "ACTIVE" /\ route'.state = "PREPARING")
    BY CommitPreparingFacts
  <1>2. CASE fence' = fence /\ route.state = "ACTIVE" /\ route'.state = "PREPARING"
    <2>1. Routed # Nobody /\ Routed' = Nobody /\ Writer' = Writer
      BY <1>2, GrantTypes DEF Inv, Writer, Routed
    <2> QED
      BY <2>1 DEF Ownership!Next, Ownership!Withdraw, Writer, Routed
  <1> QED
    BY <1>1, <1>2, SameOwned

LEMMA AdvanceFenceOwned ==
  ASSUME Inv, NEW r \in Replicas, AdvanceFence(r)
  PROVE [Ownership!Next]_(Ownership!ownership)
  <1>1. \/ UNCHANGED <<route, fence>>
        \/ route' = route /\ route.state = "PREPARING" /\ fence.epoch < fence'.epoch
    BY AdvanceFenceFacts
  <1>2. CASE route' = route /\ route.state = "PREPARING" /\ fence.epoch < fence'.epoch
    <2>1. TypeOK /\ TypeOK'
      BY AdvanceFenceTypes DEF Inv
    <2>2. Routed = Nobody /\ Routed' = Nobody
      BY <1>2 DEF Routed
    <2>3. Writer' \in [owner : Zones, epoch : Nat]
      BY <2>1 DEF Writer, TypeOK, Fences
    <2>4. Writer'.epoch > Writer.epoch
      BY <1>2, <2>1, Numbers DEF Writer, TypeOK, Fences
    <2> QED
      BY <2>2, <2>3, <2>4 DEF Ownership!Next, Ownership!Move, Ownership!Grants, Writer, Routed
  <1> QED
    BY <1>1, <1>2, SameOwned

LEMMA CommitActiveOwned ==
  ASSUME Inv, NEW r \in Replicas, CommitActive(r)
  PROVE [Ownership!Next]_(Ownership!ownership)
  <1>1. \/ UNCHANGED <<route, fence>>
        \/ /\ fence' = fence /\ route.state = "PREPARING" /\ route'.state = "ACTIVE"
           /\ route'.owner = fence.owner /\ route'.epoch = fence.epoch
    BY CommitActiveFacts
  <1>2. CASE /\ fence' = fence /\ route.state = "PREPARING" /\ route'.state = "ACTIVE"
             /\ route'.owner = fence.owner /\ route'.epoch = fence.epoch
    <2>1. Routed = Nobody /\ Routed' = Writer /\ Writer' = Writer
      BY <1>2 DEF Routed, Writer
    <2> QED
      BY <2>1 DEF Ownership!Next, Ownership!Grant, Writer, Routed
  <1> QED
    BY <1>1, <1>2, SameOwned

LEMMA NextOwned ==
  ASSUME Inv, [Next]_vars
  PROVE [Ownership!Next]_(Ownership!ownership)
  <1>1. TypeOK
    BY DEF Inv
  <1>2. ASSUME NEW r \in Replicas, ReplicaStep(r)
        PROVE [Ownership!Next]_(Ownership!ownership)
    <2>1. CASE CommitPreparing(r) \/ AdvanceFence(r) \/ CommitActive(r)
      BY <2>1, CommitPreparingOwned, AdvanceFenceOwned, CommitActiveOwned
    <2>2. CASE Begin(r) \/ Create(r) \/ CheckProgress(r) \/ WriteProgress(r)
               \/ DrainSource(r) \/ EnterLoading(r) \/ PrepareTarget(r) \/ EnterCompletion(r)
      <3>1. UNCHANGED <<route, fence>>
        BY <2>2 DEF Begin, Create, CheckProgress, WriteProgress, DrainSource, EnterLoading,
           PrepareTarget, EnterCompletion, Rows
      <3> QED
        BY <3>1, SameOwned
    <2>3. CASE \/ \E z \in Zones : Move(r, z) \/ \E p \in Priorities : Propose(r, z, p)
               \/ CancelStale(r) \/ Claim(r) \/ SchedulerStops(r) \/ CallFails(r)
               \/ CompleteTask(r) \/ FailTask(r) \/ RetryTask(r)
               \/ BecomeLeader(r) \/ StepDown(r) \/ Crash(r) \/ Restart(r)
      BY <1>1, <2>3, QuietNext, SameOwned DEF Rows
    <2> QED
      BY <1>2, <2>1, <2>2, <2>3 DEF ReplicaStep, WorkerStep
  <1>3. CASE (\E z \in Zones : Refresh(z) \/ RestartZone(z)) \/ UNCHANGED vars
    <2>1. UNCHANGED <<route, fence>>
      BY <1>3 DEF Refresh, RestartZone, vars, Rows
    <2> QED
      BY <2>1, SameOwned
  <1> QED
    BY <1>2, <1>3 DEF Next

(***************************************************************************)
(* However many replicas lead at once, die or come back, the shard has one *)
(* writer: the route, fence and progress rows implement ShardOwnership.    *)
(***************************************************************************)
THEOREM OwnedTheorem == Spec => Owned
  <1>1. Init => Ownership!Init
    BY InitOwned
  <1>2. Inv /\ [Next]_vars => [Ownership!Next]_(Ownership!ownership)
    BY NextOwned
  <1> QED
    BY <1>1, <1>2, InvTheorem, PTL DEF Spec, Owned, Ownership!Spec
=============================================================================
