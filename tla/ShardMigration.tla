--------------------------- MODULE ShardMigration ---------------------------
(***************************************************************************)
(* The migration of one shard by the coordinator: the planner and the move  *)
(* request write a MigrationTask; the leader's worker claims it and takes a  *)
(* MigrationProgress row through its seven steps (drain the source, commit   *)
(* PREPARING, advance the fence, prepare the target, commit ACTIVE).  Every  *)
(* replica may be leading or believe it does, calls fail, processes crash,   *)
(* and the next leader resumes from the stored step.                        *)
(*                                                                         *)
(* A commit of the route is one step here: RouteStore shows what that rests  *)
(* on.  The checkpoints the source flushes and the target rewrites are in    *)
(* PlayerRuntime.  The operator's abandon request is not modelled.           *)
(*                                                                         *)
(* Sources: server/internal/coordinator/migration (executor.go,             *)
(* scheduler.go, progress_store.go, task_store.go, tcaplus_task_store.go),   *)
(* server/internal/coordinator/placement/planner.go,                        *)
(* server/cmd/coordinator (leader_runtime.go, migration_wiring.go,          *)
(* route_store_wiring.go, migration.go), server/cmd/zone/lifecycle.go and   *)
(* server/internal/routing (tcaplus_control_store.go, authorization.go).    *)
(***************************************************************************)
EXTENDS Integers

CONSTANTS
    Replicas,      \* coordinator processes
    Zones,
    Home,          \* the first owner
    FirstLeader,   \* the replica that leads at first
    Priorities,    \* REBALANCE = 1, DRAIN = 2
    NoReplica,     \* nobody holds the lease
    Nobody,        \* nobody is routed to
    MaxTasks,      \* bound on planned tasks
    MaxFaults      \* bound on failed calls, crashes and leases that expire under
                   \* a living leader

ASSUME MigrationAssumption ==
    /\ Home \in Zones /\ FirstLeader \in Replicas
    /\ NoReplica \notin Replicas
    /\ Nobody \notin [owner : Zones, epoch : Nat]
    /\ Priorities \subseteq {1, 2}
    /\ MaxTasks \in Nat /\ MaxFaults \in Nat

VARIABLES
    route,      \* the committed ShardRoute
    fence,      \* the ShardFence row
    task,       \* the MigrationTask row
    prog,       \* the MigrationProgress row; step 0: none is open
    trs,        \* transition IDs drawn so far
    cur,        \* each replica's Current
    open,       \* each replica's index of open tasks
    indexed,    \* replicas that have built their index
    lead,       \* what each replica runs
    holder,     \* who holds the Kubernetes lease
    worker,     \* each replica's execution of the task
    view,       \* each Zone's authorization entry
    marker,     \* each Zone's drain marker: owner epoch and transition
    faults

vars == <<route, fence, task, prog, trs, cur, open, indexed, lead, holder, worker,
          view, marker, faults>>

-----------------------------------------------------------------------------
(***************************************************************************)
(* Rows.                                                                   *)
(***************************************************************************)

SourceDraining == 1
SourceFlushed  == 2
RoutePreparing == 3
FenceAdvanced  == 4
TargetLoading  == 5
TargetReady    == 6
RouteActive    == 7

\* A route entry; its lease ID changes with the transition ID.
Entries == [state : {"ACTIVE", "PREPARING"}, owner : Zones, epoch : Nat,
            ver : Nat, prev : Zones, tr : Nat]

Fences == [owner : Zones, epoch : Nat, ver : Nat, tr : Nat]

Sources == [owner : Zones, epoch : Nat, ver : Nat]

Source(e) == [owner |-> e.owner, epoch |-> e.epoch, ver |-> e.ver]

Tasks == [id : Nat, status : {"none", "PLANNED", "RUNNING", "COMPLETED", "CANCELLED"},
          priority : {0, 1, 2}, source : Sources, target : Zones]

IsOpen(t) == t.status \in {"PLANNED", "RUNNING"}

Progress == [step : 0..RouteActive, source : Sources, prepared : Entries]

FirstRoute == [state |-> "ACTIVE", owner |-> Home, epoch |-> 1, ver |-> 1,
               prev |-> Home, tr |-> 0]

NoTask == [id |-> 0, status |-> "none", priority |-> 0,
           source |-> Source(FirstRoute), target |-> Home]

NoProgress == [step |-> 0, source |-> Source(FirstRoute), prepared |-> FirstRoute]

NoMarker == [epoch |-> 0, tr |-> 0]

Phases == {"idle", "claimed", "create", "work", "check", "write", "done", "retry", "fail"}

\* The attempt's phase, its task and the progress it holds.
Workers == [phase : Phases, id : Nat, prog : Progress]

Idle == [phase |-> "idle", id |-> 0, prog |-> NoProgress]

Busy(r) == worker[r].phase # "idle"

Fault == faults < MaxFaults /\ faults' = faults + 1

Goto(r, phase) == worker' = [worker EXCEPT ![r].phase = phase]

\* The attempt goes on with progress p.
Continue(r, p) == worker' = [worker EXCEPT ![r] = [phase |-> "work", id |-> @.id, prog |-> p]]

\* The attempt is over but for the task's row: "done", "retry" or "fail".
Quit(r, phase) == worker' = [worker EXCEPT ![r].phase = phase, ![r].prog = NoProgress]

Leads(r) == lead[r] \in {"planner", "worker"}

-----------------------------------------------------------------------------
(***************************************************************************)
(* Comparisons of rows.                                                    *)
(***************************************************************************)

\* taskMatchesSource for an entry and, below, for a progress row.
TaskMatchesSource(t, e) == e.state = "ACTIVE" /\ t.source = Source(e)

ProgressMatchesTask(p, t) == p.prepared.owner = t.target /\ p.source = t.source

\* The exact evidence that the task's own move was committed.
CompletedTaskRoute(t, e) ==
    /\ e.state = "ACTIVE" /\ e.owner = t.target /\ e.prev = t.source.owner
    /\ e.epoch > t.source.epoch /\ e.ver = t.source.ver + 2 /\ e.tr # 0

SameIdentity(p, q) == p.source = q.source /\ p.prepared = q.prepared

SameActivated(e, p) == e = [p EXCEPT !.state = "ACTIVE", !.ver = @ + 1]

Prepared(e, target, tr) ==
    [state |-> "PREPARING", owner |-> target, epoch |-> e.epoch + 1, ver |-> e.ver + 1,
     prev |-> e.owner, tr |-> tr]

-----------------------------------------------------------------------------
(***************************************************************************)
(* Planning.                                                               *)
(***************************************************************************)

Rows == <<route, fence, prog, trs>>
Zone == <<view, marker>>
Election == <<lead, holder, indexed>>

\* resolveUpsert leaves a running task and one of at least the same priority.
Supersedes(p, t) == t.status = "PLANNED" => p > t.priority

UpsertPlanned(r, target, p) ==
    /\ task.id < MaxTasks
    /\ task.status # "RUNNING" /\ Supersedes(p, task)
    /\ task' = [id |-> task.id + 1, status |-> "PLANNED", priority |-> p,
                source |-> Source(cur[r]), target |-> target]
    /\ open' = [open EXCEPT ![r] = task']
    /\ UNCHANGED <<Rows, Zone, Election, cur, worker, faults>>

\* The planner wants the shard elsewhere.  A task that starts from Current has
\* its slot, unless its target is no longer healthy and desired.
Propose(r, target, p) ==
    /\ Leads(r) /\ target # cur[r].owner
    /\ (IsOpen(open[r]) /\ open[r].source = Source(cur[r])) => open[r].target # target
    /\ UpsertPlanned(r, target, p)

\* The operator's move request is queued as a drain.
Move(r, target) ==
    /\ Leads(r) /\ cur[r].state = "ACTIVE" /\ target # cur[r].owner
    /\ 2 \in Priorities
    /\ UpsertPlanned(r, target, 2)

\* The planner wants the shard where it is, and cancels a task that still waits.
CancelStale(r) ==
    /\ Leads(r)
    /\ open[r].status = "PLANNED" /\ cur[r].state = "ACTIVE"
    /\ ~CompletedTaskRoute(open[r], cur[r])
    /\ task.status = "PLANNED" /\ task.id = open[r].id
    /\ task' = [task EXCEPT !.status = "CANCELLED"]
    /\ open' = [open EXCEPT ![r] = NoTask]
    /\ UNCHANGED <<Rows, Zone, Election, cur, worker, faults>>

-----------------------------------------------------------------------------
(***************************************************************************)
(* The scheduler and the executor.                                         *)
(***************************************************************************)

Local == <<cur, open, indexed>>

\* The store claims the task that the replica's index names if it is still open,
\* also one that a leader has left RUNNING.
Claimable(r) == ~Busy(r) /\ IsOpen(open[r]) /\ IsOpen(task) /\ task.id = open[r].id

\* RunOnce takes the task its index names and claims it in the store.
Claim(r) ==
    /\ lead[r] = "worker" /\ Claimable(r)
    /\ task' = [task EXCEPT !.status = "RUNNING"]
    /\ open' = IF task.status = "PLANNED" THEN [open EXCEPT ![r] = task'] ELSE open
    /\ worker' = [worker EXCEPT ![r] = [Idle EXCEPT !.phase = "claimed", !.id = task.id]]
    /\ UNCHANGED <<Rows, Zone, Election, cur, faults>>

\* The attempt's context is cancelled, and with it the call in flight.
Cancel(r) ==
    IF Busy(r) /\ worker[r].phase # "fail" THEN Quit(r, "retry") ELSE worker' = worker

\* Any other error of LoadOpen or Claim, of this shard's task or another's, ends
\* Scheduler.Run: the replica goes on leading without it.  The claim may have
\* been written.
SchedulerStops(r) ==
    /\ lead[r] = "worker" /\ Fault
    /\ lead' = [lead EXCEPT ![r] = "planner"]
    /\ Cancel(r)
    /\ task' = task \/ (Claimable(r) /\ task' = [task EXCEPT !.status = "RUNNING"])
    /\ UNCHANGED <<Rows, Zone, cur, open, indexed, holder>>

At(r, phase, step) == worker[r].phase = phase /\ worker[r].prog.step = step

Working(r, step) == At(r, "work", step)

Unshared == <<task, open, indexed, lead, holder>>

\* Execute reads the task and the progress row: it resumes, finds its move done,
\* starts one from Current, or gives the task up.
Begin(r) ==
    LET w == worker[r]
        mine == task.status = "RUNNING" /\ task.id = w.id
        next == IF ~mine THEN "fail"
                ELSE IF prog.step # 0
                     THEN IF ProgressMatchesTask(prog, task) THEN "work" ELSE "fail"
                     ELSE IF CompletedTaskRoute(task, cur[r]) THEN "done"
                          ELSE IF TaskMatchesSource(task, cur[r]) THEN "create" ELSE "fail"
    IN /\ w.phase = "claimed"
       /\ worker' = [worker EXCEPT ![r] =
             [phase |-> next, id |-> w.id,
              prog |-> CASE next = "work" -> prog
                         [] next = "create" ->
                              [step |-> SourceDraining, source |-> task.source,
                               prepared |-> Prepared(cur[r], task.target, trs + 1)]
                         [] OTHER -> NoProgress]]
       /\ trs' = IF next = "create" THEN trs + 1 ELSE trs
       /\ UNCHANGED <<route, fence, prog, Unshared, cur, Zone, faults>>

\* Create refuses a row that has appeared meanwhile, but its write is a plain
\* upsert: a row that appears after the look is overwritten.
Create(r) ==
    /\ worker[r].phase = "create"
    /\ \/ /\ prog.step # 0
          /\ Quit(r, "fail") /\ prog' = prog
       \/ /\ prog' = worker[r].prog
          /\ Goto(r, "work")
    /\ UNCHANGED <<route, fence, trs, Unshared, cur, Zone, faults>>

\* What the Zone's drain handler accepts: an ACTIVE entry of its own for this
\* epoch, and no drain marker of another epoch.
Drainable(z, epoch) ==
    /\ view[z].state = "ACTIVE" /\ view[z].owner = z /\ view[z].epoch = epoch
    /\ marker[z] = NoMarker \/ marker[z].epoch = epoch

\* Restore lifts the marker that this transition has set.
Resume(z, epoch, tr) ==
    marker' = IF marker[z] = [epoch |-> epoch, tr |-> tr]
              THEN [marker EXCEPT ![z] = NoMarker] ELSE marker

DrainSource(r) ==
    LET p == worker[r].prog
        z == p.source.owner
    IN /\ Working(r, SourceDraining)
       /\ \/ /\ Drainable(z, p.source.epoch)
             /\ marker' = [marker EXCEPT ![z] = [epoch |-> p.source.epoch, tr |-> p.prepared.tr]]
             /\ Goto(r, "check") /\ faults' = faults
          \/ /\ ~Drainable(z, p.source.epoch)
             /\ Resume(z, p.source.epoch, p.prepared.tr)
             /\ Quit(r, "retry") /\ faults' = faults
          \/ /\ Fault
             /\ Resume(z, p.source.epoch, p.prepared.tr)
             /\ Quit(r, "retry")
       /\ UNCHANGED <<Rows, Unshared, cur, view>>

(***************************************************************************)
(* The commit of an entry over the expected route: the replica applies and  *)
(* publishes what it finds committed, or finds its Current newer, which is   *)
(* a conflict, or the call fails once the intent is stored.  (Recovery may   *)
(* call such an intent corrupt; then nothing moves the route any more, see   *)
(* InterruptedIsRecoverable in RouteStore.)                                 *)
(***************************************************************************)
CommitRoute(r, e) ==
    /\ route' = e
    /\ \/ cur' = [cur EXCEPT ![r] = e] /\ Goto(r, "check") /\ faults' = faults
       \/ cur' = cur /\ Quit(r, "fail") /\ faults' = faults
       \/ cur' = cur /\ Quit(r, "retry") /\ Fault

\* The route is not the expected one, or the map's version is not, because another
\* shard's route was committed after the executor's look: ErrRouteConflict.
RouteConflict(r) == Quit(r, "fail") /\ UNCHANGED <<route, cur, faults>>

MayPrepare(p) == route.state = "ACTIVE" /\ Source(route) = p.source

CommitPreparing(r) ==
    LET p == worker[r].prog
    IN /\ Working(r, SourceFlushed)
       /\ \/ route = p.prepared /\ CommitRoute(r, route)
          \/ route # p.prepared /\ MayPrepare(p) /\ CommitRoute(r, p.prepared)
          \/ route # p.prepared /\ RouteConflict(r)
       /\ UNCHANGED <<fence, prog, trs, Unshared, Zone>>

FenceOf(e) == [owner |-> e.owner, epoch |-> e.epoch, ver |-> e.ver, tr |-> e.tr]

MayFence(e) == fence.owner = e.prev /\ fence.epoch < e.epoch /\ fence.ver < e.ver

\* The fence is advanced before the route is withdrawn.
AdvanceFenceFirst(r) ==
    /\ Working(r, SourceFlushed)
    /\ MayFence(worker[r].prog.prepared) /\ fence' = FenceOf(worker[r].prog.prepared)
    /\ UNCHANGED <<route, prog, trs, Unshared, cur, worker, Zone, faults>>

AdvanceFence(r) ==
    LET e == worker[r].prog.prepared
    IN /\ Working(r, RoutePreparing)
       /\ \/ (fence = FenceOf(e) \/ MayFence(e)) /\ fence' = FenceOf(e) /\ Goto(r, "check")
          \/ fence # FenceOf(e) /\ ~MayFence(e) /\ Quit(r, "retry") /\ fence' = fence
       /\ UNCHANGED <<route, prog, trs, Unshared, cur, Zone, faults>>

EnterLoading(r) ==
    /\ Working(r, FenceAdvanced)
    /\ Goto(r, "check")
    /\ UNCHANGED <<Rows, Unshared, cur, Zone, faults>>

\* The target wants to have seen its PREPARING entry; resident Actors or
\* checkpoints that are not those of the manifest make it refuse all the same.
PrepareTarget(r) ==
    LET e == worker[r].prog.prepared
    IN /\ Working(r, TargetLoading)
       /\ (view[e.owner] = e /\ Goto(r, "check")) \/ Quit(r, "retry")
       /\ UNCHANGED <<Rows, Unshared, cur, Zone, faults>>

MayActivate(e) == route.state = "PREPARING" /\ route.tr = e.tr

\* The route is granted before the fence has moved.
CommitActiveEarly(r) ==
    LET e == worker[r].prog.prepared
    IN /\ Working(r, RoutePreparing) /\ MayActivate(e)
       /\ CommitRoute(r, [route EXCEPT !.state = "ACTIVE", !.ver = @ + 1])
       /\ UNCHANGED <<fence, prog, trs, Unshared, Zone>>

CommitActive(r) ==
    LET e == worker[r].prog.prepared
    IN /\ Working(r, TargetReady)
       /\ \/ SameActivated(route, e) /\ CommitRoute(r, route)
          \/ MayActivate(e) /\ CommitRoute(r, [route EXCEPT !.state = "ACTIVE", !.ver = @ + 1])
          \/ ~SameActivated(route, e) /\ RouteConflict(r)
       /\ UNCHANGED <<fence, prog, trs, Unshared, Zone>>

\* RefreshOwnership at the target is best effort; see Refresh.
EnterCompletion(r) ==
    /\ Working(r, RouteActive)
    /\ Goto(r, "check")
    /\ UNCHANGED <<Rows, Unshared, cur, Zone, faults>>

\* Advance and Complete read the row first: it must be the same migration at the
\* executor's step, or already at the next one, or gone if this is the last.  (The
\* comparison of the manifests is left out.)
CheckProgress(r) ==
    LET w == worker[r]
        s == w.prog.step
        same == prog.step # 0 /\ SameIdentity(prog, w.prog)
    IN /\ w.phase = "check"
       /\ \/ same /\ prog.step = s /\ Goto(r, "write")
          \/ /\ s < RouteActive /\ same /\ prog.step = s + 1
             /\ Continue(r, prog)
          \/ s = RouteActive /\ prog.step = 0 /\ Quit(r, "done")
          \/ /\ ~(same /\ prog.step \in {s, s + 1})
             /\ ~(s = RouteActive /\ prog.step = 0)
             /\ Quit(r, "fail")
       /\ UNCHANGED <<Rows, Unshared, cur, Zone, faults>>

\* The write replaces whatever the row has become since the look; the delete
\* still wants the row of this transition.
WriteProgress(r) ==
    LET w == worker[r]
        s == w.prog.step
        next == [w.prog EXCEPT !.step = s + 1]
        mine == prog.step # 0 /\ prog.prepared.tr = w.prog.prepared.tr
    IN /\ w.phase = "write"
       /\ \/ /\ s < RouteActive
             /\ prog' = next
             /\ Continue(r, next)
          \/ s = RouteActive /\ mine /\ prog' = NoProgress /\ Quit(r, "done")
          \/ s = RouteActive /\ ~mine /\ prog' = prog /\ Quit(r, "retry")
       /\ UNCHANGED <<route, fence, trs, Unshared, cur, Zone, faults>>

\* The task ends RUNNING with this status, if it still is this task's row; the
\* index follows the row.
Finish(r, status) ==
    /\ IF task.status = "RUNNING" /\ task.id = worker[r].id
       THEN /\ task' = [task EXCEPT !.status = status]
            /\ open' = [open EXCEPT ![r] = IF status = "PLANNED" THEN task' ELSE NoTask]
       ELSE UNCHANGED <<task, open>>
    /\ UNCHANGED <<Rows, Election, cur, Zone, faults>>

CompleteTask(r) ==
    /\ worker[r].phase = "done"
    /\ Finish(r, "COMPLETED")
    /\ IF task.id = worker[r].id /\ task.status \in {"RUNNING", "COMPLETED"}
       THEN worker' = [worker EXCEPT ![r] = Idle]
       ELSE Quit(r, "fail")

\* Route, progress and task conflicts are permanent; every other error is
\* retried later.
FailTask(r) ==
    /\ worker[r].phase = "fail"
    /\ Finish(r, "CANCELLED")
    /\ worker' = [worker EXCEPT ![r] = Idle]

RetryTask(r) ==
    /\ worker[r].phase = "retry"
    /\ Finish(r, "PLANNED")
    /\ worker' = [worker EXCEPT ![r] = Idle]

\* A call fails or its answer is lost.  The outcome of a failed attempt may not
\* be recorded either: the task stays RUNNING.
CallFails(r) ==
    /\ Busy(r) /\ Fault
    /\ IF worker[r].phase \in {"retry", "fail"}
       THEN worker' = [worker EXCEPT ![r] = Idle]
       ELSE Quit(r, "retry")
    /\ UNCHANGED <<Rows, Unshared, cur, Zone>>

WorkerStep(r) ==
    \/ Begin(r) \/ Create(r)
    \/ DrainSource(r) \/ CommitPreparing(r) \/ AdvanceFence(r) \/ EnterLoading(r)
    \/ PrepareTarget(r) \/ CommitActive(r) \/ EnterCompletion(r)
    \/ CheckProgress(r) \/ WriteProgress(r)
    \/ CompleteTask(r) \/ FailTask(r) \/ RetryTask(r)

-----------------------------------------------------------------------------
(***************************************************************************)
(* Leadership, processes and Zones.                                        *)
(***************************************************************************)

\* RecoverOpenProgressTasks: an open migration gets a task again if it has none;
\* if it has another migration's, the worker is not started.
Recovered ==
    [id |-> task.id + 1, status |-> "PLANNED",
     priority |-> IF task.status = "none" THEN 2 ELSE task.priority,
     source |-> prog.source, target |-> prog.prepared.owner]

\* A replica gets the lease: it reloads Current, recovers tasks and builds its
\* index, unless it has built one before.
BecomeLeader(r) ==
    LET orphan == prog.step # 0 /\ ~IsOpen(task)
        foreign == prog.step # 0 /\ IsOpen(task) /\ ~ProgressMatchesTask(prog, task)
    IN /\ lead[r] = "follower" /\ ~Busy(r)
       /\ \/ holder = NoReplica /\ faults' = faults
          \/ holder \in Replicas \ {r} /\ Fault
       /\ holder' = r
       /\ cur' = [cur EXCEPT ![r] = route]
       /\ task' = IF orphan THEN Recovered ELSE task
       /\ lead' = [lead EXCEPT ![r] = IF foreign THEN "planner" ELSE "worker"]
       /\ open' = IF orphan \/ r \notin indexed
                  THEN [open EXCEPT ![r] = IF IsOpen(task') THEN task' ELSE NoTask]
                  ELSE open
       /\ indexed' = indexed \cup {r}
       /\ UNCHANGED <<Rows, Zone, worker>>

\* A leader notices that the lease is another's.
StepDown(r) ==
    /\ Leads(r) /\ holder # r
    /\ lead' = [lead EXCEPT ![r] = "follower"]
    /\ Cancel(r)
    /\ UNCHANGED <<Rows, Zone, task, cur, open, indexed, holder, faults>>

Crash(r) ==
    /\ lead[r] # "down" /\ Fault
    /\ lead' = [lead EXCEPT ![r] = "down"]
    /\ holder' = IF holder = r THEN NoReplica ELSE holder
    /\ worker' = [worker EXCEPT ![r] = Idle]
    /\ open' = [open EXCEPT ![r] = NoTask]
    /\ indexed' = indexed \ {r}
    /\ UNCHANGED <<Rows, Zone, task, cur>>

BeforeFence(step) == step <= RoutePreparing

\* validateCurrentFences compares the three rows before a process may start.
StartupAccepts ==
    IF route.state = "ACTIVE"
    THEN fence.owner = route.owner /\ fence.epoch = route.epoch
    ELSE /\ prog.step # 0 /\ prog.prepared.tr = route.tr
         /\ LET expected == IF BeforeFence(prog.step) THEN prog.source ELSE Source(route)
            IN expected = [owner |-> fence.owner, epoch |-> fence.epoch, ver |-> fence.ver]

Restart(r) ==
    /\ lead[r] = "down" /\ StartupAccepts
    /\ lead' = [lead EXCEPT ![r] = "follower"]
    /\ cur' = [cur EXCEPT ![r] = route]
    /\ UNCHANGED <<Rows, Zone, task, open, indexed, holder, worker, faults>>

\* A Zone polls the route or is told to, or is sent it.
Refresh(z) ==
    /\ view[z] # route
    /\ view' = [view EXCEPT ![z] = route]
    /\ UNCHANGED <<Rows, task, Local, lead, holder, worker, marker, faults>>

RestartZone(z) ==
    /\ Fault
    /\ view' = [view EXCEPT ![z] = route]
    /\ marker' = [marker EXCEPT ![z] = NoMarker]
    /\ UNCHANGED <<Rows, task, Local, lead, holder, worker>>

-----------------------------------------------------------------------------

Init ==
    /\ route = FirstRoute
    /\ fence = FenceOf(FirstRoute)
    /\ task = NoTask /\ prog = NoProgress /\ trs = 0
    /\ cur = [r \in Replicas |-> FirstRoute]
    /\ open = [r \in Replicas |-> NoTask]
    /\ indexed = {FirstLeader}
    /\ lead = [r \in Replicas |-> IF r = FirstLeader THEN "worker" ELSE "follower"]
    /\ holder = FirstLeader
    /\ worker = [r \in Replicas |-> Idle]
    /\ view = [z \in Zones |-> FirstRoute]
    /\ marker = [z \in Zones |-> NoMarker]
    /\ faults = 0

ReplicaStep(r) ==
    \/ \E z \in Zones : Move(r, z) \/ \E p \in Priorities : Propose(r, z, p)
    \/ CancelStale(r) \/ Claim(r) \/ SchedulerStops(r) \/ WorkerStep(r) \/ CallFails(r)
    \/ BecomeLeader(r) \/ StepDown(r) \/ Crash(r) \/ Restart(r)

Next ==
    \/ \E r \in Replicas : ReplicaStep(r)
    \/ \E z \in Zones : Refresh(z) \/ RestartZone(z)

Spec == Init /\ [][Next]_vars

-----------------------------------------------------------------------------
(***************************************************************************)
(* Properties.                                                             *)
(***************************************************************************)

TypeOK ==
    /\ route \in Entries /\ fence \in Fences
    /\ task \in Tasks /\ prog \in Progress /\ trs \in Nat
    /\ cur \in [Replicas -> Entries] /\ open \in [Replicas -> Tasks]
    /\ indexed \subseteq Replicas
    /\ lead \in [Replicas -> {"down", "follower", "planner", "worker"}]
    /\ holder \in Replicas \cup {NoReplica}
    /\ worker \in [Replicas -> Workers]
    /\ view \in [Zones -> Entries] /\ marker \in [Zones -> [epoch : Nat, tr : Nat]]
    /\ faults \in 0..MaxFaults

\* The step whose effect this worker's attempt has reached.
Reached(w) == IF w.phase \in {"check", "write"} THEN w.prog.step + 1 ELSE w.prog.step

\* Entry e and fence f back progress p that has reached step s: its PREPARING entry
\* was committed and only its own ACTIVE form or a later epoch can have replaced it;
\* then the fence has passed.
Backs(e, f, p, s) ==
    /\ s # 0 => p.prepared.state = "PREPARING" /\ p.prepared.epoch = p.source.epoch + 1
    /\ s > SourceFlushed =>
        /\ e.epoch >= p.prepared.epoch
        /\ e.epoch = p.prepared.epoch => e.owner = p.prepared.owner
    /\ s > RoutePreparing => f.epoch >= p.prepared.epoch

ProgressBacked ==
    /\ Backs(route, fence, prog, prog.step)
    /\ \A r \in Replicas : Backs(route, fence, worker[r].prog, Reached(worker[r]))

FenceAgrees ==
    /\ fence.epoch <= route.epoch
    /\ fence.epoch = route.epoch => fence.owner = route.owner
    /\ route.state = "ACTIVE" => fence.epoch = route.epoch

\* The transition ID and the epoch of an entry.
Draw(e) == <<e.tr, e.epoch>>

Drawn == {Draw(FirstRoute), Draw(route), Draw(prog.prepared)}
            \cup {Draw(worker[r].prog.prepared) : r \in Replicas}

\* All draws are known to the counter, and one ID stands for one epoch.
Unambiguous(draws, n) ==
    /\ \A d \in draws : d[1] \in 0..n
    /\ \A d1, d2 \in draws : d1[1] = d2[1] => d1[2] = d2[2]

OneEpoch == Unambiguous(Drawn, trs)

\* Every copy of the progress row, stale ones of deposed leaders included, is backed
\* by the route and the fence; a transition ID stands for one epoch in all of them;
\* and the fence never runs ahead of the route.  Inductive.
Inv == TypeOK /\ ProgressBacked /\ FenceAgrees /\ OneEpoch

\* Whatever leaders believe, the three rows keep the shard's ownership single:
\* the route is ACTIVE only for the Zone and epoch the fence lets write, and the
\* fence moves, always to a higher epoch, only while the route is withdrawn.
Ownership ==
    INSTANCE ShardOwnership WITH
        writer <- [owner |-> fence.owner, epoch |-> fence.epoch],
        routed <- IF route.state = "ACTIVE"
                  THEN [owner |-> route.owner, epoch |-> route.epoch] ELSE Nobody

Owned == Ownership!Spec
=============================================================================
