# A verification project for Supernova Classic Farm

The repository is the server of a multiplayer farm game: stateful Zone processes
hold one Actor per active player, write player checkpoints back to Tcaplus
asynchronously, and can hand a logical shard of players over to one another. This
directory holds TLA+ models of that server, the TLC runs that check them on small
instances, and TLAPS proofs of the properties that matter most.

## The system

| Part | State it keeps | Operations | What is hard |
|---|---|---|---|
| Player Actor runtime (`server/internal/player/runtime.go`, `sync_persist.go`, `actor_eviction.go`) | `actors`, `dirtyRevision`, per Actor: state, persisted revision and token, lifecycle, durable-pending markers; one RWMutex per shard | activate, handle a command, run and settle a Saga step, flush dirty players, evict, drain, prepare, close | several goroutines per player; answers that promise durability; writes that time out |
| Checkpoint store (`tcaplus_durable_store.go`, `tcaplus_store.go`) | checkpoint rows (version, revision), outbox rows, the shard's fence | Load, CreateInitial, SaveCAS, reconcile | no transactions: fence read, row update and outbox inserts are separate requests, each may time out and land later |
| Deadline scheduler (`actor_scheduler.go`, `actor_tick.go`) | a heap of deadlines, the latest generation per player | schedule, cancel, fire | a deadline read in the mailbox and scheduled after it |
| Friend gift (`gift.go`, `handleSendFriendGiftAwait`) | a draft carried across an RPC to the mail service | prepare, await, commit | other commands run while the mailbox job is suspended |
| Friend Sagas (`internal/interaction`, `steal_crop.go`, `friend_action_*.go`, `cmd/zone/friend_rpc.go`) | a FriendInteraction record; reservations and receipts in two Actors | reserve, apply on owner, commit or release on visitor; the direct path without a record | crash between the steps, lost replies, several drivers of one record |
| Outbox relay (`internal/outbox`) | outbox rows with lease and attempt count | claim, deliver, mark | at-least-once delivery |
| Zone lifecycle and authorization (`cmd/zone`, `internal/routing/authorization.go`) | authorized shards with epochs, draining marks | replace, validate, begin drain, resume, complete drain, prepare | requests admitted under an old epoch |
| Route store (`internal/coordinator/routestore`) | one ShardMapMeta row with the map version and at most one pending commit, one ShardRoute row per shard | bootstrap, load and recover, commit | a commit is three conditional updates; followers load, and recover, next to it |
| Shard coordinator (`internal/coordinator`, `cmd/coordinator`, `internal/routing`) | tasks, progress rows, fence rows, leader and membership leases | plan, migrate, recover, fail over | leader crash between an effect and the write that records it; two leaders at once |
| Friend service (`internal/friend`, `social_task_credit.go`) | Sagas, friend lists with reservations, relations, first-reward rows | redeem a share code, reconcile | six kinds of rows changed one by one, by several drivers |
| Mail and info services | rows of their own | create, claim, query | two-record updates without transactions |
| Visit sessions, farm view, push, connections, gateway, route cache | leases, sequence numbers, registries | subscribe, publish, replace a connection, refresh a route | stale registrations and gaps |
| Authentication | sessions and one-time tickets | login, issue, consume | replacement and replay |
| Web, frontend, benchmarks, test runner, generated code | - | - | not part of the server's own logic |

Commands reach a Zone through the gateway with the epoch the gateway believes in.
The Zone validates it against its authorization, takes the shard's read lock, and
runs the command as a job of the player's mailbox. Ordinary commands are answered
from memory and written back by the flusher; Saga steps between two players are
answered only after `settleSyncStepLocked` has proved them durable. The coordinator
moves a shard by asking the source to drain, moving the fence row to the next epoch,
and asking the target to prepare; at a failover it only moves the fence.

## Modules

### PlayerRuntime

Zones, the players of one logical shard, and the store they share. The shards are
independent in the code (locks, fences and manifests are per shard), so one is enough.

State and code:

| Variable | Code |
|---|---|
| `row`, `outbox`, `fence` | the Tcaplus tables PlayerCheckpoint (content with Tcaplus version; version 0 is an absent row), PlayerOutbox, ShardFence |
| `late` | update or insert requests whose sender timed out or died; they may be applied at any later time, or never |
| `view` | the epoch the Zone's authorization grants for the shard (0: none, or draining) |
| `status`, `inc` | life of the process; the incarnation stands for `UpdatedAtMS`, which tells two processes' equal-looking checkpoints apart |
| `actor` | `Runtime.actors`: lifecycle, the epoch asked for, state, persisted revision and token, durable-pending markers |
| `dirty` | `Runtime.dirtyRevision` |
| `task` | goroutines: requests, the flusher, and the holder of the shard's write lock |
| `acked` | history: Saga steps reported as done |
| `manifest` | the result of the last complete drain |

The content of a checkpoint is abstracted to its revision, its epoch, the set of
mutations it contains and the outbox entries it still carries. One action is one
mailbox job, one request to the store, or one critical section; between two of them
other goroutines run. Each store request may succeed, be refused, or time out; in the
last case it goes to `late`. The mailbox's order guarantee (`Mailbox.Do` waits once a
job is admitted) is what makes a job one action, and `CancelRequest` may end a request
only where the code looks at its context.

Abstractions worth knowing: a maturity tick is a mutation like any other; idleness is a
free choice; `RequestNotOwner`, a fence mismatch and a stale copy all end the caller
with an error; a close is admitted when no request is running (the servers are stopped
before `Runtime.Close`). Mail, push and farm-view notifications do not touch the state
modelled here.

`PlayerRuntimeInv` adds the inductive invariant, `PlayerRuntimeProofs` the proofs
(the other components state their invariant in their own module),
and `MCPlayerRuntime`, like the other MC modules, the statements of the repository's
documents that the code does not keep (see Runs).

### ActorScheduler

The heap of maturity deadlines of one shard and the goroutine that serves it. A request
ends by rereading its Actor's next deadline in the mailbox (`RefreshRead`) and publishing
it outside (`Cancel`, or `Bump` and `Schedule`); the scheduler drops stale entries, pops
what is due, checks the generation and delivers a tick in the mailbox. Those are separate
actions, so two refreshes may publish in another order than they read. Growth is
abstracted to the set of maturity times of the growing plots. Entries of the heap that
are equal are one entry; a second pop of it would be refused by the same generation test.
`Evict` is one action because it runs under the shard's write lock, which excludes
requests and ticks. `overlapped` is history: a refresh of the Actor has begun while
another was under way; no guard reads it.

### FriendGift

`SEND_FRIEND_GIFT` of one sender: the first mailbox job checks the request and the stack
(`GiftFails`, `GiftSuspends`), the mail service's `CreateGiftMail` runs as three requests
(`Lookup`, `Claim`, `InsertMail`) while the job is suspended, and a continuation commits
the deduction (`Commit`, or `CommitElsewhere` when the Actor it belongs to has been
removed from memory meanwhile). Each request of the mail service may fail or be carried
out after its caller gave up (`LateClaim`, `LateInsert`), the mailbox may be full, the
caller's context may end, the Actor may be evicted and the Zone may crash. `Sell` and
`Harvest` stand for the other commands that change the same stack. The window of
`RecentResults` (100 results, 24 hours) is taken to outlast a client's retries.

### FarmPlot

One plot from `Plant` to `CleanPlot`, with fertilizer, pests, thefts and the growth
arithmetic of `growth.go`: `Rate`, `GrowthBetween` (piece by piece between the
`Boundaries` of the effects), `Settle`, `Estimate` and `Materialize` follow the code's
computation. The reference, `Grown(effects, a, b)`, does not: it counts the milliseconds from
`a` to `b`, and for each effect the crop was ever exposed to those at which it held
(`Exposure`). An effect is a start and an end; every fertilizer has the modifier
`FertilizerRate` and every pest `PestRate`. A request reads the clock (`ReadClock`)
and runs in the mailbox later, with the time it read. `Valid` is what
`ValidateCheckpoint` demands of a plot. `effects`, `gathered`, `latest` and `reordered`
are history. Rates are small integers in place of rates scaled by 10^6, times small
integers in place of milliseconds; inventory, coins and chapter progress are left out.

### FriendInteraction

A visitor's action on a friend's farm. `record` is the FriendInteraction table, `visitor`
and `owner` are the two Actors in memory and `visitorRow` and `ownerRow` their checkpoints.
A driver (a request, its retry or the Reconciler) loads the record and carries out the step
its status asks for: `ReserveStep`, `ApplyStep`, `CommitStep`, `FinishStep`, or
`ReleaseStep` after a refusal. A step at the visitor is settled, that is, written to the row
before it is answered (`Settle`, whose own correctness is PlayerRuntime's subject); one at
the owner is written back later (`FlushOwner`); and each new status is written by a
conditional update (`Persist`). Calls fail, replies are lost, a call whose caller gave up
may be carried out later (`LateCall`), and both Zones may crash. `ExecuteDirect`,
`AwaitOwner` and `SideEffect` are the path without a record. The Saga and its Reconciler are
complete in `internal/interaction`, but no process constructs `NewActionSaga` or
`NewReconciler`: the Zone's RPC uses the direct path. Both are modelled. `Reconcile` may
take up a record at any time and need never do so: `ReconcileDue` returns at the first error
and skips what it has no adapter for. The error of a career counter that overflows
(`steal_crop.go:361`) is left out.

The actions differ in what they reserve (room in a stack, or one chance) and in the
condition of the plot; `Room` stands for the first, `open` for the second.

### FriendLink

`FriendLinker` and its Reconciler: one Saga per share code and redeemer that reserves a
slot in both friend lists in a fixed order, inserts the relation or adopts the one that
another Saga inserted, turns reservations into entries, credits both players' task,
claims the first-friend reward and creates its two mails. One action is one row write of
another table or one conditional update of the Saga; a process may stop between any two.
FriendSvr does not run the Reconciler (`cmd/friend/main.go:142`), and the accepted behaviour
is "that the player retries adding the friend"
(`docs/archive/evidence/historical/2026-08-16-friend-saga-scan-disabled.md`); `Reconcile` is
kept as a driver that may or may not act. A player without an active account name, an error
at every retry (`link_saga.go:428`), is one of the bounded faults.

### RouteMap and RouteStore

`RouteMap` is what the Coordinator relies on: a map from shard to route that changes one
route at a time, by a legal change, and counts its changes. `RouteStore` is the Tcaplus
implementation: the intent in the metadata row, the route row, and the map version are
written by three conditional updates (`SetPending`, `WriteRow`, `FinalizeMeta`), and
whoever loads the store and finds an intent finishes it (`Recover`). Each replica holds
copies of what it read; `rec` is the record version a conditional update names. The
metadata and the routes are read one by one. A commit whose sender crashes or is cancelled
stops anywhere.

The store is empty at first, and every replica bootstraps before its election, again after a
restart (`Bootstrap`, `BootstrapRoute`, `BootstrapUpdate`, `BootstrapMeta`, then a load). The
candidate is made of the fence rows, so all replicas propose the same owners and epochs. A
bootstrap that found no metadata overwrites the routes it finds, with the record version it
has just read, and nothing stops it once another replica has finished and commits have
begun. `overwritten` is history, like `history`, the route map of every version: it becomes
TRUE when a bootstrap replaces a route that was committed, and no guard reads it.

`RouteStore` implements `RouteMap` (`Atomic`): the commit point is the intent. `Atomic`, `Inv`
and `LoadedIsCommitted` hold of every behaviour up to the step that sets `overwritten`, and
say nothing after it; that the step can occur is a finding (`NeverOverwritten` below), and
what the map is worth after it depends on which route was lost. The conditional updates of
this store name a version and leave `VersionPolicy` out, unlike the other stores; the model
takes them as conditional, as the repository's fake does (`testtcaplus/client.go:77`).

### ShardOwnership and ShardMigration

`ShardOwnership` says what the coordinator promises about one shard: the fence names the
only writer, requests are routed to nobody else, the fence moves only while nobody is
routed to, and always to a higher epoch.

`ShardMigration` is the coordinator's work on one shard.

| Variable | Code |
|---|---|
| `route`, `fence`, `task`, `prog` | the committed ShardRoute, ShardFence, MigrationTask and MigrationProgress rows |
| `trs` | transition IDs drawn so far, in place of random UUIDs |
| `cur`, `open`, `indexed` | a replica's `Current`, its index of open tasks and whether it was built |
| `lead`, `holder` | what the replica runs, and the Kubernetes lease |
| `worker` | the replica's execution: where it is and the copies it works with |
| `view`, `marker` | a Zone's authorization entry and its drain marker |

`Propose`, `Move` and `CancelStale` are the planner and the move request, `Claim` and
`Begin` to `CompleteTask`, `FailTask` and `RetryTask` the worker, `BecomeLeader`,
`SchedulerStops`, `StepDown`, `Crash` and `Restart` the life of a replica with the checks of
its startup (`StartupAccepts`), `Refresh` and `RestartZone` that of a Zone. Each executor step
is split into its effect (a call to a Zone, a commit, the fence) and the progress write that
records it, with the reads in between. A commit may go through and its attempt end all the
same: the call fails after the intent, or `applyAndPublish` finds a newer `Current`; and it
may be refused although the route is the expected one, because another shard's commit has
moved the one map version (`RouteConflict`).

Abstractions: one shard, since tasks, progress and fences are per shard, and a commit of
its route is one step, which `RouteStore` justifies for safety. The comparison of manifests
in `Advance` and `Complete` is left out. The attempt counter and the delay
between attempts are dropped. `epochHighWater` differs from the epoch only after an
abandon, which is not modelled. A Zone's view refreshes from the committed route; the
expiry of a Zone's lease is left out. The index of tasks is built when a replica first
leads, and a replica's worker has ended before it leads again. Which Zones are healthy is
a free choice of the planner. What drain and prepare do to the checkpoints is in
PlayerRuntime.

## Runs

| Run | Instance | Checks |
|---|---|---|
| `failover` | 2 Zones, 1 player, one Saga step, 2 epochs, 1 fault | `AckedDurable`, `RowExtends`: an answered Saga step survives an ownership change, a crash and a late write |
| `store_faults` | 1 Zone, a Saga step and an outbox command, 2 faults, 1 stop | `OutboxFollowsCheckpoint`, `DirtyTracked`, `RemovalLosesNothing` |
| `migration` | 2 Zones, an outbox command, 2 epochs, 2 stops (a drain and a prepare) | `Inv`, `OutboxFollowsCheckpoint` |
| `writeback` | 1 Zone, 2 concurrent requests, no faults, fair | `EventuallyDurable`: every mutation of a resident Actor reaches its row |
| `maturity` | 1 Actor, 2 request goroutines and the scheduler, 3 commands, 1 eviction, clock to 3, fair | `Inv`, `DeadlineCovered`, `MaturesUnlessOverlapped` |
| `gift_await` | 1 gift sent by 2 goroutines (a retry), 2 crops and 1 harvest, 2 faults, fair | `Inv`, `OneMail`, `ChargedIsClaimed`, `ChargedOnce`, `AwaitEnds` |
| `plot_growth` | 2 goroutines, 2 visitors, clock to 5, a crop that ripens in 2 to 4 | `Inv`, `GrowthExact`, `SavableInOrder`, `YieldShared` |
| `interaction` | 2 Saga steals for 1 free place, 1 request goroutine and the Reconciler, 1 harvest, 1 fault | `Inv`, `OneEffectEach`, `CreditedWasApplied`, `OutcomeAgrees`, `ReservationsFit`, `AppliedCanCommit` |
| `interaction_ends` | 1 Saga and 1 direct steal, 1 fault, fair | `CreditedWasApplied` on both paths, `RetriedEnds` |
| `friend_link` | 2 codes between the same pair, lists of 1, 1 request goroutine and the Reconciler, 1 fault, fair | `Inv`, `WithinLimit`, `FriendsAreMutual`, `CreditedOnce`, `RewardedOnce`, `RetriedLinkEnds` |
| `route_store` | 2 shards, 2 Zones, 2 replicas that both bootstrap, 2 commits, 1 fault | `Inv`, `LoadedIsCommitted`, `Atomic` (refinement of RouteMap) |
| `shard_migration` | 2 replicas, 2 Zones, 1 task, 1 fault | `Inv`, `Owned` (refinement of ShardOwnership) |

Bounds. PlayerRuntime: `MaxEpoch` counts ownership changes, `MaxFaults` timeouts, store
errors, crashes and cancelled requests, `MaxStops` closes, evictions, drains and
prepares. Two Zones and two epochs give an old and a new owner, one or two faults give a
write that timed out and the crash or retry that meets it. ActorScheduler: `MaxCommands`
3 gives two overlapping requests and one after an eviction. FriendGift: `MaxFaults` 2
gives a lost call and the crash or timeout that meets the retry. FarmPlot: `MaxTime` 5
with effects that last 2 lets effects begin, overlap and run out, be removed, and the crop
ripen, be stolen from and be harvested. FriendInteraction and FriendLink: two drivers of
the same record and one fault give a lost reply, a late call or a crash next to a
concurrent retry; two Sagas for one place, or two codes of one pair, give contention.
RouteStore: `MaxVersion` 3 gives a commit that follows another on the same shard or on the
other one, while a replica still holds copies of the first or is still bootstrapping, and
`MaxRecord` 4, a constraint on the record versions of routes, ends the bootstraps that fail
on each other's updates for ever. ShardMigration: one fault
is a crash of the leader at any step, a failed call, or a lease that expires under a
living leader, which gives two leaders, or a scheduler that stops; both properties were
also checked, outside the listed runs, for two tasks and for two faults.
Symmetry (Zones, replicas, workers, visitors, interactions) is used in runs without a liveness
property only. Deadlock is not checked where a history in which all clients are done and
all bounds are used up has no next step; `route_store`, in which replicas can always load,
checks it.

Fairness. PlayerRuntime: started goroutines are scheduled (requests, activation, saves,
the holder of the write lock), the flusher's ticker keeps firing, and a closing process
finishes. Nothing is assumed of clients, the coordinator, the relay, faults, or requests
that were given up. `writeback` has one player: with several, the pass ends at the
first error, and whether another player is visited before depends on Go's random map
order, which weak fairness does not express. ActorScheduler: the scheduler goroutine, whose
timer fires, and the requests that are refreshing a deadline. FriendGift: the goroutines,
and an answer of the mail service, which the three-second deadline of the call turns into
an error if it does not come. FriendInteraction and FriendLink: a driver that has begun goes
on to its next step or its error. Nothing is assumed of the Reconcilers, which no process
starts; what brings an interrupted Saga to its end is the client's retry. `RetriedEnds` and
`RetriedLinkEnds` say so: if the request for an interaction, or for a code, is made again and
again, its record becomes terminal. They are about what the code does with whatever record
it finds, and would fail if some status, reservation or row could not be resumed from. With
no retry a Saga whose driver stopped stays as it is.

RouteStore and ShardMigration have no fairness and no liveness property. That a withdrawn
shard is routed again is not stated, because the code does not promise it: an error of `Claim`
or `LoadOpen` ends `Scheduler.Run` for the rest of the term while the replica keeps the lease
(`scheduler.go:68-70`, `:96-101`, `migration_wiring.go:137-141`); a commit that stops after its
intent may be reported as corruption by every later load (`InterruptedIsRecoverable`); the
target may refuse the manifest at every retry (`PrepareAcceptsManifest`); a deposed leader or
the planner may take an open migration's task away; and with the one replica of
`deploy/k8s/coordinator.yaml` a crash between the fence and its record refuses every restart.

### Statements of the repository that the code does not keep

Each of these definitions states a sentence of the documents, a comment or a test, and TLC
finds a counterexample when it is checked. They have no listed run. Where a configuration
file is named, `tlc -config <file> <MC module>` shows the trace; elsewhere the definition
takes the place of the properties of the run named.

| Definition | Check | Statement | What happens |
|---|---|---|---|
| `CloseFlushesDirty` | `RuntimeClose.cfg` | ADR-0006:42 "正常停机、Actor 回收和可控迁移必须刷完 Dirty" | `markDirty` after the mailbox job can mark a revision that a flush has saved meanwhile. The entry cannot be saved any more, and it ends the flush pass in which the other players were to be saved (`runtime.go:916`, `:1356`) |
| `PrepareAcceptsManifest` | `RuntimePrepare.cfg` | `runtime.go:1262` "PrepareShardForMigration validates the old Owner's durable manifest" | if the relay has delivered an outbox entry of the row, `Load` returns a state one revision ahead and the comparison fails, at every retry (`runtime.go:1302`) |
| `EventuallyDurable` with faults | `RuntimeRetry.cfg` | ADR-0006:69 "DB 故障时 Dirty 不被误清除，并触发重试" | the row was written, an outbox insert failed, and a command ran before the retry: all later saves are stale copies |
| `GiftsSerialized` | `GiftSerial.cfg` | `websocket-protocol.md:450`, `:454`: commands are serialized and recheck their preconditions | a sale during the suspension is undone: the continuation writes back the stack size read before it (`gift.go:174`) |
| `Savable` | `PlotClock.cfg` | business architecture:230 "effective_now = max(server_now, last_settled_at)" | a fertilizer request that read the clock before a plant request runs after it; its effect starts before the planting, and `ValidateCheckpoint` refuses the player's checkpoint (`fertilizer.go:93`) |
| `ClaimedIsMailed` | `FriendReward.cfg` | `link_saga.go:155` "a crash or CAS conflict can resume from the last committed step" | a Saga that stops between the reward row and its own update is resumed as "not first" and skips both mails (`link_saga.go:529`) |
| `InterruptedIsRecoverable` | `RouteRecovery.cfg` | plan 07/02:349 "reconstruct the complete target route from Meta, CAS the route, then finalize Meta" | `recoverPending` accepts an old route only if it was the last one committed; for any other shard an intent without its row is reported as corruption, and after a crash there no replica can load the routes (`tcaplus.go:228`) |
| `NeverOverwritten` | `RouteOverwrite.cfg` | `docs/evidence/2026-08-12-durable-current-shard-route.md:25-27` "repeat and concurrent bootstrap load the winner without overwriting Current"; `TestTcaplusStoreConcurrentBootstrapLoadsWinner` (`tcaplus_test.go:17`) | a replica finds the store empty and is slow; another bootstraps, leads and commits; the slow one reads the committed route's record version and replaces the route (`tcaplus.go:93`) |
| `FenceRejectsOldEpoch` | `failover` | ADR-0008 | the fence is read in one request and the row updated in another; `RowExtends` shows that this loses no data |
| `ManifestDurable` | `store_faults`, 2 stops, only the outbox command | `DrainShardForMigration` | after a failed final flush the old row, repaired by `Load`, equals the snapshot that was not written |
| `MaturesInTime` | `maturity` | architecture document | two overlapping refreshes publish in reverse order; the plot matures at the next request only |
| `AppliedIsMarked` | `gift_await` | ADR-0006 | the caller's context ends during the suspension; the commit is never marked dirty |
| `ChargedIsMailed` | `gift_await` | `mail.proto` | the dedup row was written and the mail was not; the retry is answered as applied and charged |
| `PestEnds` | `plot_growth` | architecture document | a pest that has run out occupies its slot until something settles the plot |
| `AbortedNotApplied` | `interaction` | comment in `saga.go`: a refusal comes "without mutating" | two drivers apply the same interaction; the visit ends between the two, the second is refused and aborts what the first has applied |
| `AbortedHoldsNothing` | `interaction` | `AbortedError`: "the visitor holds no live reservation" | the release fails, its error is ignored, and the record becomes ABORTED |
| `CreditedIsKept` | `interaction` | `ApplyStealOnOwner` "durably (synchronous SaveCAS) appends" a receipt | the owner's receipt is only written back later; its Zone crashes after the visitor was credited, and the crop is back on the plot |
| `EndedHoldsNothing` | `friend_link` with `Links = {ab, cb}` | `link_saga.go:17`: the Reconciler releases a slot "back to the pool" | `releaseBothSides` ignores errors: the Saga ends ABORTED and its slot stays reserved |

What was seen while modelling ShardMigration:

1. A replica that leads for the second time does not build its index of tasks again
   (`tcaplus_task_store.go:82`), although the election plan (08, lines 115-116) has a new
   leader reload; tasks of the leader in between stay unknown to it until it restarts.
2. The drain marker of the source is not cleared by a successful move (`lifecycle.go:68`,
   comment at 77-80), so a shard that comes back to a Zone cannot be drained there under
   another transition until that Zone restarts.
3. If the leader dies between `AdvanceFence` and the write of FENCE_ADVANCED and the other
   replica is down, `validateCurrentFences` (`route_store_wiring.go:60-95`) refuses every
   restart: the shard stays PREPARING.
4. A deposed leader's `UpsertProgress` is not conditional and may set an open progress back
   or insert a finished one again (ADR-0012 §10). `Owned` holds all the same.
5. The planner may cancel or supersede a PLANNED task whose progress is open, after which
   its worker meets `ErrProgressConflict` (comment at `planner.go:165-167`).
6. A commit of another shard between the executor's load and its commit moves the one map
   version, and the attempt fails for good with `ErrRouteConflict` (`executor.go:253`): the
   task is cancelled while its progress stays open, until the next leader recovers it.

## Proofs

Each component with a proof states its inductive invariant as `Inv`, a conjunction of named
parts; a run checks `Inv` on a small instance and a theorem proves it for every value of the
constants. The other safety theorems follow from `Inv`.

| Module | Theorems | Assumptions |
|---|---|---|
| `PlayerRuntimeProofs` | `InvTheorem`, `DurableInvTheorem`, `TypeTheorem`, `AckedDurableTheorem`, `RowExtendsTheorem`, `OutboxFollowsCheckpointTheorem`, `DirtyTrackedTheorem`, `RemovalLosesNothingTheorem` | `RuntimeAssumption` |
| `RouteStoreProofs` | `InvTheorem`, `LoadedIsCommittedTheorem`, `AtomicTheorem` | `ConstantsOK` |
| `ShardMigrationProofs` | `InvTheorem`, `OwnedTheorem` | `MigrationAssumption` |
| `FriendGiftProofs` | `InvTheorem`, `OneMailTheorem`, `ChargedIsClaimedTheorem`, `ChargedOnceTheorem` | `GiftAssumption` |
| `FriendLinkProofs` | `InvTheorem`, `WithinLimitTheorem`, `FriendsAreMutualTheorem`, `CreditedOnceTheorem`, `RewardedOnceTheorem` | `LinkAssumption` |
| `FriendInteractionProofs` | `InvTheorem`, `OneEffectEachTheorem`, `CreditedWasAppliedTheorem`, `OutcomeAgreesTheorem`, `ReservationsFitTheorem`, `AppliedCanCommitTheorem` | `InteractionAssumption` |
| `ActorSchedulerProofs` | `InvTheorem`, `DeadlineCoveredTheorem` | `SchedulerAssumption` |
| `FarmPlotProofs` | `InvTheorem`, `GrowthExactTheorem`, `SavableInOrderTheorem`, `YieldSharedTheorem`, `GrowthBetweenIsGrown`, `EstimateIsFirst` | `PlotAssumption` |

The assumptions say which constants are numbers, which sets are disjoint and that names are
distinct. Four say more: `CodeOwner[l] # Redeemer[l]`, which the code
checks (`ErrCannotFriendSelf`); that all recorded interactions draw on one pool (a stack's
room or the chances), since one pool is modelled; `Players # {}` for the scheduler, whose
idle task names some player; and `BaseRate + PestRate > 0`, that a pest slows growth and does
not stop it. The configuration is checked for `PestRate < 0` only; under a pest that stops
growth `effectiveRateScaled6` returns an error and the plot's requests fail.

### PlayerRuntime

The invariant has three parts, and the proof a section for each; the later ones use the
earlier.

`DurableInv` is behind `AckedDurable` (a Saga step that was answered as done stays in the
row) and `RowExtends` (no write drops what an earlier one saved). `AckedDurable` is not
inductive: that an answered step is in the row depends on what the Actor believes to be
persisted, which depends on what a save in flight has observed, which depends on requests
that may still land:

- `RowOK`: an absent row has no content;
- `ActorOK`: a resident Actor's state extends the row if its token is the row's, its
  persisted revision is not ahead of its state, and a Saga step it holds whose marker is
  not above the persisted revision is in the row;
- `SnapOK`, `WrittenOK`, `SaveOK`: the same for the snapshot of a save in progress and,
  once the row has been written, for the row's new token;
- `SettleOK`: a step between its execution and its answer is in the Actor's state, with a
  marker not above the revision the settlement waits for;
- `LateOK`: a request that was given up extends the row if it still matches it;
- `LockOK`: readers and the holder of the write lock exclude each other;
- `TaskOK`, `ShapeOK`: which fields a goroutine uses at which step.

The key is `Extends`: whoever holds the row's current version token holds a content that
contains everything in the row.

`OutboxInv` is behind `OutboxFollowsCheckpoint`: every copy of a checkpoint, in the row, in
an Actor, in a snapshot or in a request that may still land, still has pending, or has had
delivered, the events of the mutations it contains (`OwesEvents`). Otherwise a late write of
an old copy could drop an event.

`WriteBackInv` is behind `DirtyTracked` and `RemovalLosesNothing`. `DirtyOK`: what only the
Actor knows is noted, and what a save in progress does not contain is noted with a revision
above the snapshot's (`Noted`: in the dirty map, or by a goroutine that is about to put it
there), so the acknowledgement, which clears the entry up to the snapshot's revision, clears
nothing that is still needed. `RevisionsTell`: an Actor whose revision is the persisted one
has nothing the row has not. `SavesTheLast` and `DrainedIsSaved`: the holder of the write
lock saves the last revision, and a drain has saved every Actor it is done with.

### The route store and shard migration

`RouteStoreProofs` proves, under `ConstantsOK` only and with any number of replicas that
bootstrap at once:

- `InvTheorem`: `Spec => []Inv`;
- `LoadedIsCommittedTheorem`: every snapshot a replica applies is the map of one version,
  unless a late bootstrap has replaced a committed route;
- `AtomicTheorem`: `Spec => Atomic`: until that step every step is one of RouteMap or a
  stutter.

`Inv` is needed because each conditional update is safe for a reason that lies in the past
of another replica: equal record versions mean equal records (`MetaCopy`); a call that is
about to write an intent has read the route of this very map (`ReadyToIntend`); one that
recovers a commit that is over finds the route too new (`ReadyToRecover`); one that may
still write a route writes the pending one (`ReadyToWrite`); one that may raise the version
has seen the route written (`ReadyToFinalize`). `BootFirst` says that nothing but bootstraps goes on
before the metadata exists, and that a route of version 1 is the candidate's, so that a
bootstrap that overwrites it changes its record version and nothing else: that is why two
bootstraps are harmless until a commit. `RowsBehindMap`, `HistoryKept` and `ReadsKept` then
give `LoadedIsCommitted` although routes are read one by one.

`ShardMigrationProofs` proves, under `MigrationAssumption` only:

- `InvTheorem`: `Spec => []Inv`;
- `OwnedTheorem`: `Spec => Ownership!Spec`, the refinement of ShardOwnership.

`Inv` says that every copy of a progress row (the stored one and those of all workers,
deposed leaders' included) is backed by the route and the fence as far as its step claims
(`ProgressBacked`, with `Reached` and `Backs`), that the fence is never ahead of the route
(`FenceAgrees`), and that a transition ID stands for one source, target and epoch wherever
it occurs (`OneEpoch`). In the refinement the commit of PREPARING is `Withdraw`, the move of
the fence is `Move`, the commit of ACTIVE is `Grant`, and every other step stutters; the
second leader's repetition of a step is a stutter because of `Inv`.

### FriendGift

`OneMail` needs to know who may still insert a mail: a goroutine, or a request that was
given up, that has won the claim of the dedup row, and only one ever does (`InsertRights`).
`ChargedIsClaimed` needs the same of drafts that wait for their commit (`DraftsPayable`).
`ChargedOnce` is a balance: crops in the stack, sold and charged for add up to what was
there and harvested, in memory and in the row (`Balanced`; a crash goes back to the row).
The balance holds until another command changes the stack during a suspension
(`overlapped`), which is what the code does not guard against. What was charged for is a sum
over the gifts given, and the first section of the proofs shows that an element may be taken
out of such a sum first. Each induction there is an argument about the least counterexample,
because the provers cannot instantiate the library's induction rules.

### FriendLink

`Backed` says what the Saga's record claims of lists, relations and entries; `TablesAgree`
that two players have one relation and that entries and receipts belong to it. Every
goroutine works with a copy of the record that may be outdated when it acts on other rows,
and no conditional update protects those: `CopyOK` says that even then what it is about to
do agrees with what the Saga has become, because a Saga that has both slots never releases
them and one that releases never takes them (`Succeeds`).

### FriendInteraction

`Backed` is what a status claims of the two Actors: a reservation is in the visitor's row
before the record relies on it, the owner has applied what is recorded as applied, and the
visitor's receipt is in the row before VISITOR_COMMITTED. It speaks of the row, not of
memory, so that it survives crashes; `Later` relates the two. `Explained` is the converse:
receipts and released reservations at the visitor are accounted for by the record, also
while the driver that will write it is under way. `DriverOK` and `LateOK` extend both to
drivers with an outdated record and to calls whose caller has given up.

### ActorScheduler

`LookedAfter`: an Actor with a growing plot has an entry in the heap that counts, or the
scheduler has popped it, or a tick or a read is coming, or a task is between its read and its
publication. `OneWindow`: without an overlap there is at most one such task, its generation
is current, and what it publishes is right or will be read again. `AbsentIsIdle` says that
nobody reads from an Actor that has been removed.

### FarmPlot

Two theorems are about the arithmetic alone. `GrowthBetweenIsGrown`: the piecewise loop
computes the reference sum, for any effects and any interval (an argument about the last
start of a piece at which the two differ; no effect begins or ends inside a piece, so its
exposure is a product of cardinalities). `EstimateIsFirst`: the last boundary before maturity
exists, no boundary lies between it and the estimate, and rounding up there gives the first
millisecond, because the rate is positive (`RatePositive`).

`Inv` adds to the types:

- `Fields`: which fields the record uses in which state, with at most one effect per slot;
- `Thefts`: what the plot counts as stolen is what visitors have taken from this crop, within
  the protected yield, and from it `YieldShared`; neither depends on the jobs' order;
- `Exact`, while jobs have run in the order of their times: a growing plot's settled value is
  the reference sum up to `last` over the whole history of effects, and its estimate the first
  millisecond at which that sum reaches maturity (`GrowingExact`); a mature plot's sum has
  reached it (`MatureExact`).

`GrowthExact` by itself is not inductive, since the code computes with the slots and the
property speaks of the history. `EffectsKept` connects them: the slots hold just the effects
of the history that have not run out at `last`, all began by then, and a pest began only
after the ones before it had ended. So from `last` on the slots and the history give the same
growth (`SlotsAreFuture`), an effect that begins at `last` changes nothing before
(`BeginsLater`), and a caught pest, cut off at `last`, still counts as it did
(`CaughtCounts`). Every change of effects must therefore settle first, which is what
`SettledFirst` says and what the mutant of `GrowthExact` leaves out. `SavableInOrder` follows
from `Inv`: the estimate lies after `last`, and every effect in a slot began between
planting and `last`.

### Only model-checked

`EventuallyDurable`, `MaturesUnlessOverlapped`, `AwaitEnds`, `RetriedEnds` and
`RetriedLinkEnds` are liveness properties, which are out of the prover's reach. Every
invariant, action property and refinement that a passing run checks has a theorem.

## Plan

Done: `PlayerRuntime`, the core, since every other component's promise ends in a
checkpoint; `ActorScheduler` and `FriendGift`, the two parts of the runtime that carry a
value out of the mailbox and use it later; `FarmPlot`; the two Sagas; the route store and
shard migration with their abstract specifications.

Left:

1. Outbox relay and mail claim: leases, at-least-once delivery, two-record updates.
2. Farm visits, connection registry, route cache, authentication; abandon of a migration.

## Not modelled

Encoding of records and messages, configuration loading, logging, metrics, the web
client, benchmarks and the test runner. The store-less development runtime
(`NewRuntime`) keeps nothing durable and is left out. Revision exhaustion at 2^64 is
guarded in the code and not reached by any bound. Of the coordinator: the operator's
abandon request, `ReinitializeBootstrap`, membership probing, the publisher's
subscriptions, the MySQL path, and a store error at the start of a term, which leaves a
leader without a worker until its term ends. Shop, pets and chapters change one Actor in
one mailbox job, which PlayerRuntime has as one mutation.

More than 40 % of the repository's Go is generated protocol code or load generation and
test tooling, and much of the rest is encoding, wiring and request validation. The models
cover the code that decides, stores and recovers.
