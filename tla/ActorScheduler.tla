--------------------------- MODULE ActorScheduler ---------------------------
(***************************************************************************)
(* The maturity deadlines of the Actors of one shard: every request ends   *)
(* by rereading the Actor's next deadline in the mailbox and publishing it *)
(* to a heap shared by all Actors, outside the mailbox; one goroutine pops *)
(* what is due and delivers a tick.  Generations tell which heap entry of  *)
(* an Actor counts.                                                        *)
(***************************************************************************)
EXTENDS Integers, FiniteSets, FiniteSetsExt

CONSTANTS
    Players,
    Workers,      \* concurrent request goroutines
    GrowTimes,    \* times a planted crop may take
    MaxTime,      \* bound: clock
    MaxCommands,  \* bound: requests
    MaxEvicts     \* bound: eviction attempts

ASSUME SchedulerAssumption ==
    /\ Players # {}
    /\ "scheduler" \notin Workers
    /\ GrowTimes \subseteq Nat \ {0}
    /\ {MaxTime, MaxCommands, MaxEvicts} \subseteq Nat

VARIABLES
    now,
    resident,    \* the Actor is in Runtime.actors and Ready
    growing,     \* EstimatedMatureAtMS of the player's GROWING plots
    gen,         \* runtimeActor.tickGeneration
    heap,        \* actorDeadlineBook.heap
    latest,      \* actorDeadlineBook.latest (0: no entry)
    task,        \* requests and the scheduler goroutine
    overlapped,  \* history: a refresh began while another was under way
    commands, evicts

vars == <<now, resident, growing, gen, heap, latest, task, overlapped,
          commands, evicts>>

Threads == Workers \cup {"scheduler"}
Times == 0..MaxTime

Entries == [p : Players, at : Times, gen : Nat]

PCs == {"idle", "check", "tick", "read", "cancel", "bump", "schedule"}
Tasks == [pc : PCs, p : Players, at : Times, gen : Nat]

TypeOK ==
    /\ now \in Times
    /\ resident \in [Players -> BOOLEAN]
    /\ growing \in [Players -> SUBSET Times]
    /\ gen \in [Players -> Nat]
    /\ heap \subseteq Entries
    /\ latest \in [Players -> Nat]
    /\ task \in [Threads -> Tasks]
    /\ overlapped \in [Players -> BOOLEAN]
    /\ commands \in 0..MaxCommands
    /\ evicts \in 0..MaxEvicts

----------------------------------------------------------------------------
(* Helpers.                                                                *)

\* materializeDueMaturities: what is due stops growing.
Settled(p) == {d \in growing[p] : d > now}

\* The deadline rounded up past the plot's own time.
NextTickAfter(S) == Min(S) + 1

\* nextTickAt of a non-empty set of growing plots.
NextTickAt(S) == Min(S)

IdleTask == [pc |-> "idle", p |-> CHOOSE p \in Players : TRUE, at |-> 0,
             gen |-> 0]
Goto(k, pc) ==
    task' = [task EXCEPT ![k] =
                IF pc = "idle" THEN IdleTask ELSE [@ EXCEPT !.pc = pc]]

\* A deadline was read and is not published yet.
InWindow(k, p) ==
    task[k].p = p /\ task[k].pc \in {"cancel", "bump", "schedule"}

\* Holders of the shard's read lock; the scheduler takes it after popDue.
Locked == \E k \in Threads : task[k].pc \notin {"idle", "check"}

Tops == {e \in heap : \A f \in heap : e.at <= f.at}
Current(e) == latest[e.p] = e.gen

----------------------------------------------------------------------------
(* Requests.                                                               *)

\* The mailbox job of a command: settle, then leave the plots alone, or
\* plant, or change the rate of growth and so one deadline.
Command(k, p) ==
    /\ task[k].pc = "idle"
    /\ resident[p]
    /\ commands < MaxCommands
    /\ commands' = commands + 1
    /\ LET S == Settled(p)
           New == {now + g : g \in GrowTimes} \cap Times
       IN \/ growing' = [growing EXCEPT ![p] = S]
          \/ \E d \in New : growing' = [growing EXCEPT ![p] = S \cup {d}]
          \/ \E d \in New, old \in S :
                growing' = [growing EXCEPT ![p] = (S \ {old}) \cup {d}]
    /\ task' = [task EXCEPT ![k].pc = "read", ![k].p = p]
    /\ UNCHANGED <<now, resident, gen, heap, latest, overlapped, evicts>>

\* refreshActorDeadline: read in the mailbox ...
RefreshRead(k) ==
    LET p == task[k].p IN
    /\ task[k].pc = "read"
    /\ overlapped' = [overlapped EXCEPT ![p] =
                         \E j \in Threads \ {k} : InWindow(j, p)]
    /\ IF growing[p] = {} THEN Goto(k, "cancel")
       ELSE task' = [task EXCEPT ![k].pc = "bump",
                                 ![k].at = NextTickAt(growing[p])]
    /\ UNCHANGED <<now, resident, growing, gen, heap, latest, commands, evicts>>

\* ... and publish: remove the player's entry ...
Cancel(k) ==
    /\ task[k].pc = "cancel"
    /\ latest' = [latest EXCEPT ![task[k].p] = 0]
    /\ Goto(k, "idle")
    /\ UNCHANGED <<now, resident, growing, gen, heap, overlapped, commands,
                   evicts>>

\* ... or take a new generation and push it.
Bump(k) ==
    LET p == task[k].p IN
    /\ task[k].pc = "bump"
    /\ gen' = [gen EXCEPT ![p] = @ + 1]
    /\ task' = [task EXCEPT ![k].pc = "schedule", ![k].gen = gen[p] + 1]
    /\ UNCHANGED <<now, resident, growing, heap, latest, overlapped, commands,
                   evicts>>

Schedule(k) ==
    LET t == task[k] IN
    /\ t.pc = "schedule"
    /\ latest' = [latest EXCEPT ![t.p] = t.gen]
    /\ heap' = heap \cup {[p |-> t.p, at |-> t.at, gen |-> t.gen]}
    /\ Goto(k, "idle")
    /\ UNCHANGED <<now, resident, growing, gen, overlapped, commands, evicts>>

----------------------------------------------------------------------------
(* The scheduler goroutine.                                                *)

\* peek and popDue drop entries that do not count any more from the top.
DropStale ==
    /\ task["scheduler"].pc = "idle"
    /\ \E e \in Tops : ~Current(e) /\ heap' = heap \ {e}
    /\ UNCHANGED <<now, resident, growing, gen, latest, task, overlapped,
                   commands, evicts>>

PopDue ==
    /\ task["scheduler"].pc = "idle"
    /\ \E e \in Tops :
          /\ Current(e)
          /\ e.at <= now
          /\ heap' = heap \ {e}
          /\ task' = [task EXCEPT !["scheduler"] =
                         [pc |-> "check", p |-> e.p, at |-> e.at,
                          gen |-> e.gen]]
    /\ UNCHANGED <<now, resident, growing, gen, latest, overlapped, commands,
                   evicts>>

\* A tick that does not look at the Actor first.
DeliverAny ==
    LET t == task["scheduler"] IN
    /\ t.pc = "check"
    /\ Goto("scheduler", "tick")
    /\ UNCHANGED <<now, resident, growing, gen, heap, latest, overlapped,
                   commands, evicts>>

\* deliverActorTick: an Actor that is gone, or has taken another generation,
\* is left alone.
DeliverCheck ==
    LET t == task["scheduler"] IN
    /\ t.pc = "check"
    /\ Goto("scheduler",
            IF resident[t.p] /\ gen[t.p] = t.gen THEN "tick" ELSE "idle")
    /\ UNCHANGED <<now, resident, growing, gen, heap, latest, overlapped,
                   commands, evicts>>

\* A tick that is not followed by a refresh.
TickEnds == Goto("scheduler", "idle")

AfterTick == Goto("scheduler", "read")

\* The mailbox job looks at the generation again; a refresh follows in any case
\* but an error, which here is left out: a removed Actor, whose mailbox is closed,
\* is met before, and a settlement fails only under a rate that is not positive.
DeliverTick ==
    LET t == task["scheduler"] IN
    /\ t.pc = "tick"
    /\ growing' = IF gen[t.p] = t.gen
                  THEN [growing EXCEPT ![t.p] = Settled(t.p)] ELSE growing
    /\ AfterTick
    /\ UNCHANGED <<now, resident, gen, heap, latest, overlapped, commands,
                   evicts>>

----------------------------------------------------------------------------
(* Activation and eviction.                                                *)

\* A new incarnation starts with generation 0, and publishes its deadline
\* from inside the activation job.
Activate(p) ==
    LET S == Settled(p) IN
    /\ ~resident[p]
    /\ resident' = [resident EXCEPT ![p] = TRUE]
    /\ growing' = [growing EXCEPT ![p] = S]
    /\ IF S = {}
       THEN /\ gen' = [gen EXCEPT ![p] = 0]
            /\ latest' = [latest EXCEPT ![p] = 0]
            /\ UNCHANGED heap
       ELSE /\ gen' = [gen EXCEPT ![p] = 1]
            /\ latest' = [latest EXCEPT ![p] = 1]
            /\ heap' = heap \cup {[p |-> p, at |-> NextTickAt(S), gen |-> 1]}
    /\ overlapped' = [overlapped EXCEPT ![p] = FALSE]
    /\ UNCHANGED <<now, task, commands, evicts>>

\* evictIdleActor under the write lock: the Actor settles, is saved and
\* removed with its deadline ...
Evict(p) ==
    /\ resident[p]
    /\ ~Locked
    /\ evicts < MaxEvicts
    /\ evicts' = evicts + 1
    /\ growing' = [growing EXCEPT ![p] = Settled(p)]
    /\ latest' = [latest EXCEPT ![p] = 0]
    /\ resident' = [resident EXCEPT ![p] = FALSE]
    /\ UNCHANGED <<now, gen, heap, task, overlapped, commands>>

\* ... or could not be saved: it stays, and its deadline is refreshed.
EvictKept(p) ==
    LET S == Settled(p) IN
    /\ resident[p]
    /\ ~Locked
    /\ evicts < MaxEvicts
    /\ evicts' = evicts + 1
    /\ growing' = [growing EXCEPT ![p] = S]
    /\ IF S = {}
       THEN latest' = [latest EXCEPT ![p] = 0] /\ UNCHANGED <<gen, heap>>
       ELSE /\ gen' = [gen EXCEPT ![p] = @ + 1]
            /\ latest' = [latest EXCEPT ![p] = gen[p] + 1]
            /\ heap' = heap \cup {[p |-> p, at |-> NextTickAt(S),
                                   gen |-> gen[p] + 1]}
    /\ overlapped' = [overlapped EXCEPT ![p] = FALSE]
    /\ UNCHANGED <<now, resident, task, commands>>

Advance ==
    /\ now < MaxTime
    /\ now' = now + 1
    /\ UNCHANGED <<resident, growing, gen, heap, latest, task, overlapped,
                   commands, evicts>>

----------------------------------------------------------------------------
Init ==
    /\ now = 0
    /\ resident = [p \in Players |-> FALSE]
    /\ growing = [p \in Players |-> {}]
    /\ gen = [p \in Players |-> 0]
    /\ heap = {}
    /\ latest = [p \in Players |-> 0]
    /\ task = [k \in Threads |-> IdleTask]
    /\ overlapped = [p \in Players |-> FALSE]
    /\ commands = 0
    /\ evicts = 0

RefreshStep(k) == RefreshRead(k) \/ Cancel(k) \/ Bump(k) \/ Schedule(k)
SchedulerStep ==
    \/ DropStale \/ PopDue \/ DeliverCheck \/ DeliverTick
    \/ RefreshStep("scheduler")

Next ==
    \/ Advance
    \/ SchedulerStep
    \/ \E k \in Workers : RefreshStep(k) \/ \E p \in Players : Command(k, p)
    \/ \E p \in Players : Activate(p) \/ Evict(p) \/ EvictKept(p)

Spec == Init /\ [][Next]_vars

\* Requests under way and the scheduler goroutine are scheduled, and its
\* timer fires.  Clients and eviction need not act.
FairSpec ==
    /\ Spec
    /\ WF_vars(SchedulerStep)
    /\ \A k \in Workers : WF_vars(RefreshStep(k))

----------------------------------------------------------------------------
(* Properties.                                                             *)

Quiescent(p) == \A k \in Threads : task[k].pc = "idle" \/ task[k].p # p

\* refreshActorDeadline does its job when refreshes of one Actor do not
\* overlap: between requests, an Actor with a growing plot has a heap entry
\* that counts, that deliverActorTick will accept, and that is not too late,
\* in spite of generations that restart with every incarnation.
DeadlineCovered ==
    \A p \in Players :
        resident[p] /\ growing[p] # {} /\ Quiescent(p) /\ ~overlapped[p] =>
            \E e \in heap : /\ e.p = p
                            /\ Current(e)
                            /\ e.gen = gen[p]
                            /\ e.at <= NextTickAt(growing[p])

-----------------------------------------------------------------------------
(***************************************************************************)
(* The inductive invariant.  Obligations are handed on: from the entry in   *)
(* the heap to the popped entry, to the tick, to the read that follows it,  *)
(* to the publication and back to the heap.                                *)
(***************************************************************************)

\* The deadline will be read, or read again, before the task is done.
WillRead(k, p) == task[k].p = p /\ task[k].pc \in {"tick", "read"}

Refreshing(p) == \E k \in Threads : WillRead(k, p)

\* at is no later than any growing plot of p.
InTime(p, at) == \A d \in growing[p] : at <= d

\* What a task in its window is about to publish is right.
PublishesRight(k, p) ==
    IF task[k].pc = "cancel" THEN growing[p] = {} ELSE InTime(p, task[k].at)

\* Only Actors in Runtime.actors are read from or ticked.
AbsentIsIdle ==
    \A p \in Players, k \in Threads :
        ~resident[p] /\ task[k].p = p => task[k].pc \in {"idle", "check"}

\* Without an overlap one task at most is in its window, with a generation
\* nobody has replaced and a deadline that is right or will be read again.
OneWindow ==
    \A p \in Players : ~overlapped[p] =>
        \A k \in Threads : InWindow(k, p) =>
            /\ \A j \in Threads : InWindow(j, p) => j = k
            /\ task[k].pc = "schedule" => task[k].gen = gen[p]
            /\ Refreshing(p) \/ PublishesRight(k, p)

HasEntry(p) ==
    \E e \in heap : e.p = p /\ Current(e) /\ e.gen = gen[p] /\ InTime(p, e.at)

\* The scheduler has popped an entry that deliverActorTick will accept.
Popped(p) ==
    LET t == task["scheduler"] IN t.pc = "check" /\ t.p = p /\ t.gen = gen[p]

\* An Actor with growing plots is looked after by somebody.
LookedAfter ==
    \A p \in Players : resident[p] /\ growing[p] # {} /\ ~overlapped[p] =>
        \/ Refreshing(p)
        \/ \E k \in Threads : InWindow(k, p)
        \/ Popped(p)
        \/ HasEntry(p)

\* Inductive: entries, popped entries, ticks, reads and publications of an
\* Actor's deadline relay each other without a gap.
Inv == TypeOK /\ AbsentIsIdle /\ OneWindow /\ LookedAfter

-----------------------------------------------------------------------------
Overdue(p) == resident[p] /\ \E d \in growing[p] : d <= now

\* A due plot of a resident Actor is matured by the scheduler alone, unless
\* two refreshes of the Actor have overlapped.
MaturesUnlessOverlapped ==
    \A p \in Players : <>overlapped[p] \/ (Overdue(p) ~> ~Overdue(p))
=============================================================================
