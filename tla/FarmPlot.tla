------------------------------ MODULE FarmPlot ------------------------------
(***************************************************************************)
(* One plot of a farm: its life cycle, the growth arithmetic with timed     *)
(* effects, and the requests of the owner and of visitors that change it.   *)
(* A request reads the server's clock first and enters the owner's mailbox  *)
(* later, so jobs need not run in the order of their times.                 *)
(*                                                                         *)
(* Sources: server/internal/player/growth.go, plant.go, fertilizer.go,      *)
(* apply_pest.go, catch_pest.go, owner_catch_pest.go, harvest.go,           *)
(* clean_plot.go, steal_crop.go, public_plot_view.go, checkpoint.go.        *)
(***************************************************************************)
EXTENDS Integers, FiniteSets, FiniteSetsExt

CONSTANTS
    Maturity, BaseRate,                \* of the crop's configuration
    FertilizerRate, FertilizerTime,    \* modifier and duration
    PestRate, PestTime,
    BaseYield, StealQuantity, MaxStealTimes, ProtectedOwnerYield,
    Visitors,
    Workers,                           \* goroutines that serve requests
    MaxTime                            \* bound on the clock

\* The configuration's checks, and that a pest does not stop growth.
ASSUME PlotAssumption ==
    /\ Maturity \in Nat \ {0} /\ BaseRate \in Nat \ {0} /\ BaseYield \in Nat \ {0}
    /\ FertilizerRate \in Nat \ {0} /\ FertilizerTime \in Nat \ {0}
    /\ PestRate \in Int /\ PestRate < 0 /\ BaseRate + PestRate > 0 /\ PestTime \in Nat \ {0}
    /\ StealQuantity \in Nat /\ MaxStealTimes \in Nat /\ ProtectedOwnerYield \in Nat
    /\ MaxTime \in Nat \ {0}

VARIABLES
    plot,      \* the Actor's Plot record
    clock,     \* the server's time
    job,       \* per worker: the time its request has read, or None
    latest,    \* history: the latest time a job has used
    reordered, \* history: a job has used an earlier time than one before it
    effects,   \* history: the fertilizers and pests the crop has been exposed to
    gathered   \* history: what the owner and visitors took from the last crop

vars == <<plot, clock, job, latest, reordered, effects, gathered>>

None == -1

Times == 1..MaxTime

-----------------------------------------------------------------------------
(***************************************************************************)
(* Growth.  An effect is [start, end]; an absent one is an empty set.       *)
(***************************************************************************)

ActiveAt(slot, t) == {e \in slot : e.start <= t /\ t < e.end}

\* effectiveRateScaled6, of a plot or of all effects a crop was exposed to.
Rate(p, t) ==
    BaseRate + FertilizerRate * Cardinality(ActiveAt(p.fertilizer, t))
             + PestRate * Cardinality(ActiveAt(p.pest, t))

Slots(p) == p.fertilizer \cup p.pest

Boundaries(p) == {e.start : e \in Slots(p)} \cup {e.end : e \in Slots(p)}

\* The right end of the piece of an interval that starts at c.
PieceEnd(p, c, to) == Min({d \in Boundaries(p) \cup {to} : d > c})

\* Growth piece by piece, split at the effects' boundaries.
GrowthBetween(p, from, to) ==
    LET growth[c \in from..to] ==
            IF c = to THEN 0
            ELSE (PieceEnd(p, c, to) - c) * Rate(p, c) + growth[PieceEnd(p, c, to)]
    IN  IF to <= from THEN 0 ELSE growth[from]

Ceil(a, b) == (a + b - 1) \div b

\* As if the duration were rounded down and the effects' ends ignored.
EstimateFloor(p, from) == from + ((Maturity - p.settled) \div Rate(p, from))

\* estimatePlotMatureAtMS: the last boundary that is reached before maturity,
\* and from there at the rate that holds then.
Estimate(p, from) ==
    LET remaining == Maturity - p.settled
        cuts == {from} \cup {t \in Boundaries(p) : t > from}
        cursor == Max({c \in cuts : GrowthBetween(p, from, c) < remaining})
    IN  cursor + Ceil(remaining - GrowthBetween(p, from, cursor), Rate(p, cursor))

-----------------------------------------------------------------------------
(***************************************************************************)
(* The plot.                                                               *)
(***************************************************************************)

Empty == [state |-> "EMPTY", planted |-> 0, settled |-> 0, last |-> 0, estimate |-> None,
          fertilizer |-> {}, pest |-> {}, stolen |-> 0, thieves |-> {}]

Planted(now) ==
    [Empty EXCEPT !.state = "GROWING", !.planted = now, !.last = now,
                  !.estimate = now + Ceil(Maturity, BaseRate)]

\* As if an effect that has run out stayed in its slot.
KeptInSlot(slot, now) == slot

\* An effect that has run out at the time up to which growth is settled is removed.
Unexpired(slot, now) == {e \in slot : e.end > now}

\* settleGrowingPlot
Settle(p, now) ==
    LET until == IF now > p.last THEN now ELSE p.last
        delta == GrowthBetween(p, p.last, until)
        grown == [p EXCEPT !.settled = @ + delta, !.last = until,
                           !.fertilizer = Unexpired(@, until), !.pest = Unexpired(@, until)]
    IN  IF delta >= Maturity - p.settled
        THEN [p EXCEPT !.state = "MATURE", !.settled = Maturity, !.last = until,
                       !.estimate = None, !.fertilizer = {}, !.pest = {}]
        ELSE [grown EXCEPT !.estimate = Estimate(grown, until)]

\* materializeDueMaturities, which runs before each command of the owner.
Materialize(p, now) ==
    IF p.state = "GROWING" /\ p.estimate <= now THEN Settle(p, now) ELSE p

\* As if a change of effects did not settle first.
SettledNever(p, now) == p

\* Growth is settled under the old effects before one of them changes ...
SettledFirst(p, now) == Settle(p, now)

\* ... and the estimate is made anew, from the request's time.
Changed(p, now) == [p EXCEPT !.estimate = Estimate(p, now)]

Matures(p, now) == Settle(p, now).state = "MATURE"

\* As if only the number of thefts were limited.
CanStealCounted(p) == p.state = "MATURE" /\ Cardinality(p.thieves) < MaxStealTimes

CanSteal(p) ==
    /\ p.state = "MATURE"
    /\ StealQuantity # 0 /\ MaxStealTimes # 0
    /\ Cardinality(p.thieves) < MaxStealTimes
    /\ BaseYield >= p.stolen + StealQuantity + ProtectedOwnerYield

\* validatePlotRecord: what ValidateCheckpoint demands when a checkpoint is
\* built, written, read or activated.
ValidEffect(p, e) == e.start >= p.planted /\ e.end > e.start

Valid(p) ==
    CASE p.state = "EMPTY" -> p = Empty
      [] p.state = "GROWING" ->
            /\ 0 <= p.settled /\ p.settled < Maturity
            /\ p.last >= p.planted /\ p.estimate > p.last
            /\ \A e \in Slots(p) : ValidEffect(p, e)
            /\ p.stolen <= BaseYield /\ Cardinality(p.thieves) <= MaxStealTimes
      [] p.state = "MATURE" ->
            /\ p.settled = Maturity /\ p.last >= p.planted
            /\ p.estimate = None /\ Slots(p) = {}
            /\ p.stolen <= BaseYield /\ Cardinality(p.thieves) <= MaxStealTimes
      [] p.state = "NEED_CLEANUP" ->
            /\ p.settled = 0 /\ p.last = 0 /\ p.estimate = None /\ Slots(p) = {}
            /\ p.stolen <= BaseYield /\ Cardinality(p.thieves) <= MaxStealTimes

-----------------------------------------------------------------------------
(***************************************************************************)
(* Requests.                                                               *)
(***************************************************************************)

NoEffects == [fertilizer |-> {}, pest |-> {}]

Init ==
    /\ plot = Empty /\ clock = 1
    /\ job = [w \in Workers |-> None]
    /\ latest = 0 /\ reordered = FALSE
    /\ effects = NoEffects /\ gathered = [owner |-> 0, visitors |-> 0]

Advance ==
    /\ clock < MaxTime
    /\ clock' = clock + 1
    /\ UNCHANGED <<plot, job, latest, reordered, effects, gathered>>

\* A request reads the time before it enters the mailbox.
ReadClock(w) ==
    /\ job[w] = None
    /\ job' = [job EXCEPT ![w] = clock]
    /\ UNCHANGED <<plot, clock, latest, reordered, effects, gathered>>

\* The mailbox runs the job of w.
Runs(w) ==
    /\ job[w] # None
    /\ job' = [job EXCEPT ![w] = None]
    /\ latest' = IF job[w] > latest THEN job[w] ELSE latest
    /\ reordered' = (reordered \/ job[w] < latest)
    /\ UNCHANGED clock

\* The tick, a snapshot, or a command of the owner that fails.
Tick(w) ==
    /\ Runs(w)
    /\ plot' = Materialize(plot, job[w])
    /\ UNCHANGED <<effects, gathered>>

Plant(w) ==
    /\ Runs(w)
    /\ Materialize(plot, job[w]).state = "EMPTY"
    /\ plot' = Planted(job[w])
    /\ effects' = NoEffects
    /\ gathered' = [owner |-> 0, visitors |-> 0]

FertilizerEffect(now) == [start |-> now, end |-> now + FertilizerTime]

ApplyFertilizer(w) ==
    LET now == job[w]
        p == Materialize(plot, now)
        e == FertilizerEffect(now)
    IN  /\ Runs(w)
        /\ p.state = "GROWING"
        /\ \A f \in p.fertilizer : now >= f.end
        /\ ~Matures(p, now)
        /\ plot' = Changed([SettledFirst(p, now) EXCEPT !.fertilizer = {e}], now)
        /\ effects' = [effects EXCEPT !.fertilizer = @ \cup {e}]
        /\ UNCHANGED gathered

\* A caught pest counts up to the moment it was caught.
Caught(p, now) ==
    [effects EXCEPT !.pest = (@ \ p.pest) \cup {[e EXCEPT !.end = now] : e \in p.pest}]

OwnerCatchPest(w) ==
    LET now == job[w]
        p == Materialize(plot, now)
    IN  /\ Runs(w)
        /\ p.state = "GROWING" /\ p.pest # {}
        /\ ~Matures(p, now) /\ Settle(p, now).pest # {}
        /\ plot' = Changed([SettledFirst(p, now) EXCEPT !.pest = {}], now)
        /\ effects' = Caught(p, now)
        /\ UNCHANGED gathered

\* The requests of visitors do not materialize first.  (A visitor's own pest, which
\* is not for that visitor to catch, is left out: who set a pest is not kept.)
FriendCatchPest(w) ==
    LET now == job[w] IN
    /\ Runs(w)
    /\ plot.state = "GROWING" /\ plot.pest # {}
    /\ ~Matures(plot, now) /\ Settle(plot, now).pest # {}
    /\ plot' = Changed([SettledFirst(plot, now) EXCEPT !.pest = {}], now)
    /\ effects' = Caught(plot, now)
    /\ UNCHANGED gathered

PestEffect(now) == [start |-> now, end |-> now + PestTime]

\* The slot is looked at before growth is settled.
FreeForPest(p, now) == p.pest = {}

FriendApplyPest(w) ==
    LET now == job[w]
        e == PestEffect(now)
    IN  /\ Runs(w)
        /\ plot.state = "GROWING" /\ FreeForPest(plot, now)
        /\ ~Matures(plot, now)
        /\ plot' = Changed([SettledFirst(plot, now) EXCEPT !.pest = {e}], now)
        /\ effects' = [effects EXCEPT !.pest = @ \cup {e}]
        /\ UNCHANGED gathered

Steal(w, v) ==
    /\ Runs(w)
    /\ CanSteal(plot) /\ v \notin plot.thieves
    /\ plot' = [plot EXCEPT !.stolen = @ + StealQuantity, !.thieves = @ \cup {v}]
    /\ gathered' = [gathered EXCEPT !.visitors = @ + StealQuantity]
    /\ UNCHANGED effects

\* A harvest that the inventory's limits refuse changes nothing and is left out.
Harvest(w) ==
    LET p == Materialize(plot, job[w]) IN
    /\ Runs(w)
    /\ p.state = "MATURE"
    /\ plot' = [p EXCEPT !.state = "NEED_CLEANUP", !.settled = 0, !.last = 0,
                         !.estimate = None, !.fertilizer = {}, !.pest = {}]
    /\ gathered' = [gathered EXCEPT !.owner = BaseYield - p.stolen]
    /\ UNCHANGED effects

CleanPlot(w) ==
    /\ Runs(w)
    /\ plot.state = "NEED_CLEANUP"
    /\ plot' = Empty
    /\ UNCHANGED <<effects, gathered>>

Next ==
    \/ Advance
    \/ \E w \in Workers :
        \/ ReadClock(w) \/ Tick(w)
        \/ Plant(w) \/ ApplyFertilizer(w) \/ OwnerCatchPest(w) \/ Harvest(w) \/ CleanPlot(w)
        \/ FriendApplyPest(w) \/ FriendCatchPest(w)
        \/ \E v \in Visitors : Steal(w, v)

Spec == Init /\ [][Next]_vars

-----------------------------------------------------------------------------
(***************************************************************************)
(* Properties.                                                             *)
(***************************************************************************)

Effect == [start : Times, end : Nat]

Effects == [fertilizer : SUBSET Effect, pest : SUBSET Effect]

Plots ==
    [state : {"EMPTY", "GROWING", "MATURE", "NEED_CLEANUP"},
     planted : 0..MaxTime, settled : 0..Maturity, last : 0..MaxTime,
     estimate : Nat \cup {None}, fertilizer : SUBSET Effect, pest : SUBSET Effect,
     stolen : Nat, thieves : SUBSET Visitors]

TypeOK ==
    /\ plot \in Plots
    /\ clock \in Times /\ job \in [Workers -> Times \cup {None}]
    /\ latest \in 0..MaxTime /\ reordered \in BOOLEAN
    /\ effects \in Effects
    /\ gathered \in [owner : Nat, visitors : Nat]

\* The milliseconds from a to b - 1, each paired with each effect that held then.
Exposure(slot, a, b) == {x \in (a..(b - 1)) \X slot : x[1] >= x[2].start /\ x[1] < x[2].end}

\* What a crop grows from a to b: its base rate each millisecond, and the
\* modifier of each effect each millisecond that it held.
Grown(p, a, b) ==
    BaseRate * (b - a) + FertilizerRate * Cardinality(Exposure(p.fertilizer, a, b))
                       + PestRate * Cardinality(Exposure(p.pest, a, b))

\* Growth is exact: however often it was settled, whatever effects began, ended
\* or were removed in between, the settled value is what the crop has grown
\* millisecond by millisecond under all effects it was ever exposed to, the
\* estimate is the first millisecond at which that reaches maturity, and a plot
\* is mature only from then on.
GrowthExact ==
    LET grown(t) == Grown(effects, plot.planted, t) IN
    ~reordered =>
        /\ plot.state = "GROWING" =>
            /\ plot.settled = grown(plot.last)
            /\ grown(plot.estimate) >= Maturity
            /\ grown(plot.estimate - 1) < Maturity
        /\ plot.state = "MATURE" => grown(plot.last) >= Maturity

\* Every state of the plot can be saved and activated again, as long as jobs run
\* in the order of their times.
SavableInOrder == ~reordered => Valid(plot)

\* Visitors leave the owner the protected yield, and owner and visitors together
\* take what the crop bore.
YieldShared ==
    /\ gathered.visitors > 0 => BaseYield - gathered.visitors >= ProtectedOwnerYield
    /\ plot.state = "NEED_CLEANUP" => gathered.owner + gathered.visitors = BaseYield

\* What each state of the plot uses of the record, whatever the times of the jobs.
AtMostOne(slot) == \A e, f \in slot : e = f

GrowingFields(p) ==
    /\ p.settled < Maturity /\ p.estimate # None
    /\ AtMostOne(p.fertilizer) /\ AtMostOne(p.pest)
    /\ p.stolen = 0 /\ p.thieves = {}

Fields(p) ==
    /\ p.state = "EMPTY" => p = Empty
    /\ p.state = "GROWING" => GrowingFields(p)
    /\ p.state \in {"MATURE", "NEED_CLEANUP"} => p.estimate = None /\ Slots(p) = {}
    /\ p.state = "MATURE" => p.settled = Maturity
    /\ p.state = "NEED_CLEANUP" => p.settled = 0 /\ p.last = 0

\* The thefts counted in the plot are the thefts of this crop, within the limits.
Thefts ==
    /\ IsFiniteSet(plot.thieves) /\ Cardinality(plot.thieves) <= MaxStealTimes
    /\ plot.stolen > 0 => plot.stolen + ProtectedOwnerYield <= BaseYield
    /\ plot.state # "EMPTY" => gathered.visitors = plot.stolen

\* The slots hold the effects that have not run out at the time up to which growth
\* is settled; all of them began before, and a pest after the ones before it ended.
EffectsKept(p, all) ==
    /\ p.fertilizer = Unexpired(all.fertilizer, p.last) /\ p.pest = Unexpired(all.pest, p.last)
    /\ IsFiniteSet(all.fertilizer) /\ IsFiniteSet(all.pest)
    /\ \A e \in Slots(all) : p.planted <= e.start /\ e.start <= p.last
    /\ \A e \in p.pest : \A f \in all.pest \ {e} : f.end <= e.start

GrowingExact(p, all) ==
    /\ p.planted <= p.last /\ p.last < p.estimate
    /\ EffectsKept(p, all)
    /\ p.settled = Grown(all, p.planted, p.last)
    /\ Grown(all, p.planted, p.estimate) >= Maturity
    /\ Grown(all, p.planted, p.estimate - 1) < Maturity

MatureExact(p, all) == p.planted <= p.last /\ Grown(all, p.planted, p.last) >= Maturity

Exact(p, all) ==
    /\ p.state = "GROWING" => GrowingExact(p, all)
    /\ p.state = "MATURE" => MatureExact(p, all)

\* The inductive invariant.
Inv ==
    /\ TypeOK
    /\ Fields(plot) /\ Thefts /\ YieldShared
    /\ ~reordered => plot.last <= latest /\ Exact(plot, effects)
=============================================================================
