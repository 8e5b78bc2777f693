------------------------ MODULE ActorSchedulerProofs ------------------------
(***************************************************************************)
(* The deadlines of a shard's Actors relay each other without a gap:       *)
(* proofs about ActorScheduler for any players, goroutines and bounds.     *)
(***************************************************************************)
EXTENDS ActorScheduler, FiniteSetTheorems, WellFoundedInduction, TLAPS

USE SchedulerAssumption

-----------------------------------------------------------------------------
(* Types.                                                                  *)

\* A set of naturals has a least element.
LEMMA LeastElement ==
    ASSUME NEW T \in SUBSET Nat, T # {}
    PROVE  \E n \in T : \A m \in T : n <= m
<1>1. PICK n \in T : \A m \in T : ~ (<<m, n>> \in OpToRel(<, Nat))
  BY WFMin, NatLessThanWellFounded
<1>2. \A m \in T : ~ (m < n)
  BY <1>1 DEF OpToRel
<1> QED BY <1>2

LEMMA TimesAreNat == Times \subseteq Nat
BY DEF Times

LEMMA IdleTaskType == IdleTask \in Tasks /\ IdleTask.pc = "idle"
<1>1. (CHOOSE p \in Players : TRUE) \in Players
  OBVIOUS
<1> QED BY <1>1 DEF IdleTask, Tasks, PCs, Times

\* nextTickAt is the earliest deadline.
LEMMA NextTickAtIsLeast ==
    ASSUME NEW S \in SUBSET Times, S # {}
    PROVE  NextTickAt(S) \in S /\ \A d \in S : NextTickAt(S) <= d
<1>1. \E n \in S : \A m \in S : n <= m
  BY LeastElement, TimesAreNat
<1> QED BY <1>1 DEF NextTickAt, Min

LEMMA SettledType ==
    ASSUME TypeOK, NEW p \in Players
    PROVE  Settled(p) \subseteq growing[p] /\ Settled(p) \in SUBSET Times
BY DEF Settled, TypeOK

LEMMA SchedulerIsThread == "scheduler" \in Threads
BY DEF Threads

\* Going to another step, or to rest.
LEMMA GotoTask ==
    ASSUME TypeOK, NEW k \in Threads, NEW c \in PCs, Goto(k, c)
    PROVE  /\ task' \in [Threads -> Tasks]
           /\ \A j \in Threads : j # k => task'[j] = task[j]
           /\ task'[k].pc = c
           /\ c # "idle" => /\ task'[k].p = task[k].p
                            /\ task'[k].at = task[k].at
                            /\ task'[k].gen = task[k].gen
<1> DEFINE new == IF c = "idle" THEN IdleTask ELSE [task[k] EXCEPT !.pc = c]
<1>1. task' = [task EXCEPT ![k] = new]
  BY DEF Goto
<1>2. new \in Tasks /\ new.pc = c
  BY IdleTaskType DEF TypeOK, Tasks
<1>3. c # "idle" => /\ new.p = task[k].p
                    /\ new.at = task[k].at
                    /\ new.gen = task[k].gen
  BY DEF TypeOK, Tasks
<1> HIDE DEF new
<1> QED BY <1>1, <1>2, <1>3 DEF TypeOK
-----------------------------------------------------------------------------
(* Init.                                                                   *)

LEMMA InitInv == Init => Inv
<1> SUFFICES ASSUME Init PROVE Inv
  OBVIOUS
<1>1. TypeOK
  BY IdleTaskType DEF Init, TypeOK, Times
<1>2. \A k \in Threads : task[k].pc = "idle"
  BY IdleTaskType DEF Init
<1>3. AbsentIsIdle /\ OneWindow /\ LookedAfter
  BY <1>2 DEF Init, AbsentIsIdle, OneWindow, LookedAfter, InWindow
<1> QED BY <1>1, <1>3 DEF Inv

-----------------------------------------------------------------------------
(* Requests and refreshes.                                                 *)

LEMMA CommandInv ==
    ASSUME Inv, NEW k \in Workers, NEW q \in Players, Command(k, q)
    PROVE  Inv'
<1> USE DEF Inv
<1>1. k \in Threads /\ k # "scheduler"
  BY DEF Threads
<1>2. PICK S \in SUBSET Times : growing' = [growing EXCEPT ![q] = S]
  <2>1. Settled(q) \in SUBSET Times
    BY SettledType
  <2> QED BY <2>1 DEF Command
<1>3. /\ task' \in [Threads -> Tasks]
      /\ \A j \in Threads : j # k => task'[j] = task[j]
      /\ task'[k].pc = "read" /\ task'[k].p = q
  <2> DEFINE new == [[task[k] EXCEPT !.pc = "read"] EXCEPT !.p = q]
  <2>1. task' = [task EXCEPT ![k] = new]
    BY <1>1 DEF Command, TypeOK
  <2>2. new \in Tasks /\ new.pc = "read" /\ new.p = q
    BY <1>1 DEF TypeOK, Tasks, PCs
  <2> HIDE DEF new
  <2> QED BY <1>1, <2>1, <2>2 DEF TypeOK
<1>4. TypeOK'
  BY <1>2, <1>3 DEF Command, TypeOK
<1>5. \A j \in Threads, p \in Players :
          /\ InWindow(j, p)' => j # k /\ InWindow(j, p)
          /\ WillRead(j, p) => WillRead(j, p)'
          /\ WillRead(k, q)'
  BY <1>3 DEF Command, InWindow, WillRead
<1>6. AbsentIsIdle'
  BY <1>3 DEF Command, AbsentIsIdle
<1>7. OneWindow'
  <2> SUFFICES ASSUME NEW p \in Players, ~overlapped'[p], NEW j \in Threads, InWindow(j, p)'
               PROVE  /\ \A i \in Threads : InWindow(i, p)' => i = j
                      /\ task'[j].pc = "schedule" => task'[j].gen = gen'[p]
                      /\ Refreshing(p)' \/ PublishesRight(j, p)'
    BY DEF OneWindow
  <2>1. InWindow(j, p) /\ j # k /\ task'[j] = task[j] /\ ~overlapped[p] /\ gen' = gen
    BY <1>3, <1>5 DEF Command
  <2>2. Refreshing(p) \/ PublishesRight(j, p)
    BY <2>1 DEF OneWindow
  <2>3. Refreshing(p) => Refreshing(p)'
    BY <1>5 DEF Refreshing
  <2>4. CASE p = q
    BY <1>1, <1>5, <2>1, <2>4 DEF OneWindow, Refreshing
  <2>5. CASE p # q
    <3>1. growing'[p] = growing[p]
      BY <1>2, <2>5 DEF TypeOK
    <3>2. PublishesRight(j, p) => PublishesRight(j, p)'
      BY <3>1, <2>1 DEF PublishesRight, InTime
    <3> QED BY <1>5, <2>1, <2>2, <2>3, <3>2 DEF OneWindow
  <2> QED BY <2>4, <2>5
<1>8. LookedAfter'
  <2> SUFFICES ASSUME NEW p \in Players, resident'[p], growing'[p] # {}, ~overlapped'[p]
               PROVE  \/ Refreshing(p)'
                      \/ \E j \in Threads : InWindow(j, p)'
                      \/ Popped(p)'
                      \/ HasEntry(p)'
    BY DEF LookedAfter
  <2>1. CASE p = q
    BY <1>1, <1>5, <2>1 DEF Refreshing
  <2>2. CASE p # q
    <3>1. growing'[p] = growing[p]
      BY <1>2, <2>2 DEF TypeOK
    <3>2. \A j \in Threads : InWindow(j, p) => InWindow(j, p)'
      BY <1>3 DEF InWindow, Command
    <3>3. Popped(p) => Popped(p)'
      BY <1>1, <1>3, SchedulerIsThread DEF Popped, Command
    <3>4. HasEntry(p) => HasEntry(p)'
      BY <3>1 DEF HasEntry, InTime, Current, Command
    <3>5. Refreshing(p) => Refreshing(p)'
      BY <1>5 DEF Refreshing
    <3> QED BY <3>1, <3>2, <3>3, <3>4, <3>5 DEF LookedAfter, Command
  <2> QED BY <2>1, <2>2
<1> QED BY <1>4, <1>6, <1>7, <1>8
-----------------------------------------------------------------------------
(* The invariant player by player: a step of one task concerns one player. *)

AbsentOK(p) ==
    \A k \in Threads :
        ~resident[p] /\ task[k].p = p => task[k].pc \in {"idle", "check"}

WindowOK(p) ==
    ~overlapped[p] =>
        \A k \in Threads : InWindow(k, p) =>
            /\ \A j \in Threads : InWindow(j, p) => j = k
            /\ task[k].pc = "schedule" => task[k].gen = gen[p]
            /\ Refreshing(p) \/ PublishesRight(k, p)

LookedOK(p) ==
    resident[p] /\ growing[p] # {} /\ ~overlapped[p] =>
        \/ Refreshing(p)
        \/ \E k \in Threads : InWindow(k, p)
        \/ Popped(p)
        \/ HasEntry(p)

PlayerOK(p) == AbsentOK(p) /\ WindowOK(p) /\ LookedOK(p)

LEMMA InvByPlayer == Inv <=> TypeOK /\ \A p \in Players : PlayerOK(p)
BY DEF Inv, AbsentIsIdle, OneWindow, LookedAfter, PlayerOK, AbsentOK, WindowOK, LookedOK

LEMMA InvByPlayerNext == TypeOK' /\ (\A p \in Players : PlayerOK(p)') => Inv'
BY DEF Inv, AbsentIsIdle, OneWindow, LookedAfter, PlayerOK, AbsentOK, WindowOK, LookedOK

\* The variables of player q stay as they are, but for entries that do not count.
SamePlayer(q) ==
    /\ resident'[q] = resident[q]
    /\ growing'[q] = growing[q]
    /\ gen'[q] = gen[q]
    /\ latest'[q] = latest[q]
    /\ overlapped'[q] = overlapped[q]
    /\ \A e \in heap : e.p = q /\ Current(e) => e \in heap'

\* A task that is not concerned with q.
Elsewhere(t, q) == t.pc = "idle" \/ t.p # q

\* A step of task k for another player than q.
LEMMA OtherPlayer ==
    ASSUME TypeOK, NEW k \in Threads, NEW q \in Players, PlayerOK(q), SamePlayer(q),
           \A j \in Threads : j # k => task'[j] = task[j],
           Elsewhere(task[k], q), Elsewhere(task'[k], q)
    PROVE  PlayerOK(q)'
<1>1. \A j \in Threads : /\ InWindow(j, q) <=> InWindow(j, q)'
                         /\ WillRead(j, q) <=> WillRead(j, q)'
                         /\ InWindow(j, q) => task'[j] = task[j]
  BY DEF InWindow, WillRead, Elsewhere
<1>2. Refreshing(q) <=> Refreshing(q)'
  BY <1>1 DEF Refreshing
<1>3. AbsentOK(q)'
  BY DEF AbsentOK, PlayerOK, SamePlayer, Elsewhere
<1>4. ASSUME NEW j \in Threads, InWindow(j, q), PublishesRight(j, q)
      PROVE  PublishesRight(j, q)'
  BY <1>1, <1>4 DEF PublishesRight, InTime, SamePlayer
<1>5. WindowOK(q)'
  <2> SUFFICES ASSUME ~overlapped'[q], NEW j \in Threads, InWindow(j, q)'
               PROVE  /\ \A i \in Threads : InWindow(i, q)' => i = j
                      /\ task'[j].pc = "schedule" => task'[j].gen = gen'[q]
                      /\ Refreshing(q)' \/ PublishesRight(j, q)'
    BY DEF WindowOK
  <2> QED BY <1>1, <1>2, <1>4 DEF WindowOK, PlayerOK, SamePlayer
<1>6. Popped(q) => Popped(q)'
  BY SchedulerIsThread DEF Popped, Elsewhere, SamePlayer
<1>7. HasEntry(q) => HasEntry(q)'
  BY DEF HasEntry, InTime, Current, SamePlayer
<1>8. LookedOK(q)'
  BY <1>1, <1>2, <1>6, <1>7 DEF LookedOK, PlayerOK, SamePlayer
<1> QED BY <1>3, <1>5, <1>8 DEF PlayerOK

-----------------------------------------------------------------------------
(* Refreshes.                                                              *)

LEMMA RefreshReadInv ==
    ASSUME Inv, NEW k \in Threads, RefreshRead(k)
    PROVE  Inv'
<1>1. TypeOK /\ \A q \in Players : PlayerOK(q)
  BY InvByPlayer
<1>p. PICK p \in Players : p = task[k].p
  BY <1>1 DEF TypeOK, Tasks
<1>2. growing[p] \in SUBSET Times
  BY <1>1 DEF TypeOK
<1>3. /\ task' \in [Threads -> Tasks]
      /\ \A j \in Threads : j # k => task'[j] = task[j]
      /\ task'[k].p = p
      /\ growing[p] = {} => task'[k].pc = "cancel"
      /\ growing[p] # {} => task'[k].pc = "bump" /\ task'[k].at = NextTickAt(growing[p])
  <2>1. CASE growing[p] = {}
    <3>1. Goto(k, "cancel")
      BY <1>p, <2>1 DEF RefreshRead
    <3> QED BY <1>p, <1>1, <2>1, <3>1, GotoTask DEF PCs
  <2>2. CASE growing[p] # {}
    <3> DEFINE at == NextTickAt(growing[p])
               new == [[task[k] EXCEPT !.pc = "bump"] EXCEPT !.at = at]
    <3>1. task' = [task EXCEPT ![k] = new]
      BY <1>p, <1>1, <2>2 DEF RefreshRead, TypeOK
    <3>2. at \in Times
      BY <1>2, <2>2, NextTickAtIsLeast
    <3> HIDE DEF at
    <3>3. new \in Tasks /\ new.pc = "bump" /\ new.p = p /\ new.at = at
      BY <1>p, <1>1, <3>2 DEF TypeOK, Tasks, PCs
    <3> HIDE DEF new
    <3>4. task'[k] = new /\ task' \in [Threads -> Tasks]
          /\ \A j \in Threads : j # k => task'[j] = task[j]
      BY <1>1, <3>1, <3>3 DEF TypeOK
    <3> QED BY <2>2, <3>3, <3>4 DEF at
  <2> QED BY <2>1, <2>2
<1>4. TypeOK'
  BY <1>p, <1>1, <1>3 DEF RefreshRead, TypeOK
<1>5. overlapped'[p] = (\E j \in Threads \ {k} : InWindow(j, p))
      /\ \A q \in Players : q # p => overlapped'[q] = overlapped[q]
  BY <1>p, <1>1, <1>2 DEF RefreshRead, TypeOK
<1>6. task[k].pc = "read" /\ UNCHANGED <<now, resident, growing, gen, heap, latest, commands, evicts>>
  BY DEF RefreshRead
<1>7. PlayerOK(p)'
  <2>1. AbsentOK(p)'
    BY <1>p, <1>1, <1>3, <1>6 DEF AbsentOK, PlayerOK
  <2>2. InWindow(k, p)'
    BY <1>3 DEF InWindow
  <2>3. ~overlapped'[p] => \A j \in Threads : InWindow(j, p)' => j = k
    BY <1>3, <1>5 DEF InWindow
  <2>4. PublishesRight(k, p)'
    BY <1>2, <1>3, <1>6, NextTickAtIsLeast DEF PublishesRight, InTime
  <2>5. task'[k].pc # "schedule"
    BY <1>3
  <2>6. WindowOK(p)'
    BY <2>2, <2>3, <2>4, <2>5 DEF WindowOK
  <2>7. LookedOK(p)'
    BY <2>2 DEF LookedOK
  <2> QED BY <2>1, <2>6, <2>7 DEF PlayerOK
<1>8. ASSUME NEW q \in Players, q # p PROVE PlayerOK(q)'
  <2>1. SamePlayer(q)
    BY <1>5, <1>6, <1>8 DEF SamePlayer
  <2>2. Elsewhere(task[k], q) /\ Elsewhere(task'[k], q)
    BY <1>p, <1>3, <1>8 DEF Elsewhere
  <2> QED BY <1>1, <1>3, <2>1, <2>2, OtherPlayer
<1> QED BY <1>4, <1>7, <1>8, InvByPlayerNext

\* A task whose publication was right, or will be made again, leaves its window.
LEMMA LeaveWindow ==
    ASSUME TypeOK, NEW k \in Threads, NEW p \in Players, PlayerOK(p), InWindow(k, p),
           Goto(k, "idle"), UNCHANGED <<resident, growing, gen, overlapped>>,
           ~overlapped[p] /\ growing[p] # {} /\ PublishesRight(k, p) => HasEntry(p)'
    PROVE  PlayerOK(p)'
<1>1. /\ \A j \in Threads : j # k => task'[j] = task[j]
      /\ task'[k].pc = "idle"
  BY GotoTask DEF PCs
<1>2. AbsentOK(p)'
  BY <1>1 DEF AbsentOK, PlayerOK
<1>3. Refreshing(p) => Refreshing(p)'
  BY <1>1 DEF Refreshing, WillRead, InWindow
<1>4. \A j \in Threads : InWindow(j, p)' => j # k /\ InWindow(j, p)
  BY <1>1 DEF InWindow
<1>5. ~overlapped[p] => Refreshing(p) \/ PublishesRight(k, p)
  BY DEF PlayerOK, WindowOK
<1>6. WindowOK(p)'
  BY <1>4 DEF WindowOK, PlayerOK
<1>7. LookedOK(p)'
  BY <1>3, <1>5 DEF LookedOK
<1> QED BY <1>2, <1>6, <1>7 DEF PlayerOK

LEMMA CancelInv ==
    ASSUME Inv, NEW k \in Threads, Cancel(k)
    PROVE  Inv'
<1>1. TypeOK /\ \A q \in Players : PlayerOK(q)
  BY InvByPlayer
<1>2. PICK p \in Players : p = task[k].p
  BY <1>1 DEF TypeOK, Tasks
<1>3. /\ Goto(k, "idle") /\ task[k].pc = "cancel"
      /\ latest' = [latest EXCEPT ![p] = 0]
      /\ UNCHANGED <<now, resident, growing, gen, heap, overlapped, commands, evicts>>
  BY <1>2 DEF Cancel
<1>4. /\ task' \in [Threads -> Tasks]
      /\ \A j \in Threads : j # k => task'[j] = task[j]
      /\ task'[k].pc = "idle"
  BY <1>1, <1>3, GotoTask DEF PCs
<1>5. TypeOK'
  BY <1>1, <1>3, <1>4 DEF TypeOK
<1>6. InWindow(k, p) /\ ~(growing[p] # {} /\ PublishesRight(k, p))
  BY <1>2, <1>3 DEF InWindow, PublishesRight
<1>7. PlayerOK(p)'
  BY <1>1, <1>3, <1>6, LeaveWindow
<1>8. ASSUME NEW q \in Players, q # p PROVE PlayerOK(q)'
  <2>1. SamePlayer(q)
    BY <1>1, <1>3, <1>8 DEF SamePlayer, TypeOK
  <2>2. Elsewhere(task[k], q) /\ Elsewhere(task'[k], q)
    BY <1>2, <1>4, <1>8 DEF Elsewhere
  <2> QED BY <1>1, <1>4, <2>1, <2>2, OtherPlayer
<1> QED BY <1>5, <1>7, <1>8, InvByPlayerNext

LEMMA BumpInv ==
    ASSUME Inv, NEW k \in Threads, Bump(k)
    PROVE  Inv'
<1>1. TypeOK /\ \A q \in Players : PlayerOK(q)
  BY InvByPlayer
<1>2. PICK p \in Players : p = task[k].p
  BY <1>1 DEF TypeOK, Tasks
<1>3. /\ task[k].pc = "bump"
      /\ gen' = [gen EXCEPT ![p] = gen[p] + 1]
      /\ UNCHANGED <<now, resident, growing, heap, latest, overlapped, commands, evicts>>
  BY <1>2 DEF Bump
<1>4. PICK g \in Nat : g = gen[p] + 1
  BY <1>1 DEF TypeOK
<1>5. /\ task' \in [Threads -> Tasks]
      /\ \A j \in Threads : j # k => task'[j] = task[j]
      /\ task'[k].pc = "schedule" /\ task'[k].p = p /\ task'[k].gen = g
      /\ task'[k].at = task[k].at
  <2> DEFINE new == [[task[k] EXCEPT !.pc = "schedule"] EXCEPT !.gen = g]
  <2>1. task' = [task EXCEPT ![k] = new]
    BY <1>1, <1>2, <1>4 DEF Bump, TypeOK
  <2>2. /\ new \in Tasks /\ new.pc = "schedule" /\ new.p = p /\ new.gen = g
        /\ new.at = task[k].at
    BY <1>1, <1>2 DEF TypeOK, Tasks, PCs
  <2> HIDE DEF new
  <2> QED BY <1>1, <2>1, <2>2 DEF TypeOK
<1>6. TypeOK' /\ gen'[p] = g
  BY <1>1, <1>3, <1>4, <1>5 DEF TypeOK
<1>7. PlayerOK(p)'
  <2>1. AbsentOK(p)'
    BY <1>1, <1>2, <1>3, <1>5 DEF AbsentOK, PlayerOK
  <2>2. InWindow(k, p)' /\ InWindow(k, p)
    BY <1>2, <1>3, <1>5 DEF InWindow
  <2>3. \A j \in Threads : InWindow(j, p)' => InWindow(j, p)
    BY <1>5, <2>2 DEF InWindow
  <2>4. Refreshing(p) => Refreshing(p)'
    BY <1>3, <1>5 DEF Refreshing, WillRead
  <2>5. PublishesRight(k, p) => PublishesRight(k, p)'
    BY <1>3, <1>5 DEF PublishesRight, InTime
  <2>6. WindowOK(p)'
    <3> SUFFICES ASSUME ~overlapped'[p]
                 PROVE  /\ \A j \in Threads : InWindow(j, p)' => j = k
                        /\ task'[k].gen = gen'[p]
                        /\ Refreshing(p)' \/ PublishesRight(k, p)'
      BY <2>2 DEF WindowOK
    <3> QED BY <1>1, <1>3, <1>5, <1>6, <2>2, <2>3, <2>4, <2>5 DEF WindowOK, PlayerOK
  <2>7. LookedOK(p)'
    BY <2>2 DEF LookedOK
  <2> QED BY <2>1, <2>6, <2>7 DEF PlayerOK
<1>8. ASSUME NEW q \in Players, q # p PROVE PlayerOK(q)'
  <2>1. SamePlayer(q)
    BY <1>1, <1>3, <1>8 DEF SamePlayer, TypeOK
  <2>2. Elsewhere(task[k], q) /\ Elsewhere(task'[k], q)
    BY <1>2, <1>5, <1>8 DEF Elsewhere
  <2> QED BY <1>1, <1>5, <2>1, <2>2, OtherPlayer
<1> QED BY <1>6, <1>7, <1>8, InvByPlayerNext

LEMMA ScheduleInv ==
    ASSUME Inv, NEW k \in Threads, Schedule(k)
    PROVE  Inv'
<1>1. TypeOK /\ \A q \in Players : PlayerOK(q)
  BY InvByPlayer
<1>2. PICK p \in Players, g \in Nat, at \in Times :
          p = task[k].p /\ g = task[k].gen /\ at = task[k].at
  BY <1>1 DEF TypeOK, Tasks
<1> DEFINE e == [p |-> p, at |-> at, gen |-> g]
<1>3. /\ Goto(k, "idle") /\ task[k].pc = "schedule"
      /\ latest' = [latest EXCEPT ![p] = g]
      /\ heap' = heap \cup {e}
      /\ UNCHANGED <<now, resident, growing, gen, overlapped, commands, evicts>>
  BY <1>2 DEF Schedule
<1>4. /\ task' \in [Threads -> Tasks]
      /\ \A j \in Threads : j # k => task'[j] = task[j]
      /\ task'[k].pc = "idle"
  BY <1>1, <1>3, GotoTask DEF PCs
<1>5. TypeOK'
  BY <1>1, <1>3, <1>4 DEF TypeOK, Entries
<1>6. InWindow(k, p)
  BY <1>2, <1>3 DEF InWindow
<1>7. ASSUME ~overlapped[p], PublishesRight(k, p) PROVE HasEntry(p)'
  <2>1. g = gen'[p]
    BY <1>1, <1>2, <1>3, <1>6, <1>7 DEF PlayerOK, WindowOK
  <2>2. InTime(p, at)'
    BY <1>2, <1>3, <1>7 DEF PublishesRight, InTime
  <2>3. e \in heap' /\ latest'[p] = g
    BY <1>1, <1>3 DEF TypeOK
  <2> QED BY <2>1, <2>2, <2>3 DEF HasEntry, Current
<1>8. PlayerOK(p)'
  BY <1>1, <1>3, <1>6, <1>7, LeaveWindow
<1>9. ASSUME NEW q \in Players, q # p PROVE PlayerOK(q)'
  <2>1. SamePlayer(q)
    BY <1>1, <1>3, <1>9 DEF SamePlayer, TypeOK
  <2>2. Elsewhere(task[k], q) /\ Elsewhere(task'[k], q)
    BY <1>2, <1>4, <1>9 DEF Elsewhere
  <2> QED BY <1>1, <1>4, <2>1, <2>2, OtherPlayer
<1> QED BY <1>5, <1>8, <1>9, InvByPlayerNext

LEMMA RefreshStepInv ==
    ASSUME Inv, NEW k \in Threads, RefreshStep(k)
    PROVE  Inv'
BY RefreshReadInv, CancelInv, BumpInv, ScheduleInv DEF RefreshStep

-----------------------------------------------------------------------------
(* The clock and the scheduler goroutine.                                  *)

\* Neither a task nor a variable of player q changes.
LEMMA NothingFor ==
    ASSUME TypeOK, NEW q \in Players, PlayerOK(q), SamePlayer(q), task' = task
    PROVE  PlayerOK(q)'
<1>1. \A j \in Threads : /\ InWindow(j, q) <=> InWindow(j, q)'
                         /\ PublishesRight(j, q) => PublishesRight(j, q)'
  BY DEF InWindow, PublishesRight, InTime, SamePlayer
<1>2. Refreshing(q) <=> Refreshing(q)'
  BY DEF Refreshing, WillRead
<1>3. AbsentOK(q)'
  BY DEF AbsentOK, PlayerOK, SamePlayer
<1>4. WindowOK(q)'
  BY <1>1, <1>2 DEF WindowOK, PlayerOK, SamePlayer
<1>5. Popped(q) => Popped(q)'
  BY DEF Popped, SamePlayer
<1>6. HasEntry(q) => HasEntry(q)'
  BY DEF HasEntry, InTime, Current, SamePlayer
<1>7. LookedOK(q)'
  BY <1>1, <1>2, <1>5, <1>6 DEF LookedOK, PlayerOK, SamePlayer
<1> QED BY <1>3, <1>4, <1>7 DEF PlayerOK

LEMMA AdvanceInv ==
    ASSUME Inv, Advance
    PROVE  Inv'
<1>1. TypeOK /\ \A q \in Players : PlayerOK(q)
  BY InvByPlayer
<1>2. TypeOK'
  BY <1>1 DEF Advance, TypeOK, Times
<1>3. ASSUME NEW q \in Players PROVE PlayerOK(q)'
  BY <1>1, NothingFor DEF Advance, SamePlayer
<1> QED BY <1>2, <1>3, InvByPlayerNext

LEMMA DropStaleInv ==
    ASSUME Inv, DropStale
    PROVE  Inv'
<1>1. TypeOK /\ \A q \in Players : PlayerOK(q)
  BY InvByPlayer
<1>2. TypeOK'
  BY <1>1 DEF DropStale, TypeOK
<1>3. ASSUME NEW q \in Players PROVE PlayerOK(q)'
  <2>1. SamePlayer(q)
    BY DEF DropStale, SamePlayer
  <2> QED BY <1>1, <2>1, NothingFor DEF DropStale
<1> QED BY <1>2, <1>3, InvByPlayerNext

LEMMA PopDueInv ==
    ASSUME Inv, PopDue
    PROVE  Inv'
<1> DEFINE k == "scheduler"
<1>1. TypeOK /\ \A q \in Players : PlayerOK(q)
  BY InvByPlayer
<1>2. PICK e \in heap :
          /\ Current(e)
          /\ heap' = heap \ {e}
          /\ task' = [task EXCEPT ![k] = [pc |-> "check", p |-> e.p, at |-> e.at, gen |-> e.gen]]
  BY DEF PopDue, Tops
<1>3. /\ task[k].pc = "idle" /\ k \in Threads
      /\ UNCHANGED <<now, resident, growing, gen, latest, overlapped, commands, evicts>>
  BY SchedulerIsThread DEF PopDue
<1>4. PICK p \in Players, g \in Nat : p = e.p /\ g = e.gen
  BY <1>1 DEF TypeOK, Entries
<1>5. /\ task' \in [Threads -> Tasks]
      /\ \A j \in Threads : j # k => task'[j] = task[j]
      /\ task'[k].pc = "check" /\ task'[k].p = p /\ task'[k].gen = g
  BY <1>1, <1>2, <1>3, <1>4 DEF TypeOK, Entries, Tasks, PCs
<1>6. TypeOK'
  BY <1>1, <1>2, <1>3, <1>5 DEF TypeOK
<1> HIDE DEF k
<1>7. PlayerOK(p)'
  <2>1. AbsentOK(p)'
    BY <1>1, <1>3, <1>5 DEF AbsentOK, PlayerOK
  <2>2. \A j \in Threads : /\ InWindow(j, p) <=> InWindow(j, p)'
                           /\ WillRead(j, p) <=> WillRead(j, p)'
                           /\ InWindow(j, p) => task'[j] = task[j]
    BY <1>3, <1>5 DEF InWindow, WillRead
  <2>3. Refreshing(p) <=> Refreshing(p)'
    BY <2>2 DEF Refreshing
  <2>4. ASSUME NEW j \in Threads, InWindow(j, p), PublishesRight(j, p)
        PROVE  PublishesRight(j, p)'
    BY <1>3, <2>2, <2>4 DEF PublishesRight, InTime
  <2>5. WindowOK(p)'
    BY <1>1, <1>3, <2>2, <2>3, <2>4 DEF WindowOK, PlayerOK
  <2>6. HasEntry(p) => HasEntry(p)' \/ Popped(p)'
    BY <1>2, <1>3, <1>4, <1>5 DEF HasEntry, InTime, Current, Popped, k
  <2>7. ~Popped(p)
    BY <1>3 DEF Popped, k
  <2>8. LookedOK(p)'
    BY <1>1, <1>3, <2>2, <2>3, <2>6, <2>7 DEF LookedOK, PlayerOK
  <2> QED BY <2>1, <2>5, <2>8 DEF PlayerOK
<1>8. ASSUME NEW q \in Players, q # p PROVE PlayerOK(q)'
  <2>1. SamePlayer(q)
    BY <1>2, <1>3, <1>4, <1>8 DEF SamePlayer
  <2>2. Elsewhere(task[k], q) /\ Elsewhere(task'[k], q)
    BY <1>3, <1>5, <1>8 DEF Elsewhere
  <2> QED BY <1>1, <1>3, <1>5, <2>1, <2>2, OtherPlayer
<1> QED BY <1>6, <1>7, <1>8, InvByPlayerNext

\* The popped entry becomes a tick, or is not the one that counts.
LEMMA DeliverCheckInv ==
    ASSUME Inv, DeliverCheck
    PROVE  Inv'
<1> DEFINE k == "scheduler"
<1>1. TypeOK /\ \A q \in Players : PlayerOK(q)
  BY InvByPlayer
<1>2. k \in Threads
  BY SchedulerIsThread
<1>3. PICK p \in Players, g \in Nat : p = task[k].p /\ g = task[k].gen
  BY <1>1, <1>2 DEF TypeOK, Tasks
<1>4. PICK c \in {"tick", "idle"} :
          /\ c = IF resident[p] /\ gen[p] = g THEN "tick" ELSE "idle"
          /\ Goto(k, c)
  BY <1>3 DEF DeliverCheck
<1>5. /\ task[k].pc = "check"
      /\ UNCHANGED <<now, resident, growing, gen, heap, latest, overlapped, commands, evicts>>
  BY DEF DeliverCheck
<1> HIDE DEF k
<1>6. /\ task' \in [Threads -> Tasks]
      /\ \A j \in Threads : j # k => task'[j] = task[j]
      /\ task'[k].pc = c
      /\ c # "idle" => task'[k].p = p
  BY <1>1, <1>2, <1>3, <1>4, GotoTask DEF PCs
<1>7. TypeOK'
  BY <1>1, <1>5, <1>6 DEF TypeOK
<1>8. PlayerOK(p)'
  <2>1. AbsentOK(p)'
    BY <1>1, <1>4, <1>5, <1>6 DEF AbsentOK, PlayerOK
  <2>2. \A j \in Threads : /\ InWindow(j, p) <=> InWindow(j, p)'
                           /\ WillRead(j, p) => WillRead(j, p)'
                           /\ InWindow(j, p) => task'[j] = task[j]
    BY <1>5, <1>6 DEF InWindow, WillRead
  <2>3. Refreshing(p) => Refreshing(p)'
    BY <2>2 DEF Refreshing
  <2>4. ASSUME NEW j \in Threads, InWindow(j, p), PublishesRight(j, p)
        PROVE  PublishesRight(j, p)'
    BY <1>5, <2>2, <2>4 DEF PublishesRight, InTime
  <2>5. WindowOK(p)'
    BY <1>1, <1>5, <2>2, <2>3, <2>4 DEF WindowOK, PlayerOK
  <2>6. resident[p] /\ Popped(p) => Refreshing(p)'
    BY <1>2, <1>3, <1>4, <1>6 DEF Popped, Refreshing, WillRead, k
  <2>7. HasEntry(p) => HasEntry(p)'
    BY <1>5 DEF HasEntry, InTime, Current
  <2>8. LookedOK(p)'
    BY <1>1, <1>5, <2>2, <2>3, <2>6, <2>7 DEF LookedOK, PlayerOK
  <2> QED BY <2>1, <2>5, <2>8 DEF PlayerOK
<1>9. ASSUME NEW q \in Players, q # p PROVE PlayerOK(q)'
  <2>1. SamePlayer(q)
    BY <1>5 DEF SamePlayer
  <2>2. Elsewhere(task[k], q) /\ Elsewhere(task'[k], q)
    BY <1>3, <1>4, <1>6, <1>9 DEF Elsewhere
  <2> QED BY <1>1, <1>2, <1>6, <2>1, <2>2, OtherPlayer
<1> QED BY <1>7, <1>8, <1>9, InvByPlayerNext

\* The tick settles the plots and is followed by a read.
LEMMA DeliverTickInv ==
    ASSUME Inv, DeliverTick
    PROVE  Inv'
<1> DEFINE k == "scheduler"
<1>1. TypeOK /\ \A q \in Players : PlayerOK(q)
  BY InvByPlayer
<1>2. k \in Threads
  BY SchedulerIsThread
<1>3. PICK p \in Players : p = task[k].p
  BY <1>1, <1>2 DEF TypeOK, Tasks
<1>4. PICK S \in SUBSET Times : growing' = [growing EXCEPT ![p] = S]
  <2>1. growing[p] \in SUBSET Times /\ growing = [growing EXCEPT ![p] = growing[p]]
    BY <1>1 DEF TypeOK
  <2>2. Settled(p) \in SUBSET Times
    BY <1>1, SettledType
  <2> QED BY <1>3, <2>1, <2>2 DEF DeliverTick
<1>5. /\ task[k].pc = "tick" /\ Goto(k, "read")
      /\ UNCHANGED <<now, resident, gen, heap, latest, overlapped, commands, evicts>>
  BY DEF DeliverTick, AfterTick
<1> HIDE DEF k
<1>6. /\ task' \in [Threads -> Tasks]
      /\ \A j \in Threads : j # k => task'[j] = task[j]
      /\ task'[k].pc = "read" /\ task'[k].p = p
  BY <1>1, <1>2, <1>3, <1>5, GotoTask DEF PCs
<1>7. TypeOK'
  BY <1>1, <1>4, <1>5, <1>6 DEF TypeOK
<1>8. PlayerOK(p)'
  <2>1. AbsentOK(p)'
    BY <1>1, <1>3, <1>5, <1>6 DEF AbsentOK, PlayerOK
  <2>2. Refreshing(p)'
    BY <1>2, <1>6 DEF Refreshing, WillRead
  <2>3. \A j \in Threads : /\ InWindow(j, p)' => InWindow(j, p)
                           /\ InWindow(j, p)' => task'[j] = task[j]
    BY <1>5, <1>6 DEF InWindow
  <2>4. WindowOK(p)'
    BY <1>1, <1>5, <2>2, <2>3 DEF WindowOK, PlayerOK
  <2> QED BY <2>1, <2>2, <2>4 DEF PlayerOK, LookedOK
<1>9. ASSUME NEW q \in Players, q # p PROVE PlayerOK(q)'
  <2>1. SamePlayer(q)
    BY <1>1, <1>4, <1>5, <1>9 DEF SamePlayer, TypeOK
  <2>2. Elsewhere(task[k], q) /\ Elsewhere(task'[k], q)
    BY <1>3, <1>6, <1>9 DEF Elsewhere
  <2> QED BY <1>1, <1>2, <1>6, <2>1, <2>2, OtherPlayer
<1> QED BY <1>7, <1>8, <1>9, InvByPlayerNext

-----------------------------------------------------------------------------
(* Activation and eviction.                                                *)

\* No task is at work for p: its deadline is published in the same step.
LEMMA Republished ==
    ASSUME TypeOK, NEW p \in Players, task' = task,
           \A k \in Threads : task[k].p = p => task[k].pc \in {"idle", "check"},
           ~resident'[p] \/ growing'[p] = {} \/ HasEntry(p)'
    PROVE  PlayerOK(p)'
<1>1. AbsentOK(p)'
  BY DEF AbsentOK
<1>2. \A k \in Threads : ~InWindow(k, p)'
  BY DEF InWindow
<1> QED BY <1>1, <1>2 DEF PlayerOK, WindowOK, LookedOK

\* An entry for the earliest of the plots S counts and is in time.
LEMMA PublishedEntry ==
    ASSUME NEW p \in Players, NEW S \in SUBSET Times, S # {}, NEW g \in Nat,
           growing'[p] = S, gen'[p] = g, latest'[p] = g,
           [p |-> p, at |-> NextTickAt(S), gen |-> g] \in heap'
    PROVE  HasEntry(p)'
<1> DEFINE e == [p |-> p, at |-> NextTickAt(S), gen |-> g]
<1>1. InTime(p, e.at)'
  BY NextTickAtIsLeast DEF InTime
<1> QED BY <1>1 DEF HasEntry, Current

LEMMA ActivateInv ==
    ASSUME Inv, NEW p \in Players, Activate(p)
    PROVE  Inv'
<1>1. TypeOK /\ \A q \in Players : PlayerOK(q)
  BY InvByPlayer
<1>2. PICK S \in SUBSET Times : S = Settled(p)
  BY <1>1, SettledType
<1>3. /\ growing' = [growing EXCEPT ![p] = S]
      /\ resident' = [resident EXCEPT ![p] = TRUE]
      /\ overlapped' = [overlapped EXCEPT ![p] = FALSE]
      /\ ~resident[p]
      /\ UNCHANGED <<now, task, commands, evicts>>
  BY <1>2 DEF Activate
<1>4. growing' \in [Players -> SUBSET Times] /\ growing'[p] = S
  BY <1>1, <1>3 DEF TypeOK
<1>5. CASE S = {}
  <2>1. gen' = [gen EXCEPT ![p] = 0] /\ latest' = [latest EXCEPT ![p] = 0] /\ heap' = heap
    BY <1>2, <1>5 DEF Activate
  <2>2. TypeOK'
    BY <1>1, <1>3, <1>4, <2>1 DEF TypeOK
  <2>3. PlayerOK(p)'
    BY <1>1, <1>3, <1>4, <1>5, Republished DEF PlayerOK, AbsentOK
  <2>4. ASSUME NEW q \in Players, q # p PROVE PlayerOK(q)'
    <3>1. SamePlayer(q)
      BY <1>1, <1>3, <2>1, <2>4 DEF SamePlayer, TypeOK
    <3> QED BY <1>1, <1>3, <3>1, NothingFor
  <2> QED BY <2>2, <2>3, <2>4, InvByPlayerNext
<1>6. CASE S # {}
  <2>1. /\ gen' = [gen EXCEPT ![p] = 1] /\ latest' = [latest EXCEPT ![p] = 1]
        /\ heap' = heap \cup {[p |-> p, at |-> NextTickAt(S), gen |-> 1]}
    BY <1>2, <1>6 DEF Activate
  <2>2. NextTickAt(S) \in Times
    BY <1>6, NextTickAtIsLeast
  <2>3. TypeOK' /\ gen'[p] = 1 /\ latest'[p] = 1
    BY <1>1, <1>3, <1>4, <2>1, <2>2 DEF TypeOK, Entries
  <2>4. HasEntry(p)'
    BY <1>4, <1>6, <2>1, <2>3, PublishedEntry
  <2>5. PlayerOK(p)'
    BY <1>1, <1>3, <2>4, Republished DEF PlayerOK, AbsentOK
  <2>6. ASSUME NEW q \in Players, q # p PROVE PlayerOK(q)'
    <3>1. SamePlayer(q)
      BY <1>1, <1>3, <2>1, <2>6 DEF SamePlayer, TypeOK
    <3> QED BY <1>1, <1>3, <3>1, NothingFor
  <2> QED BY <2>3, <2>5, <2>6, InvByPlayerNext
<1> QED BY <1>5, <1>6

LEMMA EvictInv ==
    ASSUME Inv, NEW p \in Players, Evict(p)
    PROVE  Inv'
<1>1. TypeOK /\ \A q \in Players : PlayerOK(q)
  BY InvByPlayer
<1>2. PICK S \in SUBSET Times : S = Settled(p)
  BY <1>1, SettledType
<1>3. /\ growing' = [growing EXCEPT ![p] = S]
      /\ resident' = [resident EXCEPT ![p] = FALSE]
      /\ latest' = [latest EXCEPT ![p] = 0]
      /\ evicts < MaxEvicts /\ evicts' = evicts + 1
      /\ UNCHANGED <<now, gen, heap, task, overlapped, commands>>
  BY <1>2 DEF Evict
<1>4. TypeOK' /\ ~resident'[p]
  BY <1>1, <1>3 DEF TypeOK
<1>5. \A k \in Threads : task[k].pc \in {"idle", "check"}
  BY DEF Evict, Locked
<1>6. PlayerOK(p)'
  BY <1>1, <1>3, <1>4, <1>5, Republished
<1>7. ASSUME NEW q \in Players, q # p PROVE PlayerOK(q)'
  <2>1. SamePlayer(q)
    BY <1>1, <1>3, <1>7 DEF SamePlayer, TypeOK
  <2> QED BY <1>1, <1>3, <2>1, NothingFor
<1> QED BY <1>4, <1>6, <1>7, InvByPlayerNext

LEMMA EvictKeptInv ==
    ASSUME Inv, NEW p \in Players, EvictKept(p)
    PROVE  Inv'
<1>1. TypeOK /\ \A q \in Players : PlayerOK(q)
  BY InvByPlayer
<1>2. PICK S \in SUBSET Times : S = Settled(p)
  BY <1>1, SettledType
<1>3. /\ growing' = [growing EXCEPT ![p] = S]
      /\ overlapped' = [overlapped EXCEPT ![p] = FALSE]
      /\ evicts < MaxEvicts /\ evicts' = evicts + 1
      /\ UNCHANGED <<now, resident, task, commands>>
  BY <1>2 DEF EvictKept
<1>4. growing' \in [Players -> SUBSET Times] /\ growing'[p] = S
  BY <1>1, <1>3 DEF TypeOK
<1>5. \A k \in Threads : task[k].pc \in {"idle", "check"}
  BY DEF EvictKept, Locked
<1>6. CASE S = {}
  <2>1. latest' = [latest EXCEPT ![p] = 0] /\ UNCHANGED <<gen, heap>>
    BY <1>2, <1>6 DEF EvictKept
  <2>2. TypeOK'
    BY <1>1, <1>3, <1>4, <2>1 DEF TypeOK
  <2>3. PlayerOK(p)'
    BY <1>1, <1>3, <1>4, <1>5, <1>6, Republished
  <2>4. ASSUME NEW q \in Players, q # p PROVE PlayerOK(q)'
    <3>1. SamePlayer(q)
      BY <1>1, <1>3, <2>1, <2>4 DEF SamePlayer, TypeOK
    <3> QED BY <1>1, <1>3, <3>1, NothingFor
  <2> QED BY <2>2, <2>3, <2>4, InvByPlayerNext
<1>7. CASE S # {}
  <2>1. PICK g \in Nat : g = gen[p] + 1
    BY <1>1 DEF TypeOK
  <2>2. /\ gen' = [gen EXCEPT ![p] = g] /\ latest' = [latest EXCEPT ![p] = g]
        /\ heap' = heap \cup {[p |-> p, at |-> NextTickAt(S), gen |-> g]}
    BY <1>2, <1>7, <2>1 DEF EvictKept
  <2>3. NextTickAt(S) \in Times
    BY <1>7, NextTickAtIsLeast
  <2>4. TypeOK' /\ gen'[p] = g /\ latest'[p] = g
    BY <1>1, <1>3, <1>4, <2>2, <2>3 DEF TypeOK, Entries
  <2>5. HasEntry(p)'
    BY <1>4, <1>7, <2>2, <2>4, PublishedEntry
  <2>6. PlayerOK(p)'
    BY <1>1, <1>3, <1>5, <2>5, Republished
  <2>7. ASSUME NEW q \in Players, q # p PROVE PlayerOK(q)'
    <3>1. SamePlayer(q)
      BY <1>1, <1>3, <2>2, <2>7 DEF SamePlayer, TypeOK
    <3> QED BY <1>1, <1>3, <3>1, NothingFor
  <2> QED BY <2>4, <2>6, <2>7, InvByPlayerNext
<1> QED BY <1>6, <1>7

-----------------------------------------------------------------------------
(* The theorems.                                                           *)

\* Whatever goroutines, ticks and evictions do, the relay of an Actor's
\* deadline from heap to tick to read to publication has no gap, unless two
\* refreshes of the Actor overlapped.
THEOREM InvTheorem == Spec => []Inv
<1>1. Init => Inv
  BY InitInv
<1>2. Inv /\ [Next]_vars => Inv'
  <2> SUFFICES ASSUME Inv, [Next]_vars PROVE Inv'
    OBVIOUS
  <2>1. CASE UNCHANGED vars
    <3>1. TypeOK /\ \A q \in Players : PlayerOK(q)
      BY InvByPlayer
    <3>2. TypeOK'
      BY <2>1, <3>1 DEF vars, TypeOK
    <3>3. ASSUME NEW q \in Players PROVE PlayerOK(q)'
      <4>1. SamePlayer(q) /\ task' = task
        BY <2>1 DEF vars, SamePlayer
      <4> QED BY <3>1, <4>1, NothingFor
    <3> QED BY <3>2, <3>3, InvByPlayerNext
  <2>2. CASE Advance
    BY <2>2, AdvanceInv
  <2>3. CASE SchedulerStep
    BY <2>3, SchedulerIsThread, DropStaleInv, PopDueInv, DeliverCheckInv, DeliverTickInv,
       RefreshStepInv DEF SchedulerStep
  <2>4. CASE \E k \in Workers : RefreshStep(k) \/ \E p \in Players : Command(k, p)
    BY <2>4, RefreshStepInv, CommandInv DEF Threads
  <2>5. CASE \E p \in Players : Activate(p) \/ Evict(p) \/ EvictKept(p)
    BY <2>5, ActivateInv, EvictInv, EvictKeptInv
  <2> QED BY <2>1, <2>2, <2>3, <2>4, <2>5 DEF Next
<1> QED BY <1>1, <1>2, PTL DEF Spec

\* refreshActorDeadline does its job: between requests whose refreshes did not
\* overlap, an Actor with a growing plot has an entry that counts, that
\* deliverActorTick accepts and that is not too late, in every incarnation.
THEOREM DeadlineCoveredTheorem == Spec => []DeadlineCovered
<1>1. Inv => DeadlineCovered
  <2> SUFFICES ASSUME Inv, NEW p \in Players, resident[p], growing[p] # {}, Quiescent(p),
                      ~overlapped[p]
               PROVE  \E e \in heap : /\ e.p = p
                                      /\ Current(e)
                                      /\ e.gen = gen[p]
                                      /\ e.at <= NextTickAt(growing[p])
    BY DEF DeadlineCovered
  <2>1. HasEntry(p)
    <3>1. ~Refreshing(p) /\ (\A k \in Threads : ~InWindow(k, p))
      BY DEF Refreshing, WillRead, InWindow, Quiescent
    <3>2. ~Popped(p)
      BY SchedulerIsThread DEF Popped, Quiescent
    <3> QED BY <3>1, <3>2 DEF Inv, LookedAfter
  <2>2. NextTickAt(growing[p]) \in growing[p]
    BY NextTickAtIsLeast DEF Inv, TypeOK
  <2> QED BY <2>1, <2>2 DEF HasEntry, InTime
<1> QED BY <1>1, InvTheorem, PTL
=============================================================================
