-------------------------- MODULE FriendGiftProofs --------------------------
(***************************************************************************)
(* Proofs about FriendGift: for any set of gifts, any number of goroutines, *)
(* harvests and faults, a gift has one mail at most, is charged for only    *)
(* once accepted, and is charged for once.                                  *)
(***************************************************************************)
EXTENDS FriendGift, Functions, FiniteSetTheorems, WellFoundedInduction, TLAPS

-----------------------------------------------------------------------------
(***************************************************************************)
(* Sums.  The balance of a stack is a SumFunctionOnSet of the library, which*)
(* defines it by a recursive function over subsets that takes out an       *)
(* arbitrary but fixed element each time.  Any element may be taken out    *)
(* first; each induction is an argument about the least counterexample.    *)
(***************************************************************************)

\* A set of naturals has a least element.
LEMMA LeastElement ==
    ASSUME NEW T \in SUBSET Nat, T # {}
    PROVE  \E n \in T : \A m \in T : n <= m
<1>1. PICK n \in T : \A m \in T : ~ (<<m, n>> \in OpToRel(<, Nat))
  BY WFMin, NatLessThanWellFounded
<1>2. \A m \in T : ~ (m < n)
  BY <1>1 DEF OpToRel
<1> QED BY <1>2

-----------------------------------------------------------------------------

\* One step of the recursion, and its solution on the subsets of S.
SumStep(f, h, s) ==
    IF s = {} THEN 0
    ELSE LET x == CHOOSE y \in s : TRUE IN f[x] + h[s \ {x}]

SumIter(f, S) == CHOOSE h : h = [s \in SUBSET S |-> SumStep(f, h, s)]

LEMMA SumIsIter ==
    ASSUME NEW f, NEW S
    PROVE  SumFunctionOnSet(f, S) = SumIter(f, S)[S]
BY DEF SumFunctionOnSet, FoldFunctionOnSet, MapThenFoldSet, SumIter, SumStep

\* The subsets of at most k elements.
UpTo(S, k) == {s \in SUBSET S : Cardinality(s) <= k}

\* The recursion has a solution on the subsets of at most k elements.
LEMMA PartialSum ==
    ASSUME NEW f, NEW S, IsFiniteSet(S), NEW k \in Nat
    PROVE  \E h : h = [s \in UpTo(S, k) |-> SumStep(f, h, s)]
<1> DEFINE P(n) == \E h : h = [s \in UpTo(S, n) |-> SumStep(f, h, s)]
           T == {n \in Nat : ~P(n)}
<1>1. P(0)
  <2> DEFINE h == [s \in UpTo(S, 0) |-> 0]
  <2>1. \A s \in UpTo(S, 0) : s = {}
    BY FS_Subset, FS_CardinalityType, FS_EmptySet DEF UpTo
  <2>2. h = [s \in UpTo(S, 0) |-> SumStep(f, h, s)]
    BY <2>1 DEF SumStep
  <2> QED BY <2>2
<1>2. ASSUME NEW n \in Nat, P(n) PROVE P(n + 1)
  <2> PICK h : h = [s \in UpTo(S, n) |-> SumStep(f, h, s)]
    BY <1>2
  <2> DEFINE g == [s \in UpTo(S, n + 1) |-> SumStep(f, h, s)]
  <2>1. ASSUME NEW s \in UpTo(S, n + 1) PROVE SumStep(f, h, s) = SumStep(f, g, s)
    <3>1. CASE s = {} BY <3>1 DEF SumStep
    <3>2. CASE s # {}
      <4> DEFINE x == CHOOSE y \in s : TRUE
                 t == s \ {x}
      <4>1. x \in s BY <3>2
      <4>2. t \in UpTo(S, n) /\ t \in UpTo(S, n + 1)
        BY <4>1, FS_Subset, FS_RemoveElement, FS_CardinalityType DEF UpTo
      <4>3. h[t] = SumStep(f, h, t) BY <4>2
      <4>4. g[t] = SumStep(f, h, t) BY <4>2
      <4> HIDE DEF g
      <4> QED BY <3>2, <4>3, <4>4 DEF SumStep
    <3> QED BY <3>1, <3>2
  <2>2. g = [s \in UpTo(S, n + 1) |-> SumStep(f, g, s)]
    <3> HIDE DEF g
    <3>1. g = [s \in UpTo(S, n + 1) |-> SumStep(f, h, s)] BY DEF g
    <3> QED BY <3>1, <2>1
  <2> QED BY <2>2
<1>3. T = {}
  <2> HIDE DEF P
  <2>1. SUFFICES ASSUME T # {} PROVE FALSE OBVIOUS
  <2>2. PICK n \in T : \A m \in T : n <= m BY <2>1, LeastElement
  <2>3. n # 0 BY <1>1
  <2>4. n - 1 \in Nat /\ n - 1 \notin T BY <2>2, <2>3
  <2>5. P((n - 1) + 1) BY <2>4, <1>2
  <2> QED BY <2>5
<1> QED BY <1>3

\* ... and so on all subsets of a finite set.
LEMMA SumIterStep ==
    ASSUME NEW f, NEW S, IsFiniteSet(S), NEW s \in SUBSET S
    PROVE  SumIter(f, S)[s] = SumStep(f, SumIter(f, S), s)
<1> DEFINE Solves(h) == h = [t \in SUBSET S |-> SumStep(f, h, t)]
<1>1. Cardinality(S) \in Nat BY FS_CardinalityType
<1>2. UpTo(S, Cardinality(S)) = SUBSET S BY FS_Subset DEF UpTo
<1>3. \E h : h = [t \in SUBSET S |-> SumStep(f, h, t)]
  <2>1. \E h : h = [t \in UpTo(S, Cardinality(S)) |-> SumStep(f, h, t)] BY <1>1, PartialSum
  <2> QED BY <2>1, <1>2
<1>4. \E h : Solves(h) BY <1>3
<1>5. Solves(CHOOSE h : Solves(h))
  <2> HIDE DEF Solves
  <2> QED BY <1>4
<1>6. SumIter(f, S) = [t \in SUBSET S |-> SumStep(f, SumIter(f, S), t)]
  BY <1>5 DEF SumIter
<1> QED BY <1>6

\* The solution on a larger set agrees with the one on a smaller.
LEMMA SumIterAgrees ==
    ASSUME NEW f, NEW S, IsFiniteSet(S), NEW R \in SUBSET S, NEW s \in SUBSET R
    PROVE  SumIter(f, S)[s] = SumIter(f, R)[s]
<1> DEFINE Differ == {t \in SUBSET R : SumIter(f, S)[t] # SumIter(f, R)[t]}
           T == {Cardinality(t) : t \in Differ}
<1>1. \A t \in SUBSET R : t \in SUBSET S /\ IsFiniteSet(t) BY FS_Subset
<1>2. IsFiniteSet(R) BY FS_Subset
<1>3. SUFFICES ASSUME Differ # {} PROVE FALSE OBVIOUS
<1>4. T \in SUBSET Nat BY <1>1, FS_CardinalityType
<1>5. T # {} BY <1>3
<1>6. PICK n \in T : \A m \in T : n <= m BY <1>4, <1>5, LeastElement
<1>7. PICK t \in Differ : Cardinality(t) = n BY <1>6
<1>8. t \in SUBSET R /\ t \in SUBSET S BY <1>1
<1>9. SumIter(f, S)[t] = SumStep(f, SumIter(f, S), t) BY <1>8, SumIterStep
<1>10. SumIter(f, R)[t] = SumStep(f, SumIter(f, R), t) BY <1>8, <1>2, SumIterStep
<1>11. CASE t = {} BY <1>9, <1>10, <1>11 DEF SumStep
<1>12. CASE t # {}
  <2> DEFINE x == CHOOSE y \in t : TRUE
             u == t \ {x}
  <2>1. x \in t BY <1>12
  <2>2. Cardinality(u) < Cardinality(t)
    <3> HIDE DEF x
    <3>1. IsFiniteSet(t) BY <1>1, <1>8
    <3>2. Cardinality(u) = Cardinality(t) - 1 BY <2>1, <3>1, FS_RemoveElement
    <3> QED BY <3>1, <3>2, FS_CardinalityType
  <2>3. u \notin Differ
    <3>1. Cardinality(u) \notin T BY <2>2, <1>4, <1>6, <1>7
    <3> QED BY <3>1
  <2>4. SumIter(f, S)[u] = SumIter(f, R)[u] BY <2>3, <1>8
  <2>5. SumStep(f, SumIter(f, S), t) = SumStep(f, SumIter(f, R), t)
    BY <1>12, <2>4 DEF SumStep
  <2> QED BY <2>5, <1>9, <1>10
<1> QED BY <1>11, <1>12

-----------------------------------------------------------------------------

\* The sum over no element is 0.
THEOREM SumEmpty == ASSUME NEW f PROVE SumFunctionOnSet(f, {}) = 0
<1>1. SumIter(f, {})[{}] = SumStep(f, SumIter(f, {}), {})
  BY SumIterStep, FS_EmptySet
<1> QED BY <1>1, SumIsIter DEF SumStep

\* The element that the recursion takes out first.
LEMMA SumFirst ==
    ASSUME NEW f, NEW S, IsFiniteSet(S), S # {}
    PROVE  \E x \in S : SumFunctionOnSet(f, S) = f[x] + SumFunctionOnSet(f, S \ {x})
<1> DEFINE x == CHOOSE y \in S : TRUE
<1>1. x \in S OBVIOUS
<1>2. SumFunctionOnSet(f, S) = SumStep(f, SumIter(f, S), S)
  BY SumIsIter, SumIterStep
<1>3. SumIter(f, S)[S \ {x}] = SumFunctionOnSet(f, S \ {x})
  BY SumIsIter, SumIterAgrees
<1>4. SumStep(f, SumIter(f, S), S) = f[x] + SumIter(f, S)[S \ {x}]
  BY <1>1 DEF SumStep
<1> QED BY <1>1, <1>2, <1>3, <1>4

\* A sum of integers is an integer.
THEOREM SumType ==
    ASSUME NEW f, NEW S, IsFiniteSet(S), \A x \in S : f[x] \in Int
    PROVE  SumFunctionOnSet(f, S) \in Int
<1> DEFINE Bad == {t \in SUBSET S : SumFunctionOnSet(f, t) \notin Int}
           T == {Cardinality(t) : t \in Bad}
<1>1. \A t \in SUBSET S : IsFiniteSet(t) BY FS_Subset
<1>2. SUFFICES ASSUME Bad # {} PROVE FALSE OBVIOUS
<1>3. T \in SUBSET Nat /\ T # {} BY <1>1, <1>2, FS_CardinalityType
<1>4. PICK n \in T : \A m \in T : n <= m BY <1>3, LeastElement
<1>5. PICK t \in Bad : Cardinality(t) = n BY <1>4
<1>6. t # {} BY SumEmpty
<1>7. PICK x \in t : SumFunctionOnSet(f, t) = f[x] + SumFunctionOnSet(f, t \ {x})
  BY <1>1, <1>6, SumFirst
<1>8. Cardinality(t \ {x}) < Cardinality(t) /\ Cardinality(t \ {x}) \in Nat
  BY <1>1, FS_RemoveElement, FS_CardinalityType
<1>9. t \ {x} \notin Bad BY <1>3, <1>4, <1>5, <1>8
<1> QED BY <1>7, <1>9

\* Any element may be taken out of a sum first.
THEOREM SumPick ==
    ASSUME NEW f, NEW S, IsFiniteSet(S), \A x \in S : f[x] \in Int, NEW e \in S
    PROVE  SumFunctionOnSet(f, S) = f[e] + SumFunctionOnSet(f, S \ {e})
<1> DEFINE Sum(t) == SumFunctionOnSet(f, t)
           Bad == {t \in SUBSET S : \E g \in t : Sum(t) # f[g] + Sum(t \ {g})}
           T == {Cardinality(t) : t \in Bad}
<1>1. \A t \in SUBSET S : IsFiniteSet(t) /\ Sum(t) \in Int BY FS_Subset, SumType
<1>2. SUFFICES ASSUME Bad # {} PROVE FALSE OBVIOUS
<1>3. T \in SUBSET Nat /\ T # {} BY <1>1, <1>2, FS_CardinalityType
<1>4. PICK n \in T : \A m \in T : n <= m BY <1>3, LeastElement
<1>5. PICK t \in Bad : Cardinality(t) = n BY <1>4
<1> HIDE DEF Sum
<1>6. PICK g \in t : Sum(t) # f[g] + Sum(t \ {g}) BY <1>5
<1>7. PICK x \in t : Sum(t) = f[x] + Sum(t \ {x})
  <2>1. IsFiniteSet(t) /\ t # {} BY <1>1, <1>6
  <2> QED BY <2>1, SumFirst DEF Sum
<1>8. x # g BY <1>6, <1>7
<1>9. ASSUME NEW y \in t PROVE t \ {y} \notin Bad
  <2>1. Cardinality(t \ {y}) < Cardinality(t) /\ Cardinality(t \ {y}) \in Nat
    <3>1. IsFiniteSet(t) BY <1>1
    <3>2. Cardinality(t \ {y}) = Cardinality(t) - 1 BY <3>1, FS_RemoveElement
    <3>3. IsFiniteSet(t \ {y}) BY <3>1, FS_RemoveElement
    <3> QED BY <3>1, <3>2, <3>3, FS_CardinalityType
  <2>2. Cardinality(t \ {y}) \notin T BY <2>1, <1>3, <1>4, <1>5
  <2> QED BY <2>2
<1> DEFINE rest == Sum((t \ {x}) \ {g})
<1>10. Sum(t \ {x}) = f[g] + rest BY <1>8, <1>9
<1>11. Sum(t \ {g}) = f[x] + rest
  <2>1. Sum(t \ {g}) = f[x] + Sum((t \ {g}) \ {x}) BY <1>8, <1>9
  <2>2. (t \ {g}) \ {x} = (t \ {x}) \ {g} OBVIOUS
  <2> QED BY <2>1, <2>2
<1>12. f[x] \in Int /\ f[g] \in Int /\ rest \in Int BY <1>1
<1> HIDE DEF rest
<1>13. f[x] + (f[g] + rest) = f[g] + (f[x] + rest) BY <1>12
<1> QED BY <1>6, <1>7, <1>10, <1>11, <1>13

-----------------------------------------------------------------------------
(* Types.                                                                  *)

AwaitTasks == [phase : Phases, gift : Gifts, current : Nat, inc : Nat, waiting : BOOLEAN]

\* Which of the three forms a goroutine's task has.
LEMMA TaskForms ==
    ASSUME TypeOK, NEW w \in Workers
    PROVE  /\ Suspended(w) => task[w] \in AwaitTasks
           /\ task[w].phase = "mark" => task[w] \in [phase : {"mark"}, revision : Nat]
           /\ task[w].phase = "idle" => task[w] = Idle
           /\ task[w].phase \in Phases \cup {"mark", "idle"}
<1>1. task[w] \in Tasks BY DEF TypeOK
<1> QED BY <1>1 DEF Tasks, AwaitTasks, Suspended, Phases, Idle

\* The tasks that actions set.
LEMMA TaskValues ==
    /\ Idle \in Tasks
    /\ \A n \in Nat : Mark(n) \in Tasks
    /\ \A t \in AwaitTasks : t \in Tasks /\ \A p \in Phases : [t EXCEPT !.phase = p] \in AwaitTasks
    /\ \A t \in AwaitTasks, b \in BOOLEAN : [t EXCEPT !.waiting = b] \in AwaitTasks
<1>1. Idle \in Tasks BY DEF Idle, Tasks
<1>2. \A n \in Nat : Mark(n) \in Tasks BY DEF Mark, Tasks
<1>3. \A t \in AwaitTasks : t \in Tasks /\ \A p \in Phases : [t EXCEPT !.phase = p] \in AwaitTasks
  BY DEF AwaitTasks, Tasks
<1>4. \A t \in AwaitTasks, b \in BOOLEAN : [t EXCEPT !.waiting = b] \in AwaitTasks
  BY DEF AwaitTasks
<1> QED BY <1>1, <1>2, <1>3, <1>4

LEMMA SetType ==
    ASSUME TypeOK, NEW w \in Workers, NEW t \in Tasks, Set(w, t)
    PROVE  task' \in [Workers -> Tasks]
BY DEF Set, TypeOK

LEMMA FaultType == ASSUME TypeOK, Fault PROVE faults' \in 0..MaxFaults
BY GiftAssumption DEF Fault, TypeOK

\* What the commands leave of the Actor's state.
LEMMA FailedState ==
    ASSUME NEW s \in States, NEW g \in Gifts, NEW s2,
           s2 = [s EXCEPT !.revision = @ + 1, !.results[g] = "failed"]
    PROVE  /\ s2 \in States
           /\ s2.crops = s.crops /\ s2.sold = s.sold /\ s2.harvested = s.harvested
           /\ s2.results = [s.results EXCEPT ![g] = "failed"]
<1> DEFINE v == s.revision + 1
           f == [s.results EXCEPT ![g] = "failed"]
<1>1. v \in Nat /\ f \in [Gifts -> Results] BY DEF States, Results
<1>2. s2 = [s EXCEPT !.revision = v, !.results = f] BY Zenon DEF States
<1> HIDE DEF v, f
<1>3. s2 \in States BY <1>1, <1>2 DEF States
<1>4. /\ s2.crops = s.crops /\ s2.sold = s.sold /\ s2.harvested = s.harvested
      /\ s2.results = f
  BY <1>2 DEF States
<1> QED BY <1>3, <1>4 DEF f

LEMMA ChargedState ==
    ASSUME NEW s \in States, NEW g \in Gifts, NEW c \in Nat, NEW s2,
           s2 = [s EXCEPT !.crops = c, !.revision = @ + 1, !.results[g] = "ok"]
    PROVE  /\ s2 \in States
           /\ s2.crops = c /\ s2.sold = s.sold /\ s2.harvested = s.harvested
           /\ s2.results = [s.results EXCEPT ![g] = "ok"]
<1> DEFINE v == s.revision + 1
           f == [s.results EXCEPT ![g] = "ok"]
<1>1. v \in Nat /\ f \in [Gifts -> Results] BY DEF States, Results
<1>2. s2 = [s EXCEPT !.crops = c, !.revision = v, !.results = f] BY Zenon DEF States
<1> HIDE DEF v, f
<1>3. s2 \in States BY <1>1, <1>2 DEF States
<1>4. /\ s2.crops = c /\ s2.sold = s.sold /\ s2.harvested = s.harvested
      /\ s2.results = f
  BY <1>2 DEF States
<1> QED BY <1>3, <1>4 DEF f

LEMMA SoldState ==
    ASSUME NEW s \in States, NEW n \in Nat, n <= s.crops, NEW s2,
           s2 = [s EXCEPT !.crops = @ - n, !.sold = @ + n, !.revision = @ + 1]
    PROVE  /\ s2 \in States
           /\ s2.crops = s.crops - n /\ s2.sold = s.sold + n
           /\ s2.harvested = s.harvested /\ s2.results = s.results
<1> DEFINE c == s.crops - n
           d == s.sold + n
           v == s.revision + 1
<1>1. c \in Nat /\ d \in Nat /\ v \in Nat BY DEF States
<1>2. s2 = [s EXCEPT !.crops = c, !.sold = d, !.revision = v] BY Zenon DEF States
<1> HIDE DEF c, d, v
<1>3. s2 \in States BY <1>1, <1>2 DEF States
<1>4. s2.crops = c /\ s2.sold = d /\ s2.harvested = s.harvested /\ s2.results = s.results
  BY <1>2 DEF States
<1> QED BY <1>3, <1>4 DEF c, d

LEMMA HarvestedState ==
    ASSUME NEW s \in States, NEW s2,
           s2 = [s EXCEPT !.crops = @ + 1, !.harvested = @ + 1, !.revision = @ + 1]
    PROVE  /\ s2 \in States
           /\ s2.crops = s.crops + 1 /\ s2.sold = s.sold
           /\ s2.harvested = s.harvested + 1 /\ s2.results = s.results
<1> DEFINE c == s.crops + 1
           h == s.harvested + 1
           v == s.revision + 1
<1>1. c \in Nat /\ h \in Nat /\ v \in Nat BY DEF States
<1>2. s2 = [s EXCEPT !.crops = c, !.harvested = h, !.revision = v] BY Zenon DEF States
<1> HIDE DEF c, h, v
<1>3. s2 \in States BY <1>1, <1>2 DEF States
<1>4. s2.crops = c /\ s2.sold = s.sold /\ s2.harvested = h /\ s2.results = s.results
  BY <1>2 DEF States
<1> QED BY <1>3, <1>4 DEF c, h

\* A draft can be paid for: what is left of the stack is a natural number.
LEMMA Payable ==
    ASSUME TypeOK, DraftsPayable, NEW w \in Workers, Suspended(w)
    PROVE  /\ task[w] \in AwaitTasks
           /\ Quantity[task[w].gift] \in Nat
           /\ task[w].current - Quantity[task[w].gift] \in Nat
<1>1. task[w] \in AwaitTasks BY TaskForms
<1>2. task[w].gift \in Gifts /\ task[w].current \in Nat BY <1>1 DEF AwaitTasks
<1>3. Quantity[task[w].gift] \in Nat BY <1>2, GiftAssumption
<1>4. Quantity[task[w].gift] <= task[w].current BY DEF DraftsPayable
<1> QED BY <1>1, <1>2, <1>3, <1>4

\* What the continuation leaves of the Actor's state.
LEMMA CommitState ==
    ASSUME TypeOK, DraftsPayable, NEW w \in Workers, Commit(w)
    PROVE  /\ state' \in States
           /\ state'.crops = task[w].current - Quantity[task[w].gift]
           /\ state'.sold = state.sold /\ state'.harvested = state.harvested
           /\ state'.results = [state.results EXCEPT ![task[w].gift] = "ok"]
<1> DEFINE g == task[w].gift
           c == task[w].current - Quantity[task[w].gift]
<1>1. Suspended(w) BY DEF Commit, Suspended, Phases
<1>2. c \in Nat /\ g \in Gifts BY <1>1, Payable DEF AwaitTasks
<1>3. state \in States BY DEF TypeOK
<1>4. state' = [state EXCEPT !.crops = c, !.revision = @ + 1, !.results[g] = "ok"] BY DEF Commit
<1>5. state' \in States BY <1>2, <1>3, <1>4, ChargedState
<1>6. /\ state'.crops = c /\ state'.sold = state.sold /\ state'.harvested = state.harvested
  BY <1>2, <1>3, <1>4 DEF States
<1>7. state'.results = [state.results EXCEPT ![g] = "ok"]
  BY <1>2, <1>3, <1>4 DEF States
<1> QED BY <1>5, <1>6, <1>7

-----------------------------------------------------------------------------
(* The type invariant.                                                     *)

LEMMA TypeStep ==
    ASSUME TypeOK, DraftsPayable, Next
    PROVE  TypeOK'
<1> USE TaskForms, TaskValues, FaultType
<1>1. ASSUME NEW w \in Workers, NEW g \in Gifts, GiftFails(w, g) PROVE TypeOK'
  <2>1. state' \in States BY <1>1, FailedState DEF GiftFails, TypeOK
  <2>2. task' \in [Workers -> Tasks]
    BY <1>1, SetType DEF GiftFails, TypeOK, States
  <2> QED BY <1>1, <2>1, <2>2 DEF GiftFails, TypeOK, Memory, Mail
<1>2. ASSUME NEW w \in Workers, NEW g \in Gifts, GiftSuspends(w, g) PROVE TypeOK'
  <2>1. [phase |-> "lookup", gift |-> g, current |-> state.crops, inc |-> inc, waiting |-> TRUE]
          \in AwaitTasks
    BY DEF AwaitTasks, Phases, TypeOK, States
  <2>2. task' \in [Workers -> Tasks] BY <1>2, <2>1, SetType DEF GiftSuspends
  <2> QED BY <1>2, <2>2 DEF GiftSuspends, TypeOK, Memory, Mail
<1>3. ASSUME NEW w \in Workers, NEW n \in 1..(InitialCrops + MaxHarvests), Sell(w, n) PROVE TypeOK'
  <2>1. n \in Nat BY GiftAssumption
  <2>2. state' \in States BY <1>3, <2>1, SoldState DEF Sell, TypeOK
  <2>3. task' \in [Workers -> Tasks] BY <1>3, SetType DEF Sell, TypeOK, States
  <2> QED BY <1>3, <2>2, <2>3 DEF Sell, TypeOK, Memory, Mail
<1>4. ASSUME NEW w \in Workers, Harvest(w) PROVE TypeOK'
  <2>1. state' \in States BY <1>4, HarvestedState DEF Harvest, TypeOK
  <2>2. task' \in [Workers -> Tasks] BY <1>4, SetType DEF Harvest, TypeOK, States
  <2> QED BY <1>4, <2>1, <2>2 DEF Harvest, TypeOK, Memory, Mail
<1>5. ASSUME NEW w \in Workers, MarkDirty(w) PROVE TypeOK'
  <2>1. task' \in [Workers -> Tasks] BY <1>5, SetType DEF MarkDirty
  <2>2. marked' \in Nat BY <1>5 DEF MarkDirty, TypeOK
  <2> QED BY <1>5, <2>1, <2>2 DEF MarkDirty, TypeOK, Mail
<1>6. ASSUME NEW w \in Workers, Lookup(w) \/ Claim(w) \/ InsertMail(w) PROVE TypeOK'
  <2>1. Suspended(w) BY <1>6 DEF Lookup, Claim, InsertMail, Suspended, Phases
  <2>2. task[w].gift \in Gifts BY <2>1 DEF AwaitTasks
  <2>3. \E p \in Phases : To(w, p)
    BY <1>6 DEF Lookup, Claim, InsertMail, Phases
  <2>4. task' \in [Workers -> Tasks] BY <2>1, <2>3, SetType DEF To
  <2>5. claimed' \in SUBSET Gifts BY <1>6, <2>2 DEF Lookup, Claim, InsertMail, TypeOK, Mail
  <2>6. mails' \in [Gifts -> Nat] BY <1>6, <2>2 DEF Lookup, Claim, InsertMail, TypeOK, Mail
  <2> QED BY <1>6, <2>4, <2>5, <2>6 DEF Lookup, Claim, InsertMail, TypeOK, Memory, Mail
<1>7. ASSUME NEW w \in Workers, Commit(w) PROVE TypeOK'
  <2>1. Suspended(w) BY <1>7 DEF Commit, Suspended, Phases
  <2>2. task[w].gift \in Gifts BY <2>1 DEF AwaitTasks
  <2>3. state' \in States
    BY <1>7, CommitState
  <2>4. task' \in [Workers -> Tasks]
    BY <1>7, SetType DEF Commit, TypeOK, States
  <2> QED BY <1>7, <2>3, <2>4 DEF Commit, TypeOK, Memory, Mail
<1>8. ASSUME NEW w \in Workers, CommitElsewhere(w) \/ MailboxFull(w) PROVE TypeOK'
  <2>1. task' \in [Workers -> Tasks]
    BY <1>8, SetType DEF CommitElsewhere, MailboxFull, Complete
  <2> QED
    BY <1>8, <2>1 DEF CommitElsewhere, MailboxFull, TypeOK, Memory, Mail
<1>9. ASSUME NEW w \in Workers, CallerTimesOut(w) PROVE TypeOK'
  <2>1. task' \in [Workers -> Tasks]
    BY <1>9, SetType DEF CallerTimesOut
  <2> QED
    BY <1>9, <2>1 DEF CallerTimesOut, TypeOK, Memory, Mail
<1>10. ASSUME NEW w \in Workers, MailFails(w) PROVE TypeOK'
  <2>1. task' \in [Workers -> Tasks] BY <1>10, SetType DEF MailFails, Complete
  <2>2. Suspended(w) BY <1>10 DEF MailFails, Suspended, Phases
  <2>3. task[w].gift \in Gifts BY <2>2 DEF AwaitTasks
  <2>4. late' \in SUBSET [gift : Gifts, phase : {"claim", "insert"}]
    BY <1>10, <2>3 DEF MailFails, TypeOK
  <2> QED BY <1>10, <2>1, <2>4 DEF MailFails, TypeOK, Memory
<1>11. ASSUME NEW s \in late, LateClaim(s) \/ LateInsert(s) PROVE TypeOK'
  <2>1. s \in [gift : Gifts, phase : {"claim", "insert"}] BY DEF TypeOK
  <2>2. late' \in SUBSET [gift : Gifts, phase : {"claim", "insert"}]
    BY <1>11, <2>1 DEF LateClaim, LateInsert, TypeOK
  <2>3. mails' \in [Gifts -> Nat] BY <1>11, <2>1 DEF LateClaim, LateInsert, TypeOK
  <2> QED BY <1>11, <2>1, <2>2, <2>3 DEF LateClaim, LateInsert, TypeOK, Memory
<1>12. ASSUME Flush \/ EvictSave \/ EvictRemove PROVE TypeOK'
  <2>1. CASE Flush BY <2>1 DEF Flush, TypeOK, Mail
  <2>2. CASE EvictSave
    <3>1. marked' \in Nat /\ evicting' \in BOOLEAN /\ faults' \in 0..MaxFaults
      BY <2>2 DEF EvictSave, TypeOK
    <3> QED BY <2>2, <3>1 DEF EvictSave, TypeOK, Mail
  <2>3. CASE EvictRemove
    <3>1. inc \in Nat BY DEF TypeOK
    <3>2. inc' = inc + 1 /\ evicting' = FALSE BY <2>3, Zenon DEF EvictRemove
    <3>3. inc' \in Nat BY <3>1, <3>2
    <3>4. evicting' \in BOOLEAN BY <3>2
    <3> QED BY <2>3, <3>3, <3>4 DEF EvictRemove, TypeOK, Mail
  <2> QED BY <1>12, <2>1, <2>2, <2>3
<1>13. ASSUME Crash PROVE TypeOK'
  <2>1. \A w \in Workers : task[w].phase \in {"claim", "insert"} => task[w].gift \in Gifts
    BY DEF Suspended, Phases, AwaitTasks
  <2>2. late' \in SUBSET [gift : Gifts, phase : {"claim", "insert"}]
    BY <1>13, <2>1 DEF Crash, TypeOK
  <2>3. task' \in [Workers -> Tasks] BY <1>13 DEF Crash
  <2>4. /\ faults' \in 0..MaxFaults /\ inc' \in Nat
        /\ marked' \in Nat /\ evicting' \in BOOLEAN
    <3>1. inc \in Nat BY DEF TypeOK
    <3>2. inc' = inc + 1 /\ evicting' = FALSE /\ marked' = 0 BY <1>13, Zenon DEF Crash
    <3>3. faults' \in 0..MaxFaults BY <1>13 DEF Crash
    <3>4. evicting' \in BOOLEAN BY <3>2
    <3>5. inc' \in Nat /\ marked' \in Nat BY <3>1, <3>2
    <3> QED BY <3>3, <3>4, <3>5
  <2>5. UNCHANGED <<saved, claimed, mails, overlapped>> /\ state' = saved
    BY <1>13 DEF Crash
  <2> QED BY <2>2, <2>3, <2>4, <2>5 DEF TypeOK
<1> QED
  BY <1>1, <1>2, <1>3, <1>4, <1>5, <1>6, <1>7, <1>8, <1>9, <1>10, <1>11, <1>12, <1>13
  DEF Next, Begin, Proceed, Interrupt

-----------------------------------------------------------------------------
(* One mail, and the right to insert it.                                   *)

\* A step of the mailbox or of memory hands out no right to insert a mail.
LEMMA RightsKept ==
    ASSUME InsertRights, OneMail, UNCHANGED Mail,
           \A w \in Workers : task'[w].phase = "insert" =>
               task[w].phase = "insert" /\ task'[w].gift = task[w].gift
    PROVE  InsertRights' /\ OneMail'
BY DEF InsertRights, OneMail, Mail

\* A goroutine that is given another task holds no right, unless the task is to
\* insert.
LEMMA RightsLeft ==
    ASSUME TypeOK, InsertRights, OneMail, UNCHANGED Mail,
           NEW w \in Workers, NEW t, Set(w, t), t.phase # "insert"
    PROVE  InsertRights' /\ OneMail'
<1>1. \A v \in Workers : task'[v].phase = "insert" => 
               task[v].phase = "insert" /\ task'[v].gift = task[v].gift
  BY DEF Set, TypeOK
<1> QED BY <1>1, RightsKept

LEMMA ClaimRights ==
    ASSUME TypeOK, InsertRights, OneMail, NEW w \in Workers, Claim(w)
    PROVE  InsertRights' /\ OneMail'
<1> DEFINE g == task[w].gift
<1>1. task[w] \in AwaitTasks BY TaskForms DEF Claim, Suspended, Phases
<1>2. g \in Gifts BY <1>1 DEF AwaitTasks
<1>3. UNCHANGED <<mails, late>> /\ claimed' = claimed \cup {g} BY DEF Claim
<1>4. \A v \in Workers \ {w} : task'[v] = task[v] BY DEF Claim, To, Set, TypeOK
<1>5. task'[w].gift = g BY <1>1 DEF Claim, To, Set, TypeOK, AwaitTasks
<1>6. CASE g \in claimed
  <2>1. task'[w].phase = "resume" BY <1>1, <1>6 DEF Claim, Unclaimed, To, Set, TypeOK, AwaitTasks
  <2>2. claimed' = claimed BY <1>3, <1>6
  <2>3. \A v \in Workers : task'[v].phase = "insert" =>
               task[v].phase = "insert" /\ task'[v].gift = task[v].gift
    BY <1>4, <2>1
  <2> QED BY <1>3, <2>2, <2>3, RightsKept DEF Mail
<1>7. CASE g \notin claimed
  <2>1. mails[g] = 0 BY <1>2, <1>7 DEF InsertRights
  <2>2. \A v \in Workers : task[v].phase = "insert" => task[v].gift # g
    BY <1>7 DEF InsertRights
  <2>3. [gift |-> g, phase |-> "insert"] \notin late BY <1>7 DEF InsertRights
  <2>4. \A v \in Workers : task'[v].phase = "insert" =>
          /\ task'[v].gift \in claimed' /\ mails'[task'[v].gift] = 0
          /\ [gift |-> task'[v].gift, phase |-> "insert"] \notin late'
    BY <1>3, <1>4, <1>5, <2>1, <2>3 DEF InsertRights
  <2>5. \A v, u \in Workers : v # u /\ task'[v].phase = "insert" /\ task'[u].phase = "insert"
          => task'[v].gift # task'[u].gift
    BY <1>4, <1>5, <2>2, ZenonT(60) DEF InsertRights
  <2> QED BY <1>3, <2>4, <2>5 DEF InsertRights, OneMail
<1> QED BY <1>6, <1>7

LEMMA InsertMailRights ==
    ASSUME TypeOK, InsertRights, OneMail, NEW w \in Workers, InsertMail(w)
    PROVE  InsertRights' /\ OneMail'
<1> DEFINE g == task[w].gift
<1>1. task[w] \in AwaitTasks BY TaskForms DEF InsertMail, Suspended, Phases
<1>2. g \in Gifts BY <1>1 DEF AwaitTasks
<1>3. UNCHANGED <<claimed, late>> /\ mails' = [mails EXCEPT ![g] = @ + 1] BY DEF InsertMail
<1>4. /\ g \in claimed /\ mails[g] = 0 /\ [gift |-> g, phase |-> "insert"] \notin late
      /\ \A v \in Workers \ {w} : task[v].phase = "insert" => task[v].gift # g
  BY DEF InsertMail, InsertRights
<1>5. \A v \in Workers \ {w} : task'[v] = task[v] BY DEF InsertMail, To, Set, TypeOK
<1>6. task'[w].phase = "resume" BY <1>1 DEF InsertMail, To, Set, TypeOK, AwaitTasks
<1>7. mails'[g] = 1 /\ \A h \in Gifts \ {g} : mails'[h] = mails[h]
  BY <1>2, <1>3, <1>4 DEF TypeOK
<1>8. OneMail' BY <1>7 DEF OneMail
<1>9. \A s \in late : s.phase = "insert" => s.gift # g
  BY <1>4 DEF TypeOK
<1>10. \A v \in Workers : task'[v].phase = "insert" =>
          v # w /\ task'[v] = task[v] /\ task[v].gift \in Gifts \ {g}
  BY <1>4, <1>5, <1>6, TaskForms DEF Suspended, Phases, AwaitTasks
<1>11. \A s \in late : s.gift \in Gifts BY DEF TypeOK
<1> QED BY <1>3, <1>4, <1>7, <1>8, <1>9, <1>10, <1>11 DEF InsertRights

LEMMA MailFailsRights ==
    ASSUME TypeOK, InsertRights, OneMail, NEW w \in Workers, MailFails(w)
    PROVE  InsertRights' /\ OneMail'
<1> DEFINE g == task[w].gift
           c == [gift |-> g, phase |-> task[w].phase]
<1>1. UNCHANGED <<claimed, mails>> BY DEF MailFails
<1>2. \A v \in Workers \ {w} : task'[v] = task[v] BY DEF MailFails, Set, TypeOK
<1>3. task'[w] = Idle BY DEF MailFails, Complete, Set, TypeOK
<1>4. late' = late \/ late' = late \cup {c} BY DEF MailFails
<1>5. task[w].phase = "insert" =>
        /\ g \in claimed /\ mails[g] = 0
        /\ \A v \in Workers \ {w} : task[v].phase = "insert" => task[v].gift # g
  BY DEF InsertRights
<1>6. \A v \in Workers : task'[v].phase = "insert" => v # w /\ task'[v] = task[v]
  BY <1>2, <1>3 DEF Idle
<1>7. \A v \in Workers : task'[v].phase = "insert" =>
        [gift |-> task'[v].gift, phase |-> "insert"] \notin late'
  BY <1>4, <1>5, <1>6 DEF InsertRights
<1>8. \A s \in late' : s.phase = "insert" => s.gift \in claimed' /\ mails'[s.gift] = 0
  BY <1>1, <1>4, <1>5 DEF InsertRights
<1> QED BY <1>1, <1>6, <1>7, <1>8 DEF InsertRights, OneMail

LEMMA LateClaimRights ==
    ASSUME TypeOK, InsertRights, OneMail, NEW s \in late, LateClaim(s)
    PROVE  InsertRights' /\ OneMail'
<1> DEFINE g == s.gift
           i == [s EXCEPT !.phase = "insert"]
<1>1. s \in [gift : Gifts, phase : {"claim", "insert"}] BY DEF TypeOK
<1>2. i = [gift |-> g, phase |-> "insert"] BY <1>1
<1>3. UNCHANGED <<task, mails>> /\ claimed' = claimed \cup {g} BY DEF LateClaim
<1>4. late' \subseteq late \cup {i} /\ (g \in claimed => late' \subseteq late)
  BY DEF LateClaim, Unclaimed
<1>5. g \notin claimed =>
        mails[g] = 0 /\ \A v \in Workers : task[v].phase = "insert" => task[v].gift # g
  BY <1>1 DEF InsertRights
<1> HIDE DEF i
<1>6. \A v \in Workers : task'[v].phase = "insert" =>
        [gift |-> task'[v].gift, phase |-> "insert"] \notin late'
  BY <1>2, <1>3, <1>4, <1>5 DEF InsertRights
<1>7. \A r \in late' : r.phase = "insert" => r.gift \in claimed' /\ mails'[r.gift] = 0
  BY <1>2, <1>3, <1>4, <1>5 DEF InsertRights
<1> QED BY <1>3, <1>6, <1>7 DEF InsertRights, OneMail

LEMMA LateInsertRights ==
    ASSUME TypeOK, InsertRights, OneMail, NEW s \in late, LateInsert(s)
    PROVE  InsertRights' /\ OneMail'
<1> DEFINE g == s.gift
<1>1. s \in [gift : Gifts, phase : {"claim", "insert"}] BY DEF TypeOK
<1>2. s = [gift |-> g, phase |-> "insert"] BY <1>1 DEF LateInsert
<1>3. /\ UNCHANGED <<task, claimed>> /\ late' = late \ {s}
      /\ mails' = [mails EXCEPT ![g] = @ + 1]
  BY DEF LateInsert
<1>4. g \in claimed /\ mails[g] = 0 BY <1>2 DEF InsertRights, LateInsert
<1>5. mails'[g] = 1 /\ \A h \in Gifts \ {g} : mails'[h] = mails[h]
  BY <1>1, <1>3, <1>4 DEF TypeOK
<1>6. \A v \in Workers : task[v].phase = "insert" => task[v].gift \in Gifts \ {g}
  BY <1>2, TaskForms DEF InsertRights, Suspended, Phases, AwaitTasks
<1>7. \A r \in late' : r.phase = "insert" => r.gift \in Gifts \ {g}
  BY <1>2, <1>3 DEF TypeOK
<1> QED BY <1>3, <1>4, <1>5, <1>6, <1>7 DEF InsertRights, OneMail

LEMMA CrashRights ==
    ASSUME InsertRights, OneMail, Crash
    PROVE  InsertRights' /\ OneMail'
<1>1. \A w \in Workers : task'[w].phase # "insert" BY DEF Crash, Idle
<1>2. UNCHANGED <<claimed, mails>> BY DEF Crash
<1>3. \A s \in late' : s.phase = "insert" =>
        s \in late \/ \E w \in Workers : task[w].phase = "insert" /\ task[w].gift = s.gift
  BY DEF Crash
<1>4. \A s \in late' : s.phase = "insert" => s.gift \in claimed /\ mails[s.gift] = 0
  <2>1. \A s \in late : s.phase = "insert" => s.gift \in claimed /\ mails[s.gift] = 0
    BY DEF InsertRights
  <2>2. \A w \in Workers : task[w].phase = "insert" =>
          task[w].gift \in claimed /\ mails[task[w].gift] = 0
    BY DEF InsertRights
  <2> QED BY <1>3, <2>1, <2>2
<1>5. \A s \in late' : s.phase = "insert" => s.gift \in claimed' /\ mails'[s.gift] = 0
  BY <1>2, <1>4
<1>6. \A g \in Gifts : g \notin claimed' => mails'[g] = 0 BY <1>2 DEF InsertRights
<1>7. OneMail' BY <1>2 DEF OneMail
<1> QED BY <1>1, <1>5, <1>6, <1>7 DEF InsertRights

LEMMA RightsStep ==
    ASSUME TypeOK, InsertRights, OneMail, Next
    PROVE  InsertRights' /\ OneMail'
<1>1. ASSUME NEW w \in Workers, Begin(w) PROVE InsertRights' /\ OneMail'
  BY <1>1, RightsLeft DEF Begin, GiftFails, GiftSuspends, Sell, Harvest, Mark
<1>2. ASSUME NEW w \in Workers, MarkDirty(w) \/ Commit(w) \/ CommitElsewhere(w) \/ MailboxFull(w)
      PROVE  InsertRights' /\ OneMail'
  BY <1>2, RightsLeft DEF MarkDirty, Commit, CommitElsewhere, MailboxFull, Complete, Mark, Idle
<1>3. ASSUME NEW w \in Workers, Lookup(w) PROVE InsertRights' /\ OneMail'
  <2>1. task[w] \in AwaitTasks BY <1>3, TaskForms DEF Lookup, Suspended, Phases
  <2>2. \A p \in Phases : [task[w] EXCEPT !.phase = p].phase = p BY <2>1 DEF AwaitTasks
  <2> QED BY <1>3, <2>2, RightsLeft DEF Lookup, To, Phases
<1>4. ASSUME NEW w \in Workers, CallerTimesOut(w) PROVE InsertRights' /\ OneMail'
  <2>1. task[w] \in AwaitTasks BY <1>4, TaskForms DEF CallerTimesOut
  <2>2. \A v \in Workers : task'[v].phase = task[v].phase /\ (task'[v] # task[v] => v = w)
    BY <1>4, <2>1 DEF CallerTimesOut, Set, TypeOK, AwaitTasks
  <2>3. task'[w].gift = task[w].gift
    BY <1>4, <2>1 DEF CallerTimesOut, Set, TypeOK, AwaitTasks
  <2>4. UNCHANGED Mail BY <1>4 DEF CallerTimesOut
  <2> QED BY <2>2, <2>3, <2>4, RightsKept
<1>5. ASSUME Flush \/ EvictSave \/ EvictRemove PROVE InsertRights' /\ OneMail'
  BY <1>5, RightsKept DEF Flush, EvictSave, EvictRemove
<1> QED
  BY <1>1, <1>2, <1>3, <1>4, <1>5, ClaimRights, InsertMailRights, MailFailsRights,
     LateClaimRights, LateInsertRights, CrashRights
  DEF Next, Proceed, Interrupt

-----------------------------------------------------------------------------
(* Charges and drafts.                                                     *)

\* No step takes back a claim.
LEMMA ClaimsStay == ASSUME Next PROVE claimed \subseteq claimed'
BY DEF Next, Begin, Proceed, Interrupt, GiftFails, GiftSuspends, Sell, Harvest, MarkDirty,
       Lookup, Claim, InsertMail, Commit, CommitElsewhere, MailFails, MailboxFull, CallerTimesOut,
       LateClaim, LateInsert, Flush, EvictSave, EvictRemove, Crash, Mail

\* A gift is charged for by Commit alone.
LEMMA ChargedStep ==
    ASSUME TypeOK, ChargedIsClaimed, DraftsPayable, Next
    PROVE  ChargedIsClaimed'
<1> DEFINE Within(s) == \A g \in Gifts : s.results[g] = "ok" => g \in claimed
<1>1. SUFFICES Within(state') /\ Within(saved')
  <2>1. \A s : Within(s) => \A g \in Gifts : s.results[g] = "ok" => g \in claimed'
    BY ClaimsStay
  <2> HIDE DEF Within
  <2> QED BY <2>1 DEF ChargedIsClaimed
<1>2. Within(state) /\ Within(saved) BY DEF ChargedIsClaimed
<1>3. state \in States BY DEF TypeOK
<1>4. ASSUME NEW w \in Workers, NEW g \in Gifts, GiftFails(w, g) PROVE Within(state') /\ saved' = saved
  <2>1. state'.results = [state.results EXCEPT ![g] = "failed"] BY <1>3, <1>4, FailedState DEF GiftFails
  <2> QED BY <1>2, <1>3, <1>4, <2>1 DEF GiftFails, Memory, States
<1>5. ASSUME NEW w \in Workers, NEW n \in 1..(InitialCrops + MaxHarvests), Sell(w, n)
      PROVE Within(state') /\ saved' = saved
  <2>1. n \in Nat BY GiftAssumption
  <2>2. state'.results = state.results BY <1>3, <1>5, <2>1, SoldState DEF Sell
  <2> QED BY <1>2, <1>5, <2>2 DEF Sell, Memory
<1>6. ASSUME NEW w \in Workers, Harvest(w) PROVE Within(state') /\ saved' = saved
  <2>1. state'.results = state.results BY <1>3, <1>6, HarvestedState DEF Harvest
  <2> QED BY <1>2, <1>6, <2>1 DEF Harvest, Memory
<1>7. ASSUME NEW w \in Workers, Commit(w) PROVE Within(state') /\ saved' = saved
  <2>1. Suspended(w) BY <1>7 DEF Commit, Suspended, Phases
  <2>2. task[w].gift \in Gifts BY <2>1, Payable DEF AwaitTasks
  <2>3. task[w].gift \in claimed BY <1>7, <2>1 DEF Commit, DraftsPayable
  <2>4. state'.results = [state.results EXCEPT ![task[w].gift] = "ok"]
    BY <1>7, CommitState
  <2> QED BY <1>2, <1>3, <1>7, <2>2, <2>3, <2>4 DEF Commit, Memory, States
<1>8. ASSUME NEW w \in Workers,
             \/ \E g \in Gifts : GiftSuspends(w, g)
             \/ MarkDirty(w) \/ Lookup(w) \/ Claim(w) \/ InsertMail(w)
             \/ CommitElsewhere(w) \/ Interrupt(w)
      PROVE UNCHANGED <<state, saved>>
  BY <1>8 DEF GiftSuspends, MarkDirty, Lookup, Claim, InsertMail, CommitElsewhere, Interrupt,
              MailFails, MailboxFull, CallerTimesOut, Memory
<1>9. ASSUME NEW s \in late, LateClaim(s) \/ LateInsert(s) PROVE UNCHANGED <<state, saved>>
  BY <1>9 DEF LateClaim, LateInsert, Memory
<1>10. ASSUME Flush \/ EvictSave \/ EvictRemove \/ Crash
       PROVE  state' \in {state, saved} /\ saved' \in {state, saved}
  BY <1>10 DEF Flush, EvictSave, EvictRemove, Crash
<1> HIDE DEF Within
<1> QED BY <1>2, <1>4, <1>5, <1>6, <1>7, <1>8, <1>9, <1>10 DEF Next, Begin, Proceed

\* What a goroutine that goes on keeps of its draft.
DraftKept(w) ==
    Suspended(w)' =>
        /\ Suspended(w)
        /\ task'[w].gift = task[w].gift /\ task'[w].current = task[w].current
        /\ task'[w].inc = task[w].inc
        /\ task'[w].phase = "resume" => task[w].phase = "resume" \/ task[w].gift \in claimed'

\* Every step keeps the drafts of all goroutines, but for the one that makes a
\* new one.
LEMMA DraftsKept ==
    ASSUME TypeOK, InsertRights, Next
    PROVE  \A v \in Workers :
               DraftKept(v) \/ \E g \in Gifts : GiftSuspends(v, g)
<1>1. ASSUME NEW w \in Workers, NEW t, Set(w, t), t.phase \notin Phases
      PROVE  \A v \in Workers : DraftKept(v)
  BY <1>1 DEF Set, TypeOK, DraftKept, Suspended
<1>2. ASSUME NEW w \in Workers, NEW p \in Phases, To(w, p), Suspended(w),
             p = "resume" => task[w].gift \in claimed'
      PROVE  \A v \in Workers : DraftKept(v)
  <2>1. task[w] \in AwaitTasks BY <1>2, TaskForms
  <2>2. \A v \in Workers \ {w} : task'[v] = task[v] BY <1>2 DEF To, Set, TypeOK
  <2>3. /\ task'[w].gift = task[w].gift /\ task'[w].current = task[w].current
        /\ task'[w].inc = task[w].inc /\ task'[w].phase = p
    BY <1>2, <2>1 DEF To, Set, TypeOK, AwaitTasks
  <2> QED BY <1>2, <2>2, <2>3 DEF DraftKept, Suspended
<1>3. ASSUME NEW w \in Workers, NEW g \in Gifts, GiftSuspends(w, g)
      PROVE  \A v \in Workers \ {w} : DraftKept(v)
  BY <1>3 DEF GiftSuspends, Set, TypeOK, DraftKept, Suspended
<1>4. ASSUME NEW w \in Workers,
             \/ \E g \in Gifts : GiftFails(w, g)
             \/ \E n \in 1..(InitialCrops + MaxHarvests) : Sell(w, n)
             \/ Harvest(w) \/ MarkDirty(w) \/ Commit(w) \/ CommitElsewhere(w)
             \/ MailFails(w) \/ MailboxFull(w)
      PROVE  \A v \in Workers : DraftKept(v)
  <2>1. \/ Set(w, Idle) \/ \E n : Set(w, Mark(n))
    BY <1>4 DEF GiftFails, Sell, Harvest, MarkDirty, Commit, CommitElsewhere, MailFails,
                MailboxFull, Complete
  <2>2. Idle.phase \notin Phases /\ \A n : Mark(n).phase \notin Phases
    BY DEF Idle, Mark, Phases
  <2> QED BY <1>1, <2>1, <2>2
<1>5. ASSUME NEW w \in Workers, Lookup(w) \/ Claim(w) \/ InsertMail(w)
      PROVE  \A v \in Workers : DraftKept(v)
  <2>1. Suspended(w) BY <1>5 DEF Lookup, Claim, InsertMail, Suspended, Phases
  <2>2. \E p \in Phases : To(w, p) /\ (p = "resume" => task[w].gift \in claimed')
    <3>1. CASE Lookup(w) BY <3>1 DEF Lookup, Phases, Mail
    <3>2. CASE Claim(w) BY <3>2 DEF Claim, Phases
    <3>3. CASE InsertMail(w)
      <4>1. task[w].gift \in claimed /\ claimed' = claimed BY <3>3 DEF InsertMail, InsertRights
      <4> QED BY <3>3, <4>1 DEF InsertMail, Phases
    <3> QED BY <1>5, <3>1, <3>2, <3>3
  <2> QED BY <1>2, <2>1, <2>2
<1>6. ASSUME NEW w \in Workers, CallerTimesOut(w) PROVE \A v \in Workers : DraftKept(v)
  <2>1. task[w] \in AwaitTasks BY <1>6, TaskForms DEF CallerTimesOut
  <2>2. \A v \in Workers \ {w} : task'[v] = task[v] BY <1>6 DEF CallerTimesOut, Set, TypeOK
  <2>3. /\ task'[w].gift = task[w].gift /\ task'[w].current = task[w].current
        /\ task'[w].inc = task[w].inc /\ task'[w].phase = task[w].phase
    BY <1>6, <2>1 DEF CallerTimesOut, Set, TypeOK, AwaitTasks
  <2> QED BY <2>2, <2>3 DEF DraftKept, Suspended
<1>7. ASSUME \/ \E s \in late : LateClaim(s) \/ LateInsert(s)
             \/ Flush \/ EvictSave \/ EvictRemove
      PROVE  \A v \in Workers : DraftKept(v)
  BY <1>7 DEF LateClaim, LateInsert, Flush, EvictSave, EvictRemove, DraftKept, Suspended
<1>8. ASSUME Crash PROVE \A v \in Workers : DraftKept(v)
  BY <1>8 DEF Crash, DraftKept, Suspended, Idle, Phases
<1> QED
  BY <1>3, <1>4, <1>5, <1>6, <1>7, <1>8 DEF Next, Begin, Proceed, Interrupt

\* The Actor's incarnation only grows.
LEMMA IncarnationGrows == ASSUME TypeOK, Next PROVE inc' \in Nat /\ inc <= inc'
<1>1. \/ UNCHANGED inc
      \/ inc' = inc + 1
  BY DEF Next, Begin, Proceed, Interrupt, GiftFails, GiftSuspends, Sell, Harvest, MarkDirty,
       Lookup, Claim, InsertMail, Commit, CommitElsewhere, MailFails, MailboxFull, CallerTimesOut,
       LateClaim, LateInsert, Flush, EvictSave, EvictRemove, Crash, Memory
<1> QED BY <1>1 DEF TypeOK

LEMMA PayableStep ==
    ASSUME TypeOK, InsertRights, DraftsPayable, Next
    PROVE  DraftsPayable'
<1>1. SUFFICES ASSUME NEW w \in Workers, Suspended(w)'
               PROVE  /\ task'[w].inc <= inc'
                      /\ Quantity[task'[w].gift] <= task'[w].current
                      /\ task'[w].phase = "resume" => task'[w].gift \in claimed'
  BY DEF DraftsPayable
<1>2. inc \in Nat /\ inc' \in Nat /\ inc <= inc' BY IncarnationGrows DEF TypeOK
<1>3. CASE DraftKept(w)
  <2>1. Suspended(w) BY <1>1, <1>3 DEF DraftKept
  <2>2. task[w] \in AwaitTasks BY <2>1, TaskForms
  <2>3. task[w].inc \in Nat BY <2>2 DEF AwaitTasks
  <2>4. task[w].inc <= inc /\ Quantity[task[w].gift] <= task[w].current
        /\ (task[w].phase = "resume" => task[w].gift \in claimed)
    BY <2>1 DEF DraftsPayable
  <2> QED BY <1>1, <1>2, <1>3, <2>3, <2>4, ClaimsStay DEF DraftKept
<1>4. ASSUME NEW g \in Gifts, GiftSuspends(w, g)
      PROVE  /\ task'[w].inc <= inc'
             /\ Quantity[task'[w].gift] <= task'[w].current
             /\ task'[w].phase # "resume"
  BY <1>2, <1>4 DEF GiftSuspends, Set, Memory, TypeOK
<1> QED BY <1>3, <1>4, DraftsKept

-----------------------------------------------------------------------------
(* The balance.                                                            *)

\* What is charged for a finite set of gifts, and for one more.
LEMMA ChargeFacts ==
    ASSUME NEW T \in SUBSET Gifts, IsFiniteSet(T)
    PROVE  /\ Charge(T) \in Int
           /\ \A g \in Gifts \ T : Charge(T \cup {g}) = Quantity[g] + Charge(T)
<1>1. \A g \in Gifts : Quantity[g] \in Int BY GiftAssumption
<1>2. Charge(T) \in Int BY <1>1, SumType DEF Charge
<1>3. ASSUME NEW g \in Gifts \ T PROVE Charge(T \cup {g}) = Quantity[g] + Charge(T)
  <2> DEFINE U == T \cup {g}
  <2>1. IsFiniteSet(U) BY FS_AddElement
  <2>2. \A h \in U : Quantity[h] \in Int BY <1>1
  <2>3. g \in U /\ U \ {g} = T OBVIOUS
  <2> HIDE DEF U
  <2>4. Charge(U) = Quantity[g] + Charge(U \ {g}) BY <2>1, <2>2, <2>3, SumPick DEF Charge
  <2> QED BY <2>3, <2>4 DEF U
<1> QED BY <1>2, <1>3

\* Crops that are sold or harvested stay in the balance.
LEMMA BalancedMoves ==
    ASSUME NEW s \in States, NEW s2 \in States, Balanced(s), IsFiniteSet(GivenIn(s)),
           GivenIn(s2) = GivenIn(s),
           s2.crops + s2.sold - s2.harvested = s.crops + s.sold - s.harvested
    PROVE  Balanced(s2)
<1> DEFINE c == Charge(GivenIn(s))
<1>1. c \in Int BY ChargeFacts DEF GivenIn
<1>2. s.crops + s.sold + c = InitialCrops + s.harvested BY DEF Balanced
<1>3. /\ s.crops \in Int /\ s.sold \in Int /\ s.harvested \in Int
      /\ s2.crops \in Int /\ s2.sold \in Int /\ s2.harvested \in Int
  BY DEF States
<1>4. InitialCrops \in Int BY GiftAssumption
<1>5. s2.crops + s2.sold - s2.harvested = s.crops + s.sold - s.harvested OBVIOUS
<1>6. s2.crops + s2.sold + c = InitialCrops + s2.harvested
  <2> DEFINE a == s.crops  b == s.sold  h == s.harvested
             a2 == s2.crops  b2 == s2.sold  h2 == s2.harvested
  <2>1. a \in Int /\ b \in Int /\ h \in Int /\ a2 \in Int /\ b2 \in Int /\ h2 \in Int BY <1>3
  <2>2. a + b + c = InitialCrops + h /\ a2 + b2 - h2 = a + b - h BY <1>2, <1>5
  <2> HIDE DEF a, b, h, a2, b2, h2, c
  <2>3. a2 + b2 + c = InitialCrops + h2 BY <1>1, <1>4, <2>1, <2>2
  <2> QED BY <2>3 DEF a2, b2, h2
<1> QED BY <1>6 DEF Balanced

\* A gift that is charged for leaves the stack and enters the balance.
LEMMA BalancedCharge ==
    ASSUME NEW s \in States, NEW s2 \in States, NEW g \in Gifts,
           Balanced(s), IsFiniteSet(GivenIn(s)), g \notin GivenIn(s),
           GivenIn(s2) = GivenIn(s) \cup {g},
           s2.crops = s.crops - Quantity[g], s2.sold = s.sold, s2.harvested = s.harvested
    PROVE  Balanced(s2)
<1> DEFINE c == Charge(GivenIn(s))
           q == Quantity[g]
<1>1. c \in Int /\ Charge(GivenIn(s2)) = q + c
  <2>1. GivenIn(s) \in SUBSET Gifts BY DEF GivenIn
  <2>2. Charge(GivenIn(s) \cup {g}) = q + c BY <2>1, ChargeFacts
  <2> QED BY <2>1, <2>2, ChargeFacts
<1>2. s.crops + s.sold + c = InitialCrops + s.harvested BY DEF Balanced
<1>3. s.crops \in Int /\ s.sold \in Int /\ s.harvested \in Int BY DEF States
<1>4. InitialCrops \in Int /\ q \in Int BY GiftAssumption
<1>5. s2.crops = s.crops - q OBVIOUS
<1> HIDE DEF c, q
<1>6. s2.crops + s2.sold + (q + c) = InitialCrops + s2.harvested
  BY <1>1, <1>2, <1>3, <1>4, <1>5
<1> QED BY <1>1, <1>6 DEF Balanced

\* What is shown of each step below.
Accounts ==
    /\ IsFiniteSet(GivenIn(state)) /\ IsFiniteSet(GivenIn(saved))
    /\ ~overlapped => Balanced(state) /\ Balanced(saved) /\ DraftsCurrent

LEMMA GiftFailsAccounts ==
    ASSUME Inv, NEW w \in Workers, NEW g \in Gifts, GiftFails(w, g)
    PROVE  Accounts'
<1>1. state \in States /\ UNCHANGED <<saved, inc, overlapped>>
  BY DEF Inv, TypeOK, GiftFails, Memory
<1>2. /\ state' \in States /\ state'.crops = state.crops /\ state'.sold = state.sold
      /\ state'.harvested = state.harvested
      /\ state'.results = [state.results EXCEPT ![g] = "failed"]
  <2>1. state' = [state EXCEPT !.revision = @ + 1, !.results[g] = "failed"] BY DEF GiftFails
  <2>2. state' \in States BY <1>1, <2>1, FailedState
  <2>3. /\ state'.crops = state.crops /\ state'.sold = state.sold
        /\ state'.harvested = state.harvested
    BY <1>1, <2>1 DEF States
  <2>4. state'.results = [state.results EXCEPT ![g] = "failed"] BY <1>1, <2>1 DEF States
  <2> QED BY <2>2, <2>3, <2>4
<1>3. state.results[g] = "none" BY DEF GiftFails, Stored
<1>4. \A h \in Gifts : state'.results[h] = "ok" <=> state.results[h] = "ok"
  BY <1>1, <1>2, <1>3 DEF States
<1>5. GivenIn(state') = GivenIn(state) BY <1>4 DEF GivenIn
<1>6. IsFiniteSet(GivenIn(state)) /\ IsFiniteSet(GivenIn(saved)) BY DEF Inv
<1>7. Balanced(state) => Balanced(state') BY <1>1, <1>2, <1>5, <1>6, BalancedMoves
<1>8. ASSUME DraftsCurrent PROVE DraftsCurrent'
  <2>1. ASSUME NEW v \in Workers, Suspended(v)'
        PROVE  v # w /\ task'[v] = task[v] /\ task[v].gift \in Gifts
    <3>1. task'[w].phase = "mark" BY DEF GiftFails, Set, Mark, Inv, TypeOK
    <3>2. v # w BY <2>1, <3>1 DEF Suspended, Phases
    <3>3. task'[v] = task[v] BY <3>2 DEF GiftFails, Set, Inv, TypeOK
    <3>4. Suspended(v) BY <2>1, <3>3 DEF Suspended
    <3> QED BY <3>2, <3>3, <3>4, TaskForms DEF Inv, AwaitTasks
  <2> QED BY <1>1, <1>2, <1>4, <1>8, <2>1 DEF DraftsCurrent, Suspended, Live
<1> QED BY <1>1, <1>5, <1>6, <1>7, <1>8 DEF Inv, Accounts

\* A step that leaves the Actor's state and incarnation alone, and the drafts.
LEMMA DraftsStay ==
    ASSUME DraftsCurrent, UNCHANGED <<state, inc>>, \A w \in Workers : DraftKept(w)
    PROVE  DraftsCurrent'
BY DEF DraftsCurrent, DraftKept, Suspended, Live

LEMMA QuietAccounts ==
    ASSUME Inv, \A w \in Workers : DraftKept(w), UNCHANGED <<state, saved, inc, overlapped>>
    PROVE  Accounts'
<1>1. DraftsCurrent => DraftsCurrent' BY DraftsStay
<1> QED BY <1>1 DEF Inv, Accounts, GivenIn, Balanced

LEMMA GiftSuspendsAccounts ==
    ASSUME Inv, NEW w \in Workers, NEW g \in Gifts, GiftSuspends(w, g)
    PROVE  Accounts'
<1>1. UNCHANGED <<state, saved, inc, overlapped>> BY DEF GiftSuspends, Memory
<1>2. state.results[g] = "none" BY DEF GiftSuspends, Stored
<1>3. ASSUME DraftsCurrent PROVE DraftsCurrent'
  <2>1. task'[w] = [phase |-> "lookup", gift |-> g, current |-> state.crops, inc |-> inc,
                    waiting |-> TRUE]
    BY DEF GiftSuspends, Set, Inv, TypeOK
  <2>2. \A v \in Workers \ {w} : task'[v] = task[v] BY DEF GiftSuspends, Set, Inv, TypeOK
  <2>3. state.crops \in Nat BY DEF Inv, TypeOK, States
  <2>4. task'[w].current = state.crops + 0 /\ task'[w].gift = g BY <2>1, <2>3
  <2>5. ASSUME NEW v \in Workers, Suspended(v)', Live(v)'
        PROVE  task'[v].current = state.crops +
                 (IF state.results[task'[v].gift] = "ok" THEN Quantity[task'[v].gift] ELSE 0)
    <3>1. CASE v = w BY <1>2, <2>4, <3>1
    <3>2. CASE v # w
      <4>1. task'[v] = task[v] /\ Suspended(v) /\ Live(v)
        BY <1>1, <2>2, <2>5, <3>2 DEF Suspended, Live
      <4> QED BY <1>3, <4>1 DEF DraftsCurrent
    <3> QED BY <3>1, <3>2
  <2> QED BY <1>1, <2>5 DEF DraftsCurrent
<1> QED BY <1>1, <1>3 DEF Inv, Accounts, GivenIn, Balanced

\* A sale or a harvest that overlaps with no suspended gift.
LEMMA MoveAccounts ==
    ASSUME Inv, NEW w \in Workers, UNCHANGED <<saved, inc>>, state' \in States,
           state'.results = state.results,
           state'.crops + state'.sold - state'.harvested
               = state.crops + state.sold - state.harvested,
           NEW n, Set(w, Mark(n)),
           overlapped' = (overlapped \/ Overlaps(w, Gifts))
    PROVE  Accounts'
<1>1. state \in States BY DEF Inv, TypeOK
<1>2. GivenIn(state') = GivenIn(state) BY DEF GivenIn
<1>3. IsFiniteSet(GivenIn(state)) /\ IsFiniteSet(GivenIn(saved)) BY DEF Inv
<1>4. Balanced(state) => Balanced(state') BY <1>1, <1>2, <1>3, BalancedMoves
<1>5. ASSUME ~Overlaps(w, Gifts) PROVE DraftsCurrent'
  <2>1. ASSUME NEW v \in Workers, Suspended(v)', Live(v)' PROVE FALSE
    <3>1. task'[w] = Mark(n) BY DEF Set, Inv, TypeOK
    <3>2. v # w BY <2>1, <3>1 DEF Mark, Suspended, Phases
    <3>3. task'[v] = task[v] BY <3>2 DEF Set, Inv, TypeOK
    <3>4. Suspended(v) /\ Live(v) BY <2>1, <3>3 DEF Suspended, Live
    <3>5. task[v].gift \in Gifts BY <3>4, TaskForms DEF Inv, AwaitTasks
    <3> QED BY <1>5, <3>2, <3>4, <3>5 DEF Overlaps
  <2> QED BY <2>1 DEF DraftsCurrent
<1> QED BY <1>2, <1>3, <1>4, <1>5 DEF Inv, Accounts

LEMMA SellAccounts ==
    ASSUME Inv, NEW w \in Workers, NEW n \in 1..(InitialCrops + MaxHarvests), Sell(w, n)
    PROVE  Accounts'
<1>1. n \in Nat /\ state \in States BY GiftAssumption DEF Inv, TypeOK
<1>2. state' = [state EXCEPT !.crops = @ - n, !.sold = @ + n, !.revision = @ + 1] /\ n <= state.crops
  BY DEF Sell
<1>3. state' \in States BY <1>1, <1>2, SoldState
<1>4. /\ state'.crops = state.crops - n /\ state'.sold = state.sold + n
      /\ state'.harvested = state.harvested /\ state'.results = state.results
  BY <1>1, <1>2 DEF States
<1>5. state.crops \in Int /\ state.sold \in Int /\ state.harvested \in Int BY <1>1 DEF States
<1>6. state'.crops + state'.sold - state'.harvested = state.crops + state.sold - state.harvested
  BY <1>1, <1>4, <1>5
<1> QED BY <1>3, <1>4, <1>6, MoveAccounts DEF Sell, Memory

LEMMA HarvestAccounts ==
    ASSUME Inv, NEW w \in Workers, Harvest(w)
    PROVE  Accounts'
<1>1. state \in States BY DEF Inv, TypeOK
<1>2. state' = [state EXCEPT !.crops = @ + 1, !.harvested = @ + 1, !.revision = @ + 1]
  BY DEF Harvest
<1>3. state' \in States BY <1>1, <1>2, HarvestedState
<1>4. /\ state'.crops = state.crops + 1 /\ state'.sold = state.sold
      /\ state'.harvested = state.harvested + 1 /\ state'.results = state.results
  BY <1>1, <1>2 DEF States
<1>5. state.crops \in Int /\ state.sold \in Int /\ state.harvested \in Int BY <1>1 DEF States
<1>6. state'.crops + state'.sold - state'.harvested = state.crops + state.sold - state.harvested
  BY <1>4, <1>5
<1> QED BY <1>3, <1>4, <1>6, MoveAccounts DEF Harvest, Memory

\* The stack is what the draft has seen less the gift: the present stack less the
\* gift, or the present stack if the gift was charged for by another goroutine.
LEMMA CommitAccounts ==
    ASSUME Inv, NEW w \in Workers, Commit(w)
    PROVE  Accounts'
<1> DEFINE g == task[w].gift
           q == Quantity[g]
<1>1. TypeOK /\ DraftsPayable /\ state \in States BY DEF Inv, TypeOK
<1>2. Suspended(w) /\ Live(w) BY DEF Commit, Suspended, Phases
<1>3. task[w] \in AwaitTasks /\ q \in Nat BY <1>1, <1>2, Payable
<1>4. g \in Gifts /\ task[w].current \in Nat BY <1>3 DEF AwaitTasks
<1>5. /\ state' \in States /\ state'.crops = task[w].current - q
      /\ state'.sold = state.sold /\ state'.harvested = state.harvested
      /\ state'.results = [state.results EXCEPT ![g] = "ok"]
  BY <1>1, CommitState
<1>6. GivenIn(state') = GivenIn(state) \cup {g}
  BY <1>1, <1>4, <1>5 DEF GivenIn, States
<1>7. IsFiniteSet(GivenIn(state)) /\ IsFiniteSet(GivenIn(saved)) BY DEF Inv
<1>8. IsFiniteSet(GivenIn(state')) BY <1>6, <1>7, FS_AddElement
<1>9. UNCHANGED <<saved, inc>> /\ overlapped' = (overlapped \/ Overlaps(w, Gifts \ {g}))
  BY DEF Commit, Memory
<1>10. state.crops \in Int /\ state.sold \in Int /\ state.harvested \in Int BY <1>1 DEF States
<1>11. g \in GivenIn(state) <=> state.results[g] = "ok" BY <1>4 DEF GivenIn
<1>12. ASSUME DraftsCurrent
       PROVE  state'.crops = IF state.results[g] = "ok" THEN state.crops ELSE state.crops - q
  <2>1. task[w].current = state.crops + (IF state.results[g] = "ok" THEN q ELSE 0)
    BY <1>2, <1>12 DEF DraftsCurrent
  <2> HIDE DEF q
  <2> QED BY <1>3, <1>5, <1>10, <2>1
<1>13. ASSUME DraftsCurrent, Balanced(state) PROVE Balanced(state')
  <2>1. CASE state.results[g] = "ok"
    <3>1. GivenIn(state') = GivenIn(state) BY <1>6, <1>11, <2>1
    <3>2. state'.crops + state'.sold - state'.harvested = state.crops + state.sold - state.harvested
      BY <1>5, <1>12, <1>13, <2>1
    <3> QED BY <1>1, <1>5, <1>7, <1>13, <3>1, <3>2, BalancedMoves
  <2>2. CASE state.results[g] # "ok"
    <3>1. g \notin GivenIn(state) BY <1>11, <2>2
    <3>2. state'.crops = state.crops - q BY <1>12, <1>13, <2>2
    <3> HIDE DEF g
    <3> QED BY <1>1, <1>4, <1>5, <1>6, <1>7, <1>13, <3>1, <3>2, BalancedCharge
  <2> QED BY <2>1, <2>2
<1>14. ASSUME DraftsCurrent, ~Overlaps(w, Gifts \ {g}) PROVE DraftsCurrent'
  <2>1. SUFFICES ASSUME NEW v \in Workers, Suspended(v)', Live(v)'
                 PROVE  task'[v].current = state'.crops +
                          (IF state'.results[task'[v].gift] = "ok"
                           THEN Quantity[task'[v].gift] ELSE 0)
    BY DEF DraftsCurrent
  <2>2. task'[w].phase \notin Phases
    BY <1>1 DEF Commit, Set, TypeOK, Mark, Idle, Phases
  <2>3. v # w BY <2>1, <2>2 DEF Suspended
  <2>4. task'[v] = task[v] BY <1>1, <2>3 DEF Commit, Set, TypeOK
  <2>5. Suspended(v) /\ Live(v) BY <1>9, <2>1, <2>4 DEF Suspended, Live
  <2>6. task[v].gift \in Gifts BY <1>1, <2>5, TaskForms DEF AwaitTasks
  <2>7. task[v].gift = g BY <1>14, <2>3, <2>5, <2>6 DEF Overlaps
  <2>8. task[v].current = state.crops + (IF state.results[g] = "ok" THEN q ELSE 0)
    BY <1>14, <2>5, <2>7 DEF DraftsCurrent
  <2>9. state'.results[g] = "ok" BY <1>1, <1>4, <1>5 DEF States
  <2>10. task[v].current = state'.crops + q
    <3> HIDE DEF q
    <3> QED BY <1>3, <1>10, <1>12, <1>14, <2>8
  <2> QED BY <2>4, <2>7, <2>9, <2>10
<1> HIDE DEF g
<1> QED BY <1>7, <1>8, <1>9, <1>13, <1>14 DEF Inv, Accounts

\* An Actor that is loaded again starts from the row, and no suspended gift
\* belongs to it.
LEMMA ReloadAccounts ==
    ASSUME Inv, EvictRemove \/ Crash
    PROVE  Accounts'
<1>1. /\ state' = saved /\ UNCHANGED <<saved, overlapped>> /\ inc' = inc + 1
      /\ \A w \in Workers : task'[w] = task[w] \/ task'[w] = Idle
  BY DEF EvictRemove, Crash
<1>2. ASSUME NEW w \in Workers, Suspended(w)', Live(w)' PROVE FALSE
  <2>1. task'[w] = task[w] /\ Suspended(w) BY <1>1, <1>2 DEF Suspended, Idle, Phases
  <2>2. task[w].inc <= inc BY <2>1 DEF Inv, DraftsPayable
  <2>3. task[w].inc = inc + 1 BY <1>1, <1>2, <2>1 DEF Live
  <2>4. inc \in Nat BY DEF Inv, TypeOK
  <2> QED BY <2>2, <2>3, <2>4
<1>3. DraftsCurrent' BY <1>2 DEF DraftsCurrent
<1> QED BY <1>1, <1>3 DEF Inv, Accounts

LEMMA SaveAccounts ==
    ASSUME Inv, Flush \/ EvictSave
    PROVE  Accounts'
<1>1. saved' = state /\ UNCHANGED <<state, inc, task, overlapped>> BY DEF Flush, EvictSave
<1>2. DraftsCurrent => DraftsCurrent' BY <1>1 DEF DraftsCurrent, Suspended, Live
<1> QED BY <1>1, <1>2 DEF Inv, Accounts

LEMMA AccountsStep ==
    ASSUME Inv, Next
    PROVE  Accounts'
<1>1. ASSUME NEW w \in Workers,
             \/ MarkDirty(w) \/ Lookup(w) \/ Claim(w) \/ InsertMail(w)
             \/ CommitElsewhere(w) \/ Interrupt(w)
      PROVE  Accounts'
  <2>1. UNCHANGED <<state, saved, inc, overlapped>>
    BY <1>1 DEF MarkDirty, Lookup, Claim, InsertMail, CommitElsewhere, Interrupt,
                MailFails, MailboxFull, CallerTimesOut, Memory
  <2>2. task[w].phase # "idle"
    BY <1>1 DEF MarkDirty, Lookup, Claim, InsertMail, CommitElsewhere, Interrupt,
                MailFails, MailboxFull, CallerTimesOut, Suspended, Phases
  <2>3. \A v \in Workers \ {w} : task'[v] = task[v]
    BY <1>1 DEF MarkDirty, Lookup, Claim, InsertMail, CommitElsewhere, Interrupt,
                MailFails, MailboxFull, CallerTimesOut, To, Set, Inv, TypeOK
  <2>4. \A v \in Workers, g \in Gifts : ~GiftSuspends(v, g)
    <3>1. SUFFICES ASSUME NEW v \in Workers, NEW g \in Gifts, GiftSuspends(v, g) PROVE FALSE
      OBVIOUS
    <3>2. task[v] = Idle /\ task'[v].phase = "lookup" BY <3>1 DEF GiftSuspends, Set, Inv, TypeOK
    <3>3. v # w BY <2>2, <3>2 DEF Idle
    <3> QED BY <2>3, <3>2, <3>3 DEF Idle
  <2>5. \A v \in Workers : DraftKept(v) BY <2>4, DraftsKept DEF Inv
  <2> QED BY <2>1, <2>5, QuietAccounts
<1>2. ASSUME NEW s \in late, LateClaim(s) \/ LateInsert(s) PROVE Accounts'
  <2>1. UNCHANGED <<state, saved, inc, overlapped, task>>
    BY <1>2 DEF LateClaim, LateInsert, Memory
  <2>2. \A v \in Workers : DraftKept(v) BY <2>1 DEF DraftKept, Suspended
  <2> QED BY <2>1, <2>2, QuietAccounts
<1> QED
  BY <1>1, <1>2, GiftFailsAccounts, GiftSuspendsAccounts, SellAccounts, HarvestAccounts,
     CommitAccounts, SaveAccounts, ReloadAccounts
  DEF Next, Begin, Proceed

-----------------------------------------------------------------------------
(* The theorems.                                                           *)

LEMMA InvInit == ASSUME Init PROVE Inv
<1>1. state \in States /\ saved \in States
  BY GiftAssumption DEF Init, States, Results
<1>2. TypeOK
  <2>1. task \in [Workers -> Tasks] BY TaskValues DEF Init
  <2>2. mails \in [Gifts -> Nat] /\ faults \in 0..MaxFaults BY GiftAssumption DEF Init
  <2>3. evicting \in BOOLEAN /\ overlapped \in BOOLEAN BY DEF Init
  <2>4. marked \in Nat /\ inc \in Nat /\ claimed = {} /\ late = {} BY DEF Init
  <2> QED BY <1>1, <2>1, <2>2, <2>3, <2>4 DEF TypeOK
<1>3. \A w \in Workers : task[w].phase = "idle" BY DEF Init, Idle
<1>4. OneMail /\ InsertRights BY <1>3 DEF Init, OneMail, InsertRights
<1>5. state.results = [g \in Gifts |-> "none"] /\ saved = state BY DEF Init
<1>6. ChargedIsClaimed BY <1>5 DEF ChargedIsClaimed
<1>7. DraftsPayable /\ DraftsCurrent
  BY <1>3 DEF DraftsPayable, DraftsCurrent, Suspended, Phases
<1>8. GivenIn(state) = {} BY <1>5 DEF GivenIn
<1>9. IsFiniteSet(GivenIn(state)) BY <1>8, FS_EmptySet
<1>10. Charge(GivenIn(state)) = 0 BY <1>8, SumEmpty DEF Charge
<1>11. state.crops = InitialCrops /\ state.sold = 0 /\ state.harvested = 0 BY DEF Init
<1>12. Balanced(state) BY <1>10, <1>11, GiftAssumption DEF Balanced
<1> QED BY <1>2, <1>4, <1>5, <1>6, <1>7, <1>9, <1>12 DEF Inv

LEMMA InvStep == ASSUME Inv, [Next]_vars PROVE Inv'
<1>1. CASE Next
  <2>1. TypeOK' BY <1>1, TypeStep DEF Inv
  <2>2. OneMail' /\ InsertRights' BY <1>1, RightsStep DEF Inv
  <2>3. ChargedIsClaimed' BY <1>1, ChargedStep DEF Inv
  <2>4. DraftsPayable' BY <1>1, PayableStep DEF Inv
  <2>5. Accounts' BY <1>1, AccountsStep
  <2> QED BY <2>1, <2>2, <2>3, <2>4, <2>5 DEF Inv, Accounts
<1>2. CASE UNCHANGED vars
  BY <1>2 DEF vars, Inv, TypeOK, OneMail, InsertRights, ChargedIsClaimed, DraftsPayable,
              DraftsCurrent, Suspended, Live
<1> QED BY <1>1, <1>2

\* The invariant of the gift command holds for any gifts, quantities, goroutines,
\* harvests and faults.
THEOREM InvTheorem == Spec => []Inv
<1>1. Init => Inv BY InvInit
<1>2. Inv /\ [Next]_vars => Inv' BY InvStep
<1> QED BY <1>1, <1>2, PTL DEF Spec

\* However often a gift is requested, retried or served at once, it has one mail.
THEOREM OneMailTheorem == Spec => []OneMail
<1>1. Inv => OneMail BY DEF Inv
<1> QED BY <1>1, InvTheorem, PTL

\* A gift that was charged for, in memory or in the row, was accepted by the mail
\* service.
THEOREM ChargedIsClaimedTheorem == Spec => []ChargedIsClaimed
<1>1. Inv => ChargedIsClaimed BY DEF Inv
<1> QED BY <1>1, InvTheorem, PTL

\* As long as no other command changed the stack during a suspension, every crop
\* is in the stack, sold, or given in a gift that was charged for once.
THEOREM ChargedOnceTheorem == Spec => []ChargedOnce
<1>1. Inv => ChargedOnce BY DEF Inv, ChargedOnce, Conserved
<1> QED BY <1>1, InvTheorem, PTL
=============================================================================
