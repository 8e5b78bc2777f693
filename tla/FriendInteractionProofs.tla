----------------------- MODULE FriendInteractionProofs -----------------------
(***************************************************************************)
(* Proofs about FriendInteraction: for any interactions, drivers, room,     *)
(* harvests and faults, each side of an interaction takes effect once, the  *)
(* two sides and the record agree on the outcome, and what was reserved can *)
(* be committed.                                                           *)
(***************************************************************************)
EXTENDS FriendInteraction, FiniteSetTheorems, TLAPS

-----------------------------------------------------------------------------
(* The visitor's jobs.                                                     *)

Marks == {"none", "RESERVED", "CONSUMED", "RELEASED"}

LEMMA VisitorFields ==
    ASSUME NEW v \in VisitorStates
    PROVE  /\ v.reservations \in [Interactions -> Marks] /\ v.receipts \subseteq Interactions
           /\ v.gain \in Nat /\ v.room \in Int /\ v.harvested \in Nat
BY DEF VisitorStates, Marks

VisitorOf(marks, receipts, gain, room, harvested) ==
    [reservations |-> marks, receipts |-> receipts, gain |-> gain, room |-> room,
     harvested |-> harvested]

LEMMA VisitorType ==
    ASSUME NEW m \in [Interactions -> Marks], NEW c \in SUBSET Interactions, NEW g \in Nat,
           NEW r \in Int, NEW h \in Nat
    PROVE  VisitorOf(m, c, g, r, h) \in VisitorStates
BY DEF VisitorOf, VisitorStates, Marks

LEMMA MarkForm ==
    ASSUME NEW v \in VisitorStates, NEW i \in Interactions, NEW x
    PROVE  [v EXCEPT !.reservations[i] = x]
             = VisitorOf([v.reservations EXCEPT ![i] = x], v.receipts, v.gain, v.room, v.harvested)
BY DEF VisitorStates, VisitorOf

LEMMA CreditForm ==
    ASSUME NEW v \in VisitorStates, NEW i \in Interactions, i \notin v.receipts
    PROVE  Credit(v, i)
             = VisitorOf(v.reservations, v.receipts \cup {i}, v.gain + 1, v.room, v.harvested)
<1> DEFINE c == v.receipts \cup {i}
           g == v.gain + 1
<1>1. Credit(v, i) = [v EXCEPT !.receipts = c, !.gain = g] BY DEF Credit
<1> HIDE DEF c, g
<1>2. [v EXCEPT !.receipts = c, !.gain = g] = [[v EXCEPT !.receipts = c] EXCEPT !.gain = g]
  BY Zenon
<1>3. [v EXCEPT !.receipts = c] = VisitorOf(v.reservations, c, v.gain, v.room, v.harvested)
  BY DEF VisitorStates, VisitorOf
<1>4. [VisitorOf(v.reservations, c, v.gain, v.room, v.harvested) EXCEPT !.gain = g]
        = VisitorOf(v.reservations, c, g, v.room, v.harvested)
  BY DEF VisitorOf
<1> QED BY <1>1, <1>2, <1>3, <1>4, Zenon DEF c, g

LEMMA CommitForm ==
    ASSUME NEW v \in VisitorStates, NEW i \in Interactions, i \notin v.receipts, ~CannotCommit(v, i)
    PROVE  Commit(v, i)
             = VisitorOf([v.reservations EXCEPT ![i] = "CONSUMED"], v.receipts \cup {i}, v.gain + 1,
                         v.room - 1, v.harvested)
<1> DEFINE w == Credit(v, i)
           m == [v.reservations EXCEPT ![i] = "CONSUMED"]
           c == v.receipts \cup {i}
           g == v.gain + 1
           r == v.room - 1
<1>1. w = VisitorOf(v.reservations, c, g, v.room, v.harvested) BY CreditForm
<1>2. Commit(v, i) = [w EXCEPT !.reservations[i] = "CONSUMED", !.room = @ - 1] BY DEF Commit
<1>3. [w EXCEPT !.reservations[i] = "CONSUMED", !.room = @ - 1]
        = [[w EXCEPT !.reservations[i] = "CONSUMED"] EXCEPT !.room = @ - 1]
  BY Zenon
<1>4. w.reservations = v.reservations /\ w.room = v.room BY <1>1 DEF VisitorOf
<1> HIDE DEF w, c, g
<1>5. [w EXCEPT !.reservations[i] = "CONSUMED"] = VisitorOf(m, c, g, v.room, v.harvested)
  BY <1>1 DEF VisitorOf
<1> HIDE DEF m
<1>6. [VisitorOf(m, c, g, v.room, v.harvested) EXCEPT !.room = @ - 1] = VisitorOf(m, c, g, r, v.harvested)
  BY DEF VisitorOf
<1>7. Commit(v, i) = VisitorOf(m, c, g, r, v.harvested) BY <1>2, <1>3, <1>5, <1>6, Zenon
<1> QED BY <1>7 DEF m, c, g

LEMMA MarkedReserved ==
    ASSUME NEW v \in VisitorStates, NEW i \in Interactions, NEW x,
           NEW w, w.reservations = [v.reservations EXCEPT ![i] = x]
    PROVE  Reserved(w) = IF x = "RESERVED" THEN Reserved(v) \cup {i} ELSE Reserved(v) \ {i}
<1>1. v.reservations \in [Interactions -> Marks] BY VisitorFields
<1>2. \A j \in Interactions : w.reservations[j] = IF j = i THEN x ELSE v.reservations[j] BY <1>1
<1> QED BY <1>2 DEF Reserved

LEMMA LaterTransitive ==
    ASSUME NEW a, NEW b, NEW c, Later(a, b), Later(b, c)
    PROVE  Later(a, c)
BY DEF Later

LEMMA LaterSame == ASSUME NEW a PROVE Later(a, a)
BY DEF Later

LEMMA ReserveJob ==
    ASSUME NEW v \in VisitorStates, Balanced(v), NEW i \in Interactions, NEW w, w = Reserve(v, i)
    PROVE  /\ w \in VisitorStates /\ Balanced(w) /\ Later(w, v)
           /\ w.receipts = v.receipts
           /\ \A j \in Interactions : w.reservations[j] = "RELEASED" => v.reservations[j] = "RELEASED"
           /\ ~Refuses(v, i) => w.reservations[i] # "none"
<1>1. CASE ~(v.reservations[i] = "none" /\ RoomToReserve(v))
  <2>1. w = v BY <1>1 DEF Reserve
  <2> QED BY <1>1, <2>1, LaterSame DEF Refuses
<1>2. CASE v.reservations[i] = "none" /\ RoomToReserve(v)
  <2> DEFINE m == [v.reservations EXCEPT ![i] = "RESERVED"]
  <2>1. v.reservations \in [Interactions -> Marks] /\ v.receipts \subseteq Interactions
        /\ v.gain \in Nat /\ v.room \in Int /\ v.harvested \in Nat
    BY VisitorFields
  <2>2. m \in [Interactions -> Marks] /\ m[i] = "RESERVED"
        /\ \A j \in Interactions : j # i => m[j] = v.reservations[j]
    BY <2>1 DEF Marks
  <2>3. w = VisitorOf(m, v.receipts, v.gain, v.room, v.harvested)
    BY <1>2, MarkForm DEF Reserve
  <2>4. w.reservations = m /\ w.receipts = v.receipts /\ w.gain = v.gain /\ w.room = v.room
        /\ w.harvested = v.harvested
    BY <2>3 DEF VisitorOf
  <2>5. w \in VisitorStates BY <2>1, <2>2, <2>3, VisitorType
  <2>6. Reserved(w) = Reserved(v) \cup {i} BY <2>4, MarkedReserved
  <2> HIDE DEF m
  <2>7. i \notin Reserved(v) BY <1>2 DEF Reserved
  <2>8. /\ IsFiniteSet(Reserved(w)) /\ Cardinality(Reserved(w)) = Cardinality(Reserved(v)) + 1
        /\ Cardinality(Reserved(v)) \in Nat
    BY <2>6, <2>7, FS_AddElement, FS_CardinalityType DEF Balanced
  <2>9. Cardinality(Reserved(w)) <= w.room + w.harvested
    BY <1>2, <2>1, <2>4, <2>8 DEF RoomToReserve
  <2>10. Balanced(w) BY <2>2, <2>4, <2>8, <2>9 DEF Balanced
  <2>11. Later(w, v) BY <2>2, <2>4 DEF Later
  <2> QED BY <2>2, <2>4, <2>5, <2>10, <2>11
<1> QED BY <1>1, <1>2

LEMMA ReleaseJob ==
    ASSUME NEW v \in VisitorStates, Balanced(v), NEW i \in Interactions, NEW w, w = Release(v, i)
    PROVE  /\ w \in VisitorStates /\ Balanced(w) /\ Later(w, v)
           /\ w.receipts = v.receipts
           /\ \A j \in Interactions \ {i} : w.reservations[j] = v.reservations[j]
<1>1. CASE v.reservations[i] # "RESERVED"
  <2>1. w = v BY <1>1 DEF Release
  <2> QED BY <2>1, LaterSame
<1>2. CASE v.reservations[i] = "RESERVED"
  <2> DEFINE m == [v.reservations EXCEPT ![i] = "RELEASED"]
  <2>1. v.reservations \in [Interactions -> Marks] /\ v.receipts \subseteq Interactions
        /\ v.gain \in Nat /\ v.room \in Int /\ v.harvested \in Nat
    BY VisitorFields
  <2>2. m \in [Interactions -> Marks] /\ m[i] = "RELEASED"
        /\ \A j \in Interactions : j # i => m[j] = v.reservations[j]
    BY <2>1 DEF Marks
  <2>3. w = VisitorOf(m, v.receipts, v.gain, v.room, v.harvested)
    BY <1>2, MarkForm DEF Release
  <2>4. w.reservations = m /\ w.receipts = v.receipts /\ w.gain = v.gain /\ w.room = v.room
        /\ w.harvested = v.harvested
    BY <2>3 DEF VisitorOf
  <2>5. w \in VisitorStates BY <2>1, <2>2, <2>3, VisitorType
  <2>6. Reserved(w) = Reserved(v) \ {i} BY <2>4, MarkedReserved
  <2> HIDE DEF m
  <2>7. i \in Reserved(v) BY <1>2 DEF Reserved
  <2>8. /\ IsFiniteSet(Reserved(w)) /\ Cardinality(Reserved(w)) = Cardinality(Reserved(v)) - 1
        /\ Cardinality(Reserved(v)) \in Nat
    BY <2>6, <2>7, FS_RemoveElement, FS_CardinalityType DEF Balanced
  <2>9. Cardinality(Reserved(w)) <= w.room + w.harvested
    BY <2>1, <2>4, <2>8 DEF Balanced
  <2>10. Balanced(w) BY <2>2, <2>4, <2>8, <2>9 DEF Balanced
  <2>11. Later(w, v) BY <2>2, <2>4 DEF Later
  <2> QED BY <2>2, <2>4, <2>5, <2>10, <2>11
<1> QED BY <1>1, <1>2

LEMMA CommitJob ==
    ASSUME NEW v \in VisitorStates, Balanced(v), NEW i \in Interactions, NEW w, w = Commit(v, i)
    PROVE  /\ w \in VisitorStates /\ Balanced(w) /\ Later(w, v)
           /\ w.receipts \subseteq v.receipts \cup {i}
           /\ \A j \in Interactions : w.reservations[j] = "RELEASED" => v.reservations[j] = "RELEASED"
           /\ ~CannotCommit(v, i) => i \in w.receipts
<1>1. CASE i \in v.receipts \/ CannotCommit(v, i)
  <2>1. w = v BY <1>1 DEF Commit
  <2> QED BY <1>1, <2>1, LaterSame
<1>2. CASE i \notin v.receipts /\ ~CannotCommit(v, i)
  <2> DEFINE m == [v.reservations EXCEPT ![i] = "CONSUMED"]
             c == v.receipts \cup {i}
             g == v.gain + 1
             r == v.room - 1
  <2>1. v.reservations \in [Interactions -> Marks] /\ v.receipts \subseteq Interactions
        /\ v.gain \in Nat /\ v.room \in Int /\ v.harvested \in Nat
    BY VisitorFields
  <2>2. m \in [Interactions -> Marks] /\ m[i] = "CONSUMED"
        /\ \A j \in Interactions : j # i => m[j] = v.reservations[j]
    BY <2>1 DEF Marks
  <2>3. c \in SUBSET Interactions /\ g \in Nat /\ r \in Int BY <2>1
  <2>4. w = VisitorOf(m, c, g, r, v.harvested) BY <1>2, CommitForm
  <2>5. w.reservations = m /\ w.receipts = c /\ w.gain = g /\ w.room = r
        /\ w.harvested = v.harvested
    BY <2>4 DEF VisitorOf
  <2>6. w \in VisitorStates
    <3> HIDE DEF m, c, g, r
    <3> QED BY <2>1, <2>2, <2>3, <2>4, VisitorType
  <2>7. Reserved(w) = Reserved(v) \ {i} BY <2>5, MarkedReserved
  <2> HIDE DEF m
  <2>8. i \in Reserved(v) BY <1>2 DEF Reserved, CannotCommit
  <2>9. /\ IsFiniteSet(Reserved(w)) /\ Cardinality(Reserved(w)) = Cardinality(Reserved(v)) - 1
        /\ Cardinality(Reserved(v)) \in Nat
    BY <2>7, <2>8, FS_RemoveElement, FS_CardinalityType DEF Balanced
  <2>10. Cardinality(Reserved(w)) <= w.room + w.harvested
    BY <2>1, <2>5, <2>9 DEF Balanced
  <2>11. IsFiniteSet(c) /\ Cardinality(c) = Cardinality(v.receipts) + 1
    BY <1>2, FS_AddElement DEF Balanced
  <2>12. w.gain = Cardinality(w.receipts) BY <2>5, <2>11 DEF Balanced
  <2>13. Balanced(w) BY <2>2, <2>5, <2>9, <2>10, <2>11, <2>12 DEF Balanced
  <2>14. Later(w, v) BY <2>2, <2>5 DEF Later
  <2> QED BY <2>2, <2>5, <2>6, <2>13, <2>14
<1> QED BY <1>1, <1>2

LEMMA CreditJob ==
    ASSUME NEW v \in VisitorStates, Balanced(v), NEW i \in Interactions, NEW w, w = Credit(v, i)
    PROVE  /\ w \in VisitorStates /\ Balanced(w) /\ Later(w, v)
           /\ w.receipts \subseteq v.receipts \cup {i} /\ w.reservations = v.reservations
<1>1. CASE i \in v.receipts
  <2>1. w = v BY <1>1 DEF Credit
  <2> QED BY <2>1, LaterSame
<1>2. CASE i \notin v.receipts
  <2> DEFINE c == v.receipts \cup {i}
             g == v.gain + 1
  <2>1. v.reservations \in [Interactions -> Marks] /\ v.receipts \subseteq Interactions
        /\ v.gain \in Nat /\ v.room \in Int /\ v.harvested \in Nat
    BY VisitorFields
  <2>2. c \in SUBSET Interactions /\ g \in Nat BY <2>1
  <2>3. w = VisitorOf(v.reservations, c, g, v.room, v.harvested) BY <1>2, CreditForm
  <2>4. w.reservations = v.reservations /\ w.receipts = c /\ w.gain = g /\ w.room = v.room
        /\ w.harvested = v.harvested
    BY <2>3 DEF VisitorOf
  <2>5. w \in VisitorStates
    <3> HIDE DEF c, g
    <3> QED BY <2>1, <2>2, <2>3, VisitorType
  <2>6. Reserved(w) = Reserved(v) BY <2>4 DEF Reserved
  <2>7. IsFiniteSet(c) /\ Cardinality(c) = Cardinality(v.receipts) + 1
    BY <1>2, FS_AddElement DEF Balanced
  <2>8. w.gain = Cardinality(w.receipts) BY <2>4, <2>7 DEF Balanced
  <2>9. Balanced(w) BY <2>4, <2>6, <2>7, <2>8 DEF Balanced
  <2>10. Later(w, v) BY <2>4 DEF Later
  <2> QED BY <2>4, <2>5, <2>9, <2>10
<1> QED BY <1>1, <1>2

Harvest(v) == [v EXCEPT !.room = @ - 1, !.harvested = @ + 1]

LEMMA HarvestForm ==
    ASSUME NEW v \in VisitorStates
    PROVE  Harvest(v)
             = VisitorOf(v.reservations, v.receipts, v.gain, v.room - 1, v.harvested + 1)
<1> DEFINE r == v.room - 1
           h == v.harvested + 1
<1>1. Harvest(v) = [[v EXCEPT !.room = r] EXCEPT !.harvested = h] BY Zenon DEF Harvest
<1> HIDE DEF r, h
<1>2. [v EXCEPT !.room = r] = VisitorOf(v.reservations, v.receipts, v.gain, r, v.harvested)
  BY DEF VisitorStates, VisitorOf
<1>3. [VisitorOf(v.reservations, v.receipts, v.gain, r, v.harvested) EXCEPT !.harvested = h]
        = VisitorOf(v.reservations, v.receipts, v.gain, r, h)
  BY DEF VisitorOf
<1> QED BY <1>1, <1>2, <1>3, Zenon DEF r, h

LEMMA HarvestJob ==
    ASSUME NEW v \in VisitorStates, Balanced(v), NEW w, w = Harvest(v)
    PROVE  /\ w \in VisitorStates /\ Balanced(w) /\ Later(w, v)
           /\ w.receipts = v.receipts /\ w.reservations = v.reservations
<1> DEFINE r == v.room - 1
           h == v.harvested + 1
<1>1. v.reservations \in [Interactions -> Marks] /\ v.receipts \subseteq Interactions
      /\ v.gain \in Nat /\ v.room \in Int /\ v.harvested \in Nat
  BY VisitorFields
<1>2. r \in Int /\ h \in Nat /\ r + h = v.room + v.harvested BY <1>1
<1>3. w = VisitorOf(v.reservations, v.receipts, v.gain, r, h) BY HarvestForm
<1> HIDE DEF r, h
<1>4. w \in VisitorStates BY <1>1, <1>2, <1>3, VisitorType
<1>5. w.reservations = v.reservations /\ w.receipts = v.receipts /\ w.gain = v.gain
      /\ w.room = r /\ w.harvested = h
  BY <1>3 DEF VisitorOf
<1>6. Reserved(w) = Reserved(v) BY <1>5 DEF Reserved
<1>7. Balanced(w) BY <1>2, <1>5, <1>6 DEF Balanced
<1>8. Later(w, v) BY <1>5 DEF Later
<1> QED BY <1>4, <1>5, <1>7, <1>8

-----------------------------------------------------------------------------
(* What grows: the owner's history, the visitor's row and the records.     *)

Progress ==
    /\ everApplied \subseteq everApplied'
    /\ Later(visitorRow', visitorRow)
    /\ \A i \in Sagas :
        /\ Succeeds(record[i].status, record'[i].status)
        /\ record[i].status # "none" =>
            record'[i].status # "none" /\ record[i].version <= record'[i].version
        /\ record'[i].version = record[i].version /\ record[i].status # "none" =>
            record'[i].status = record[i].status

LEMMA SucceedsTransitive ==
    ASSUME NEW a, NEW b, NEW c, Succeeds(a, b), Succeeds(b, c)
    PROVE  Succeeds(a, c)
BY DEF Succeeds

LEMMA SucceedsSame == ASSUME NEW a PROVE Succeeds(a, a)
BY DEF Succeeds

LEMMA BackedKept ==
    ASSUME Progress, NEW i \in Interactions, NEW s, Backed(i, s)
    PROVE  Backed(i, s)'
BY DEF Progress, Later, Backed

LEMMA ExplainedKept ==
    ASSUME Progress, NEW v, Explained(v)
    PROVE  Explained(v)'
BY DEF Progress, Explained, Succeeds

LEMMA LateKept ==
    ASSUME Progress, NEW c, LateOK(c)
    PROVE  LateOK(c)'
BY DEF Progress, LateOK, Succeeds

SagaTasks ==
    [phase : {"call", "settle", "persist"}, i : Sagas, status : Statuses, next : Statuses, version : Nat]
DirectTasks == [phase : {"apply", "effect"}, i : Directs]

LEMMA TaskForms ==
    ASSUME TypeOK, NEW d \in Drivers
    PROVE  /\ Driving(d) => driver[d] \in SagaTasks
           /\ driver[d].phase \in {"apply", "effect"} => driver[d] \in DirectTasks
           /\ Driving(d) => /\ driver[d].i \in Sagas /\ driver[d].i \in Interactions
                            /\ driver[d].version \in Nat
                            /\ driver[d].status \in Statuses /\ driver[d].next \in Statuses
           /\ driver[d].phase \in {"apply", "effect"} =>
                /\ driver[d].i \in Directs /\ driver[d].i \in Interactions /\ driver[d].i \notin Sagas
<1>1. driver[d] \in Tasks BY DEF TypeOK
<1>2. Driving(d) => driver[d] \in SagaTasks BY <1>1 DEF Tasks, Idle, Driving, SagaTasks
<1>3. driver[d].phase \in {"apply", "effect"} => driver[d] \in DirectTasks
  BY <1>1 DEF Tasks, Idle, DirectTasks
<1> QED BY <1>2, <1>3, InteractionAssumption DEF SagaTasks, DirectTasks, Interactions

LEMMA RecordFields ==
    ASSUME TypeOK, NEW i \in Sagas
    PROVE  record[i].version \in Nat /\ record[i].status \in Statuses \cup {"none"}
BY DEF TypeOK

LEMMA DriverKept ==
    ASSUME TypeOK, TypeOK', Progress, NEW d \in Drivers, driver'[d] = driver[d], Driving(d), DriverOK(d),
           driver[d].phase = "settle" => Later(visitor', visitor)
    PROVE  DriverOK(d)'
<1>1. PICK t : t = driver[d] OBVIOUS
<1>2. t.i \in Sagas /\ t.i \in Interactions /\ t.version \in Nat BY <1>1, TaskForms
<1>3. PICK i \in Sagas : i = t.i BY <1>2
<1>4. record[i].version \in Nat /\ record'[i].version \in Nat
  <2>1. record[i].version \in Nat BY RecordFields
  <2>2. record'[i].version \in Nat BY DEF TypeOK
  <2> QED BY <2>1, <2>2
<1>5. /\ t.version <= record[i].version /\ record[i].status # "none"
      /\ t.version = record[i].version => t.status = record[i].status
      /\ Backed(i, t.status) /\ Succeeds(t.status, record[i].status)
  BY <1>1, <1>3 DEF DriverOK
<1>6. /\ Succeeds(record[i].status, record'[i].status)
      /\ record[i].version <= record'[i].version /\ record'[i].status # "none"
      /\ record'[i].version = record[i].version => record'[i].status = record[i].status
  BY <1>5 DEF Progress
<1>7. t.version <= record'[i].version BY <1>2, <1>4, <1>5, <1>6
<1>8. t.version = record'[i].version => t.status = record'[i].status
  BY <1>2, <1>4, <1>5, <1>6
<1>9. Backed(i, t.status)' BY <1>2, <1>3, <1>5, BackedKept
<1>10. Succeeds(t.status, record'[i].status) BY <1>5, <1>6, SucceedsTransitive
<1>11. t.phase = "persist" => Backed(i, t.next)'
  <2>1. t.phase = "persist" => Backed(i, t.next) BY <1>1, <1>3 DEF DriverOK
  <2> QED BY <1>2, <1>3, <2>1, BackedKept
<1>12. ASSUME t.phase = "settle"
       PROVE  /\ t.next \in {"VISITOR_RESERVED", "VISITOR_COMMITTED", "ABORTED"}
              /\ t.next = "VISITOR_RESERVED" => visitor'.reservations[i] # "none"
              /\ t.next = "VISITOR_COMMITTED" => t.status = "OWNER_APPLIED" /\ i \in visitor'.receipts
  BY <1>1, <1>2, <1>3, <1>12 DEF DriverOK, Later
<1>13. t.phase \in {"settle", "persist"} => Succeeds(t.status, t.next) BY <1>1 DEF DriverOK
<1> QED BY <1>1, <1>3, <1>6, <1>7, <1>8, <1>9, <1>10, <1>11, <1>12, <1>13 DEF DriverOK

\* Goroutines that a step leaves alone stay in order; the step answers for its own.
LEMMA InvFrom ==
    ASSUME Inv, TypeOK', Progress,
           (\A v \in {visitor, visitorRow} : Balanced(v) /\ Explained(v))',
           Later(visitor, visitorRow)',
           (\A o \in {owner, ownerRow} : OwnerOK(o))',
           (\A i \in Sagas : Backed(i, record[i].status))',
           \A e \in Drivers :
                \/ /\ driver'[e] = driver[e]
                   /\ driver[e].phase = "settle" => Later(visitor', visitor)
                \/ /\ Driving(e)' => DriverOK(e)'
                   /\ driver'[e].phase = "effect" => driver'[e].i \in everApplied',
           \A c \in late' : c \in late \/ LateOK(c)'
    PROVE  Inv'
<1>1. ASSUME NEW e \in Drivers, Driving(e)' PROVE DriverOK(e)'
  <2>1. CASE driver'[e] = driver[e] /\ (driver[e].phase = "settle" => Later(visitor', visitor))
    <3>1. Driving(e) BY <1>1, <2>1 DEF Driving
    <3>2. DriverOK(e) /\ TypeOK BY <3>1 DEF Inv
    <3> QED BY <2>1, <3>1, <3>2, DriverKept
  <2> QED BY <1>1, <2>1
<1>2. ASSUME NEW e \in Drivers, driver'[e].phase = "effect" PROVE driver'[e].i \in everApplied'
  <2>1. CASE driver'[e] = driver[e]
    <3>1. driver[e].i \in everApplied BY <1>2, <2>1 DEF Inv
    <3> QED BY <2>1, <3>1 DEF Progress
  <2> QED BY <1>2, <2>1
<1>3. ASSUME NEW c \in late' PROVE LateOK(c)'
  <2>1. CASE c \in late
    <3>1. LateOK(c) BY <2>1 DEF Inv
    <3> QED BY <3>1, LateKept
  <2> QED BY <1>3, <2>1
<1> QED BY <1>1, <1>2, <1>3 DEF Inv

\* The visitor's states after a step that changes neither of them.
LEMMA VisitorSame ==
    ASSUME Inv, Progress, visitor' = visitor, visitorRow' = visitorRow
    PROVE  /\ (\A v \in {visitor, visitorRow} : Balanced(v) /\ Explained(v))'
           /\ Later(visitor, visitorRow)'
<1>1. ASSUME NEW v \in {visitor, visitorRow} PROVE Balanced(v) /\ Explained(v)'
  <2>1. Balanced(v) /\ Explained(v) BY DEF Inv
  <2> QED BY <2>1, ExplainedKept
<1>2. Later(visitor, visitorRow) BY DEF Inv
<1>3. \A v : Balanced(v)' <=> Balanced(v) BY DEF Balanced, Reserved
<1> QED BY <1>1, <1>2, <1>3

LEMMA VisitorStepped ==
    ASSUME Inv, Progress, NEW w, visitor' = w, visitorRow' = visitorRow,
           Balanced(w), Explained(w), Later(w, visitor)
    PROVE  /\ (\A v \in {visitor, visitorRow} : Balanced(v) /\ Explained(v))'
           /\ Later(visitor, visitorRow)'
<1>1. ASSUME NEW v \in {w, visitorRow} PROVE Balanced(v) /\ Explained(v)'
  <2>1. Balanced(v) /\ Explained(v) BY DEF Inv
  <2> QED BY <2>1, ExplainedKept
<1>2. Later(w, visitorRow) BY LaterTransitive DEF Inv
<1> QED BY <1>1, <1>2

LEMMA OwnerSame ==
    ASSUME Inv, Progress, owner' = owner, ownerRow' = ownerRow
    PROVE  (\A o \in {owner, ownerRow} : OwnerOK(o))'
BY DEF Inv, OwnerOK, Progress

LEMMA RecordsSame ==
    ASSUME Inv, Progress, record' = record
    PROVE  (\A i \in Sagas : Backed(i, record[i].status))'
<1>1. ASSUME NEW i \in Sagas, NEW s, s = record[i].status PROVE Backed(i, s)'
  <2>1. Backed(i, s) BY <1>1 DEF Inv
  <2> QED BY <2>1, BackedKept DEF Interactions
<1> QED BY <1>1

LEMMA ProgressFrom ==
    ASSUME everApplied \subseteq everApplied', Later(visitorRow', visitorRow), record' = record, TypeOK
    PROVE  Progress
<1>1. ASSUME NEW i \in Sagas PROVE record[i].version <= record[i].version BY RecordFields
<1> QED BY <1>1, SucceedsSame DEF Progress

-----------------------------------------------------------------------------
(* Types and tasks.                                                        *)

RecordTable == [Sagas -> [status : Statuses \cup {"none"}, version : Nat]]

LEMMA TypeFrom ==
    ASSUME TypeOK, record' \in RecordTable, view' \in [Interactions -> Nat],
           visitor' \in VisitorStates, visitorRow' \in VisitorStates,
           owner' \in OwnerStates, ownerRow' \in OwnerStates,
           open' \in BOOLEAN, epoch' \in Nat, visiting' \in SUBSET Interactions,
           driver' \in [Drivers -> Tasks], late' \in SUBSET [call : Calls, i : Interactions],
           faults' \in 0..MaxFaults, everApplied' \in SUBSET Interactions
    PROVE  TypeOK'
BY DEF TypeOK, RecordTable

LEMMA SetTask ==
    ASSUME TypeOK, NEW d \in Drivers, NEW t \in Tasks, Set(d, t)
    PROVE  /\ driver' \in [Drivers -> Tasks] /\ driver'[d] = t
           /\ \A e \in Drivers \ {d} : driver'[e] = driver[e]
BY DEF Set, TypeOK

LEMMA IdleTask == Idle \in Tasks /\ Idle.phase = "idle"
BY DEF Tasks, Idle

LEMMA FaultType == ASSUME TypeOK, Fault PROVE faults' \in 0..MaxFaults
BY InteractionAssumption DEF Fault, TypeOK

Task(phase, i, status, next, version) ==
    [phase |-> phase, i |-> i, status |-> status, next |-> next, version |-> version]

LEMMA TaskType ==
    ASSUME NEW ph \in {"call", "settle", "persist"}, NEW i \in Sagas, NEW s \in Statuses,
           NEW n \in Statuses, NEW k \in Nat
    PROVE  Task(ph, i, s, n, k) \in Tasks
BY DEF Task, Tasks

LEMMA ToTask ==
    ASSUME TypeOK, NEW d \in Drivers, Driving(d), NEW ph \in {"settle", "persist"},
           NEW n \in Statuses, To(d, ph, n)
    PROVE  LET t == Task(ph, driver[d].i, driver[d].status, n, driver[d].version)
           IN  Set(d, t) /\ t \in Tasks
<1> DEFINE t == driver[d]
<1>1. t \in SagaTasks /\ t.i \in Sagas /\ t.version \in Nat /\ t.status \in Statuses BY TaskForms
<1>2. Set(d, [t EXCEPT !.phase = ph, !.next = n]) BY DEF To
<1> HIDE DEF t
<1>3. [t EXCEPT !.phase = ph, !.next = n] = [[t EXCEPT !.phase = ph] EXCEPT !.next = n] BY Zenon
<1>4. [t EXCEPT !.phase = ph] = Task(ph, t.i, t.status, t.next, t.version)
  BY <1>1 DEF SagaTasks, Task
<1>5. [Task(ph, t.i, t.status, t.next, t.version) EXCEPT !.next = n] = Task(ph, t.i, t.status, n, t.version)
  BY DEF Task
<1>6. Task(ph, t.i, t.status, n, t.version) \in Tasks BY <1>1, TaskType
<1>7. Set(d, Task(ph, t.i, t.status, n, t.version)) BY <1>2, <1>3, <1>4, <1>5, Zenon
<1> QED BY <1>6, <1>7 DEF t

\* A step of one goroutine.
LEMMA SetInv ==
    ASSUME Inv, TypeOK', Progress,
           (\A v \in {visitor, visitorRow} : Balanced(v) /\ Explained(v))',
           Later(visitor, visitorRow)', Later(visitor', visitor),
           (\A o \in {owner, ownerRow} : OwnerOK(o))',
           (\A i \in Sagas : Backed(i, record[i].status))',
           NEW d \in Drivers, NEW t \in Tasks, Set(d, t),
           Driving(d)' => DriverOK(d)', t.phase = "effect" => t.i \in everApplied',
           \A c \in late' : c \in late \/ LateOK(c)'
    PROVE  Inv'
<1>1. TypeOK BY DEF Inv
<1>2. driver'[d] = t /\ \A e \in Drivers \ {d} : driver'[e] = driver[e] BY <1>1, SetTask
<1> QED BY <1>2, InvFrom

\* The goroutine goes on to wait for the row or to update the record.
LEMMA ToDriver ==
    ASSUME Inv, Progress, record' = record, NEW d \in Drivers, Driving(d),
           NEW ph \in {"settle", "persist"}, NEW n \in Statuses, To(d, ph, n),
           NEW i \in Sagas, i = driver[d].i, NEW s, s = driver[d].status, Succeeds(s, n),
           ph = "settle" =>
                /\ n \in {"VISITOR_RESERVED", "VISITOR_COMMITTED", "ABORTED"}
                /\ n = "VISITOR_RESERVED" => visitor'.reservations[i] # "none"
                /\ n = "VISITOR_COMMITTED" => s = "OWNER_APPLIED" /\ i \in visitor'.receipts,
           ph = "persist" => Backed(i, n)'
    PROVE  /\ driver' \in [Drivers -> Tasks] /\ DriverOK(d)'
           /\ \E t \in Tasks : Set(d, t) /\ t.phase # "effect"
<1>1. TypeOK /\ DriverOK(d) BY DEF Inv
<1>2. PICK t \in Tasks : t = Task(ph, i, s, n, driver[d].version) /\ Set(d, t) BY <1>1, ToTask
<1>3. driver' \in [Drivers -> Tasks] /\ driver'[d] = t BY <1>1, <1>2, SetTask
<1>4. t.phase = ph /\ t.i = i /\ t.status = s /\ t.next = n /\ t.version = driver[d].version
  BY <1>2 DEF Task
<1>5. Backed(i, s) BY <1>1 DEF DriverOK
<1>6. Backed(i, s)' BY <1>5, BackedKept DEF Interactions
<1>7. DriverOK(d)' BY <1>1, <1>3, <1>4, <1>6 DEF DriverOK
<1>8. t.phase # "effect" BY <1>4
<1> QED BY <1>2, <1>3, <1>7, <1>8

-----------------------------------------------------------------------------
(* The records.                                                            *)

\* A record gets a status that follows its own and the next version.
LEMMA RecordWritten ==
    ASSUME Inv, everApplied \subseteq everApplied', Later(visitorRow', visitorRow),
           NEW i \in Sagas, NEW s \in Statuses,
           NEW n \in Nat, n = record[i].version + 1,
           record' = [record EXCEPT ![i] = [status |-> s, version |-> n]],
           Succeeds(record[i].status, s), Backed(i, s)
    PROVE  /\ record' \in RecordTable /\ Progress
           /\ (\A j \in Sagas : Backed(j, record[j].status))'
           /\ record'[i].status = s /\ record'[i].version = n
<1>1. TypeOK BY DEF Inv
<1>2. record \in RecordTable BY <1>1 DEF TypeOK, RecordTable
<1>3. [status |-> s, version |-> n] \in [status : Statuses \cup {"none"}, version : Nat] OBVIOUS
<1>4. record' \in RecordTable BY <1>2, <1>3 DEF RecordTable
<1>5. record'[i].status = s /\ record'[i].version = n BY <1>2 DEF RecordTable
<1>6. \A j \in Sagas \ {i} : record'[j] = record[j] BY <1>2 DEF RecordTable
<1>7. s # "none" BY DEF Statuses, Forward, Terminal
<1>8. ASSUME NEW j \in Sagas
      PROVE  /\ Succeeds(record[j].status, record'[j].status)
             /\ record[j].version <= record'[j].version
             /\ record[j].status # "none" => record'[j].status # "none"
             /\ record'[j].version = record[j].version /\ record[j].status # "none" =>
                    record'[j].status = record[j].status
  <2>1. record[j].version \in Nat BY <1>1, RecordFields
  <2>2. CASE j = i BY <1>5, <1>7, <2>1, <2>2
  <2>3. CASE j # i BY <1>6, <2>1, <2>3, SucceedsSame
  <2> QED BY <2>2, <2>3
<1>9. Progress BY <1>8 DEF Progress
<1>10. ASSUME NEW j \in Sagas, NEW x, x = record'[j].status PROVE Backed(j, x)'
  <2>1. Backed(j, x)
    <3>1. CASE j = i BY <1>5, <1>10, <3>1
    <3>2. CASE j # i BY <1>6, <1>10, <3>2 DEF Inv
    <3> QED BY <3>1, <3>2
  <2> QED BY <1>9, <2>1, BackedKept DEF Interactions
<1> QED BY <1>4, <1>5, <1>9, <1>10

LEMMA DeferRetryFacts ==
    ASSUME Inv, everApplied \subseteq everApplied', Later(visitorRow', visitorRow),
           NEW d \in Drivers, Driving(d), DeferRetry(d)
    PROVE  /\ record' \in RecordTable /\ Progress
           /\ (\A j \in Sagas : Backed(j, record[j].status))'
           /\ driver' \in [Drivers -> Tasks] /\ Set(d, Idle) /\ ~Driving(d)'
<1>1. TypeOK /\ DriverOK(d) BY DEF Inv
<1>2. PICK i \in Sagas : i = driver[d].i BY <1>1, TaskForms
<1>3. Set(d, Idle) BY DEF DeferRetry
<1>4. driver' \in [Drivers -> Tasks] /\ ~Driving(d)' BY <1>1, <1>3, SetTask, IdleTask DEF Driving
<1>5. CASE record' = record
  <2>1. record' \in RecordTable BY <1>1, <1>5 DEF TypeOK, RecordTable
  <2>2. Progress BY <1>1, <1>5, ProgressFrom
  <2> QED BY <1>3, <1>4, <1>5, <2>1, <2>2, RecordsSame
<1>6. CASE record' = [record EXCEPT ![i].version = @ + 1]
  <2>1. PICK s, n : s = record[i].status /\ n = record[i].version + 1 OBVIOUS
  <2>2. s \in Statuses /\ n \in Nat BY <1>1, <1>2, <2>1, RecordFields DEF DriverOK
  <2>3. record[i] \in [status : Statuses \cup {"none"}, version : Nat] BY <1>1 DEF TypeOK
  <2>4. [record[i] EXCEPT !.version = n] = [status |-> s, version |-> n] BY <2>1, <2>3
  <2>5. record' = [record EXCEPT ![i] = [status |-> s, version |-> n]]
    <3>1. [record EXCEPT ![i].version = @ + 1] = [record EXCEPT ![i] = [record[i] EXCEPT !.version = n]]
      BY <1>1, <2>1 DEF TypeOK
    <3> QED BY <1>6, <2>4, <3>1, Zenon
  <2>6. Succeeds(record[i].status, s) /\ Backed(i, s) BY <2>1, SucceedsSame DEF Inv
  <2>7. record' \in RecordTable /\ Progress /\ (\A j \in Sagas : Backed(j, record[j].status))'
    BY <2>1, <2>2, <2>5, <2>6, RecordWritten
  <2> QED BY <1>3, <1>4, <2>7
<1> QED BY <1>2, <1>5, <1>6 DEF DeferRetry

-----------------------------------------------------------------------------
(* Jobs of the visitor.                                                    *)

LEMMA ExplainedStep ==
    ASSUME NEW v, Explained(v), NEW w, NEW i, w.receipts \subseteq v.receipts \cup {i},
           i \in w.receipts \ v.receipts =>
                i \in everApplied /\ (i \in Sagas => record[i].status \in Done),
           \A j \in Sagas : w.reservations[j] = "RELEASED" =>
                v.reservations[j] = "RELEASED" \/ record[j].status \in Gone
    PROVE  Explained(w)
BY DEF Explained

LEMMA VisitorNow == ASSUME Inv PROVE visitor \in VisitorStates /\ Balanced(visitor) /\ Explained(visitor)
BY DEF Inv, TypeOK

\* A job that changes the visitor in memory, and nothing else but its goroutine.
LEMMA JobInv ==
    ASSUME Inv, NEW w \in VisitorStates, visitor' = w, Balanced(w), Explained(w), Later(w, visitor),
           NEW d \in Drivers, NEW t \in Tasks, Set(d, t),
           Driving(d)' => DriverOK(d)', t.phase = "effect" => t.i \in everApplied',
           UNCHANGED <<Stores, visitorRow, Owner, late, faults>>
    PROVE  Inv'
<1>1. TypeOK BY DEF Inv
<1>2. UNCHANGED <<record, view, visitorRow, owner, ownerRow, open, epoch, visiting, everApplied,
                  late, faults>>
  BY DEF Stores, Owner
<1>3. driver' \in [Drivers -> Tasks] BY <1>1, SetTask
<1>4. TypeOK' BY <1>1, <1>2, <1>3, TypeFrom DEF TypeOK, RecordTable
<1>5. Progress BY <1>1, <1>2, ProgressFrom, LaterSame
<1>6. /\ (\A v \in {visitor, visitorRow} : Balanced(v) /\ Explained(v))'
      /\ Later(visitor, visitorRow)'
  BY <1>2, <1>5, VisitorStepped
<1>7. (\A o \in {owner, ownerRow} : OwnerOK(o))' BY <1>2, <1>5, OwnerSame
<1>8. (\A i \in Sagas : Backed(i, record[i].status))' BY <1>2, <1>5, RecordsSame
<1> QED BY <1>2, <1>4, <1>5, <1>6, <1>7, <1>8, SetInv

LEMMA ReserveStepInv ==
    ASSUME Inv, NEW d \in Drivers, ReserveStep(d)
    PROVE  Inv'
<1>1. TypeOK BY DEF Inv
<1>2. Driving(d) /\ driver[d].status = "INIT"
  BY DEF ReserveStep, At, Call, Driving
<1>3. PICK i \in Sagas : i = driver[d].i BY <1>1, <1>2, TaskForms
<1>4. i \in Interactions BY DEF Interactions
<1>5. PICK w : w = Reserve(visitor, i) OBVIOUS
<1>6. /\ w \in VisitorStates /\ Balanced(w) /\ Later(w, visitor)
      /\ w.receipts = visitor.receipts
      /\ \A j \in Interactions : w.reservations[j] = "RELEASED" => visitor.reservations[j] = "RELEASED"
      /\ ~Refuses(visitor, i) => w.reservations[i] # "none"
  BY <1>4, <1>5, ReserveJob, VisitorNow
<1>7. Explained(w) BY <1>6, VisitorNow, ExplainedStep DEF Interactions
<1>8. visitor' = w /\ UNCHANGED <<Stores, visitorRow, Owner, late, faults>>
  BY <1>3, <1>5 DEF ReserveStep
<1>9. Progress BY <1>1, <1>8, ProgressFrom, LaterSame DEF Stores, Owner
<1>10. "VISITOR_RESERVED" \in Statuses /\ "RELEASING" \in Statuses BY DEF Statuses, Forward
<1>11. Succeeds("INIT", "VISITOR_RESERVED") /\ Succeeds("INIT", "RELEASING")
  BY DEF Succeeds, Done, Gone
<1>12. Backed(i, "RELEASING")' BY DEF Backed, Done
<1>13. DriverOK(d)' /\ \E t \in Tasks : Set(d, t) /\ t.phase # "effect"
  <2>1. CASE Refuses(visitor, i)
    <3>1. To(d, "persist", "RELEASING") BY <1>3, <2>1 DEF ReserveStep
    <3> QED BY <1>2, <1>3, <1>8, <1>9, <1>10, <1>11, <1>12, <3>1, ToDriver DEF Stores
  <2>2. CASE ~Refuses(visitor, i)
    <3>1. To(d, "settle", "VISITOR_RESERVED") BY <1>3, <2>2 DEF ReserveStep
    <3>2. visitor'.reservations[i] # "none" BY <1>6, <1>8, <2>2
    <3> QED BY <1>2, <1>3, <1>8, <1>9, <1>10, <1>11, <3>1, <3>2, ToDriver DEF Stores
  <2> QED BY <2>1, <2>2
<1> QED BY <1>6, <1>7, <1>8, <1>13, JobInv

LEMMA ReleaseStepInv ==
    ASSUME Inv, NEW d \in Drivers, ReleaseStep(d)
    PROVE  Inv'
<1>1. TypeOK BY DEF Inv
<1>2. Driving(d) /\ driver[d].status = "RELEASING"
  BY DEF ReleaseStep, At, Call, Driving
<1>3. PICK i \in Sagas : i = driver[d].i BY <1>1, <1>2, TaskForms
<1>4. i \in Interactions BY DEF Interactions
<1>5. PICK w : w = Release(visitor, i) OBVIOUS
<1>6. /\ w \in VisitorStates /\ Balanced(w) /\ Later(w, visitor)
      /\ w.receipts = visitor.receipts
      /\ \A j \in Interactions \ {i} : w.reservations[j] = visitor.reservations[j]
  BY <1>4, <1>5, ReleaseJob, VisitorNow
<1>7. record[i].status \in Gone BY <1>2, <1>3 DEF Inv, DriverOK, Succeeds, Gone
<1>8. Explained(w) BY <1>6, <1>7, VisitorNow, ExplainedStep DEF Interactions
<1>9. visitor' = w /\ UNCHANGED <<Stores, visitorRow, Owner, late, faults>>
  BY <1>3, <1>5 DEF ReleaseStep
<1>10. Progress BY <1>1, <1>9, ProgressFrom, LaterSame DEF Stores, Owner
<1>11. "ABORTED" \in Statuses BY DEF Statuses, Terminal
<1>12. Succeeds("RELEASING", "ABORTED") BY DEF Succeeds, Done, Gone
<1>13. To(d, "settle", "ABORTED") BY DEF ReleaseStep
<1>14. DriverOK(d)' /\ \E t \in Tasks : Set(d, t) /\ t.phase # "effect"
  BY <1>2, <1>3, <1>9, <1>10, <1>11, <1>12, <1>13, ToDriver DEF Stores
<1> QED BY <1>6, <1>8, <1>9, <1>14, JobInv

LEMMA CommitExplained ==
    ASSUME Inv, NEW i \in Sagas, record[i].status \in Done, i \in everApplied,
           NEW w, w = Commit(visitor, i)
    PROVE  /\ w \in VisitorStates /\ Balanced(w) /\ Later(w, visitor) /\ Explained(w)
           /\ ~CannotCommit(visitor, i) => i \in w.receipts
<1>1. i \in Interactions BY DEF Interactions
<1>2. /\ w \in VisitorStates /\ Balanced(w) /\ Later(w, visitor)
      /\ w.receipts \subseteq visitor.receipts \cup {i}
      /\ \A j \in Interactions : w.reservations[j] = "RELEASED" => visitor.reservations[j] = "RELEASED"
      /\ ~CannotCommit(visitor, i) => i \in w.receipts
  BY <1>1, CommitJob, VisitorNow
<1>3. Explained(w) BY <1>2, VisitorNow, ExplainedStep DEF Interactions
<1> QED BY <1>2, <1>3

LEMMA CommitStepInv ==
    ASSUME Inv, NEW d \in Drivers, CommitStep(d)
    PROVE  Inv'
<1>1. TypeOK BY DEF Inv
<1>2. Driving(d) /\ driver[d].status = "OWNER_APPLIED"
  BY DEF CommitStep, At, Call, Driving
<1>3. PICK i \in Sagas : i = driver[d].i BY <1>1, <1>2, TaskForms
<1>4. DriverOK(d) BY <1>2 DEF Inv
<1>5. record[i].status \in Done /\ i \in everApplied /\ Backed(i, "OWNER_APPLIED")
  BY <1>2, <1>3, <1>4 DEF DriverOK, Succeeds, Backed, Done
<1>6. PICK w : w = Commit(visitor, i) OBVIOUS
<1>7. /\ w \in VisitorStates /\ Balanced(w) /\ Later(w, visitor) /\ Explained(w)
      /\ ~CannotCommit(visitor, i) => i \in w.receipts
  BY <1>5, <1>6, CommitExplained
<1>8. visitor' = w /\ UNCHANGED <<view, visitorRow, Owner, late, faults>>
  BY <1>3, <1>6 DEF CommitStep
<1>9. CASE CannotCommit(visitor, i)
  <2>1. DeferRetry(d) BY <1>3, <1>9 DEF CommitStep
  <2>2. UNCHANGED <<view, visitorRow, owner, ownerRow, open, epoch, visiting, everApplied, late, faults>>
    BY <1>8 DEF Owner
  <2>3. Later(visitorRow', visitorRow) BY <2>2, LaterSame
  <2>4. /\ record' \in RecordTable /\ Progress
        /\ (\A j \in Sagas : Backed(j, record[j].status))'
        /\ driver' \in [Drivers -> Tasks] /\ Set(d, Idle) /\ ~Driving(d)'
    BY <1>2, <2>1, <2>2, <2>3, DeferRetryFacts
  <2>5. TypeOK' BY <1>1, <1>7, <1>8, <2>2, <2>4, TypeFrom DEF TypeOK
  <2>6. /\ (\A v \in {visitor, visitorRow} : Balanced(v) /\ Explained(v))'
        /\ Later(visitor, visitorRow)'
    BY <1>7, <1>8, <2>2, <2>4, VisitorStepped
  <2>7. (\A o \in {owner, ownerRow} : OwnerOK(o))' BY <2>2, <2>4, OwnerSame
  <2> QED BY <1>7, <1>8, <2>2, <2>4, <2>5, <2>6, <2>7, SetInv, IdleTask
<1>10. CASE ~CannotCommit(visitor, i)
  <2>1. To(d, "settle", "VISITOR_COMMITTED") /\ record' = record BY <1>3, <1>10 DEF CommitStep
  <2>2. UNCHANGED <<Stores, visitorRow, Owner, late, faults>> BY <1>8, <2>1 DEF Stores
  <2>3. Progress BY <1>1, <2>1, <2>2, ProgressFrom, LaterSame DEF Owner
  <2>4. "VISITOR_COMMITTED" \in Statuses BY DEF Statuses, Forward
  <2>5. Succeeds("OWNER_APPLIED", "VISITOR_COMMITTED") BY DEF Succeeds, Done, Gone
  <2>6. i \in visitor'.receipts BY <1>7, <1>8, <1>10
  <2>7. DriverOK(d)' /\ \E t \in Tasks : Set(d, t) /\ t.phase # "effect"
    BY <1>2, <1>3, <2>1, <2>3, <2>4, <2>5, <2>6, ToDriver
  <2> QED BY <1>7, <1>8, <2>2, <2>7, JobInv
<1> QED BY <1>9, <1>10

LEMMA SideEffectInv ==
    ASSUME Inv, NEW d \in Drivers, SideEffect(d)
    PROVE  Inv'
<1>1. TypeOK BY DEF Inv
<1>2. PICK i \in Interactions : i = driver[d].i /\ i \notin Sagas BY <1>1, TaskForms DEF SideEffect
<1>3. i \in everApplied BY <1>2 DEF SideEffect, Inv
<1>4. PICK w : w = Credit(visitor, i) OBVIOUS
<1>5. /\ w \in VisitorStates /\ Balanced(w) /\ Later(w, visitor)
      /\ w.receipts \subseteq visitor.receipts \cup {i} /\ w.reservations = visitor.reservations
  BY <1>4, CreditJob, VisitorNow
<1>6. Explained(w) BY <1>2, <1>3, <1>5, VisitorNow, ExplainedStep
<1>7. visitor' = w /\ Set(d, Idle) /\ UNCHANGED <<Stores, visitorRow, Owner, late, faults>>
  BY <1>2, <1>4 DEF SideEffect
<1>8. ~Driving(d)' BY <1>1, <1>7, SetTask, IdleTask DEF Driving
<1> QED BY <1>5, <1>6, <1>7, <1>8, IdleTask, JobInv

-----------------------------------------------------------------------------
(* The owner's side.                                                       *)

LEMMA ApplyFacts ==
    ASSUME Inv, NEW i \in Interactions, Apply(i)
    PROVE  /\ owner' \in OwnerStates /\ open' \in BOOLEAN
           /\ everApplied \subseteq everApplied' /\ everApplied' \in SUBSET Interactions
           /\ OwnerOK(owner)'
           /\ Accepts(owner, i) => i \in everApplied'
<1>1. TypeOK /\ OwnerOK(owner) BY DEF Inv
<1>2. owner \in OwnerStates /\ owner.receipts \subseteq Interactions /\ owner.taken \in Nat
  BY <1>1 DEF TypeOK, OwnerStates
<1>3. open' \in BOOLEAN BY Zenon DEF Apply
<1>4. everApplied' = everApplied \cup owner'.receipts BY DEF Apply
<1>5. everApplied \subseteq Interactions BY <1>1 DEF TypeOK
<1>6. CASE Accepts(owner, i) /\ i \notin owner.receipts
  <2> DEFINE c == owner.receipts \cup {i}
             n == owner.taken + 1
  <2>1. owner' = [receipts |-> c, taken |-> n] BY <1>6 DEF Apply, ApplyVisitorAction
  <2>2. owner'.receipts = c /\ owner'.taken = n BY <2>1
  <2>3. owner' \in OwnerStates BY <1>2, <2>1 DEF OwnerStates
  <2>4. IsFiniteSet(c) /\ Cardinality(c) = Cardinality(owner.receipts) + 1
    BY <1>1, <1>6, FS_AddElement DEF OwnerOK
  <2>5. n = Cardinality(c) BY <1>1, <2>4 DEF OwnerOK
  <2> HIDE DEF n
  <2>6. OwnerOK(owner)' BY <1>4, <2>2, <2>4, <2>5 DEF OwnerOK
  <2>7. i \in everApplied' BY <1>4, <2>2
  <2>8. everApplied' \in SUBSET Interactions BY <1>2, <1>4, <1>5, <2>2
  <2> QED BY <1>3, <1>4, <2>3, <2>6, <2>7, <2>8
<1>7. CASE ~(Accepts(owner, i) /\ i \notin owner.receipts)
  <2>1. owner' = owner BY <1>7 DEF Apply, ApplyVisitorAction
  <2>2. OwnerOK(owner)' BY <1>1, <1>4, <2>1 DEF OwnerOK
  <2>3. Accepts(owner, i) => i \in everApplied' BY <1>4, <1>7, <2>1
  <2>4. everApplied' \in SUBSET Interactions BY <1>2, <1>4, <1>5, <2>1
  <2> QED BY <1>2, <1>3, <1>4, <2>1, <2>2, <2>3, <2>4
<1> QED BY <1>6, <1>7

\* A job of the owner: what it needs of the goroutine that asked for it.
LEMMA ApplyInv ==
    ASSUME Inv, NEW i \in Interactions, Apply(i), UNCHANGED <<view, Visitor, ownerRow, epoch, visiting>>,
           record' \in RecordTable, Progress, (\A j \in Sagas : Backed(j, record[j].status))',
           NEW d \in Drivers, NEW t \in Tasks, Set(d, t), faults' \in 0..MaxFaults, late' = late,
           Driving(d)' => DriverOK(d)', t.phase = "effect" => t.i \in everApplied'
    PROVE  Inv'
<1>1. TypeOK BY DEF Inv
<1>2. /\ owner' \in OwnerStates /\ open' \in BOOLEAN
      /\ everApplied \subseteq everApplied' /\ everApplied' \in SUBSET Interactions
      /\ OwnerOK(owner)'
  BY ApplyFacts
<1>3. UNCHANGED <<view, visitor, visitorRow, ownerRow, epoch, visiting>> BY DEF Visitor
<1>4. driver' \in [Drivers -> Tasks] BY <1>1, SetTask
<1>5. TypeOK' BY <1>1, <1>2, <1>3, <1>4, TypeFrom DEF TypeOK
<1>6. (\A o \in {owner, ownerRow} : OwnerOK(o))'
  <2>1. OwnerOK(ownerRow) BY DEF Inv
  <2>2. OwnerOK(ownerRow)' BY <1>2, <1>3, <2>1 DEF OwnerOK
  <2> QED BY <1>2, <2>2
<1>7. /\ (\A v \in {visitor, visitorRow} : Balanced(v) /\ Explained(v))'
      /\ Later(visitor, visitorRow)'
  BY <1>3, VisitorSame
<1>8. Later(visitor', visitor) BY <1>3, LaterSame
<1> QED BY <1>5, <1>6, <1>7, <1>8, SetInv

LEMMA ApplyProgress ==
    ASSUME Inv, NEW i \in Interactions, Apply(i), UNCHANGED <<record, Visitor>>
    PROVE  /\ Progress /\ record' \in RecordTable
           /\ (\A j \in Sagas : Backed(j, record[j].status))'
<1>1. TypeOK BY DEF Inv
<1>2. everApplied \subseteq everApplied' BY ApplyFacts
<1>3. Progress BY <1>1, <1>2, ProgressFrom, LaterSame DEF Visitor
<1>4. record' \in RecordTable BY <1>1 DEF TypeOK, RecordTable
<1> QED BY <1>3, <1>4, RecordsSame

LEMMA ApplyStepInv ==
    ASSUME Inv, NEW d \in Drivers, ApplyStep(d)
    PROVE  Inv'
<1>1. TypeOK BY DEF Inv
<1>2. Driving(d) /\ driver[d].status = "VISITOR_RESERVED"
  BY DEF ApplyStep, At, Call, Driving
<1>3. PICK i \in Sagas : i = driver[d].i BY <1>1, <1>2, TaskForms
<1>4. i \in Interactions BY DEF Interactions
<1>5. /\ Apply(i) /\ faults' \in 0..MaxFaults
      /\ UNCHANGED <<record, view, Visitor, ownerRow, epoch, visiting, late>>
  BY <1>1, <1>3 DEF ApplyStep, Stores, TypeOK
<1>6. Progress /\ record' \in RecordTable /\ (\A j \in Sagas : Backed(j, record[j].status))'
  BY <1>4, <1>5, ApplyProgress
<1>7. PICK n : n = OwnerAnswer(i) OBVIOUS
<1>8. n = "RELEASING" \/ (n = "OWNER_APPLIED" /\ i \in everApplied')
  BY <1>4, <1>5, <1>7, ApplyFacts DEF OwnerAnswer
<1>9. n \in Statuses BY <1>8 DEF Statuses, Forward
<1>10. Succeeds("VISITOR_RESERVED", n) BY DEF Succeeds, Done, Gone
<1>11. Backed(i, n)'
  <2>1. Backed(i, "VISITOR_RESERVED")
    BY <1>2, <1>3 DEF Inv, DriverOK
  <2>2. Backed(i, "VISITOR_RESERVED")' BY <1>4, <1>6, <2>1, BackedKept
  <2> QED BY <1>8, <2>2 DEF Backed, Done
<1>12. To(d, "persist", n) BY <1>3, <1>7 DEF ApplyStep
<1>13. DriverOK(d)' /\ \E t \in Tasks : Set(d, t) /\ t.phase # "effect"
  BY <1>2, <1>3, <1>5, <1>6, <1>9, <1>10, <1>11, <1>12, ToDriver
<1> QED BY <1>4, <1>5, <1>6, <1>13, ApplyInv

LEMMA ReplyLostInv ==
    ASSUME Inv, NEW d \in Drivers, ReplyLost(d)
    PROVE  Inv'
<1>1. TypeOK BY DEF Inv
<1>2. Driving(d) BY DEF ReplyLost, At, Driving
<1>3. PICK i \in Interactions : i = driver[d].i BY <1>1, <1>2, TaskForms
<1>4. /\ Apply(i) /\ faults' \in 0..MaxFaults /\ DeferRetry(d)
      /\ UNCHANGED <<view, Visitor, ownerRow, epoch, visiting, late>>
  BY <1>1, <1>3, FaultType DEF ReplyLost
<1>5. everApplied \subseteq everApplied' BY <1>4, ApplyFacts
<1>6. Later(visitorRow', visitorRow) BY <1>4, LaterSame DEF Visitor
<1>7. /\ record' \in RecordTable /\ Progress
      /\ (\A j \in Sagas : Backed(j, record[j].status))' /\ Set(d, Idle) /\ ~Driving(d)'
  BY <1>2, <1>4, <1>5, <1>6, DeferRetryFacts
<1> QED BY <1>4, <1>7, IdleTask, ApplyInv

LEMMA AwaitOwnerInv ==
    ASSUME Inv, NEW d \in Drivers, AwaitOwner(d)
    PROVE  Inv'
<1>1. TypeOK BY DEF Inv
<1>2. driver[d].phase = "apply" /\ driver[d] \in DirectTasks BY <1>1, TaskForms DEF AwaitOwner
<1>3. PICK i \in Interactions : i = driver[d].i BY <1>1, <1>2, TaskForms
<1>4. /\ Apply(i) /\ faults' \in 0..MaxFaults
      /\ UNCHANGED <<record, view, Visitor, ownerRow, epoch, visiting, late>>
  BY <1>1, <1>3 DEF AwaitOwner, Stores, TypeOK
<1>5. Progress /\ record' \in RecordTable /\ (\A j \in Sagas : Backed(j, record[j].status))'
  BY <1>4, ApplyProgress
<1>6. CASE OwnerAnswer(i) = "OWNER_APPLIED"
  <2>1. i \in everApplied' BY <1>4, <1>6, ApplyFacts DEF OwnerAnswer
  <2>2. PICK t : t = [driver[d] EXCEPT !.phase = "effect"] OBVIOUS
  <2>3. t.phase = "effect" /\ t.i = i /\ t \in DirectTasks BY <1>2, <1>3, <2>2 DEF DirectTasks
  <2>4. t \in Tasks BY <2>3 DEF Tasks, DirectTasks
  <2>5. Set(d, t) BY <1>3, <1>6, <2>2 DEF AwaitOwner
  <2>6. ~Driving(d)' BY <1>1, <2>3, <2>4, <2>5, SetTask DEF Driving
  <2> QED BY <1>4, <1>5, <2>1, <2>3, <2>4, <2>5, <2>6, ApplyInv
<1>7. CASE OwnerAnswer(i) # "OWNER_APPLIED"
  <2>1. Set(d, Idle) BY <1>3, <1>7 DEF AwaitOwner
  <2>2. ~Driving(d)' BY <1>1, <2>1, SetTask, IdleTask DEF Driving
  <2> QED BY <1>4, <1>5, <2>1, <2>2, IdleTask, ApplyInv
<1> QED BY <1>6, <1>7

\* A goroutine moves on and the two Actors do not change.
LEMMA DriverOnlyInv ==
    ASSUME Inv, UNCHANGED <<Visitor, owner, ownerRow, everApplied>>,
           open' \in BOOLEAN, epoch' \in Nat, view' \in [Interactions -> Nat],
           visiting' \in SUBSET Interactions, faults' \in 0..MaxFaults,
           late' \in SUBSET [call : Calls, i : Interactions], \A c \in late' : c \in late \/ LateOK(c)',
           record' \in RecordTable, Progress, (\A j \in Sagas : Backed(j, record[j].status))',
           NEW d \in Drivers, NEW t \in Tasks, Set(d, t), Driving(d)' => DriverOK(d)', t.phase # "effect"
    PROVE  Inv'
<1>1. TypeOK BY DEF Inv
<1>2. UNCHANGED <<visitor, visitorRow, owner, ownerRow, everApplied>> BY DEF Visitor
<1>3. driver' \in [Drivers -> Tasks] BY <1>1, SetTask
<1>4. TypeOK' BY <1>1, <1>2, <1>3, TypeFrom DEF TypeOK
<1>5. /\ (\A v \in {visitor, visitorRow} : Balanced(v) /\ Explained(v))'
      /\ Later(visitor, visitorRow)'
  BY <1>2, VisitorSame
<1>6. (\A o \in {owner, ownerRow} : OwnerOK(o))' BY <1>2, OwnerSame
<1>7. Later(visitor', visitor) BY <1>2, LaterSame
<1> QED BY <1>4, <1>5, <1>6, <1>7, SetInv

LEMMA StillRecords ==
    ASSUME Inv, UNCHANGED <<record, visitorRow, everApplied>>
    PROVE  /\ record' \in RecordTable /\ Progress
           /\ (\A j \in Sagas : Backed(j, record[j].status))'
<1>1. TypeOK BY DEF Inv
<1>2. Progress BY <1>1, ProgressFrom, LaterSame
<1>3. record' \in RecordTable BY <1>1 DEF TypeOK, RecordTable
<1> QED BY <1>2, <1>3, RecordsSame

LEMMA AwaitFailsInv ==
    ASSUME Inv, NEW d \in Drivers, AwaitFails(d)
    PROVE  Inv'
<1>1. TypeOK BY DEF Inv
<1>2. PICK i \in Interactions : i = driver[d].i BY <1>1, TaskForms DEF AwaitFails
<1>3. /\ Set(d, Idle) /\ faults' \in 0..MaxFaults
      /\ UNCHANGED <<record, view, Visitor, ownerRow, epoch, visiting>>
  BY <1>1, FaultType DEF AwaitFails, Stores
<1>4. ~Driving(d)' BY <1>1, <1>3, SetTask, IdleTask DEF Driving
<1>5. CASE Apply(i) /\ late' = late
  <2>1. Progress /\ record' \in RecordTable /\ (\A j \in Sagas : Backed(j, record[j].status))'
    BY <1>3, <1>5, ApplyProgress
  <2> QED BY <1>3, <1>4, <1>5, <2>1, IdleTask, ApplyInv
<1>6. CASE /\ late' = late \/ late' = late \cup {[call |-> "apply", i |-> i]}
           /\ UNCHANGED <<owner, open, everApplied>>
  <2>1. PICK c : c = [call |-> "apply", i |-> i] OBVIOUS
  <2>2. c \in [call : Calls, i : Interactions] /\ c.call = "apply" BY <2>1 DEF Calls
  <2>3. LateOK(c)' BY <2>2 DEF LateOK
  <2>4. late' = late \/ late' = late \cup {c} BY <1>6, <2>1
  <2>5. late' \in SUBSET [call : Calls, i : Interactions] BY <1>1, <2>2, <2>4 DEF TypeOK
  <2>6. \A b \in late' : b \in late \/ LateOK(b)' BY <2>3, <2>4
  <2>7. Progress /\ record' \in RecordTable /\ (\A j \in Sagas : Backed(j, record[j].status))'
    BY <1>3, <1>6, StillRecords DEF Visitor
  <2>8. open' \in BOOLEAN /\ epoch' \in Nat /\ view' \in [Interactions -> Nat]
        /\ visiting' \in SUBSET Interactions
    BY <1>1, <1>3, <1>6 DEF TypeOK
  <2> QED BY <1>3, <1>4, <1>6, <2>5, <2>6, <2>7, <2>8, IdleTask, DriverOnlyInv
<1> QED BY <1>2, <1>5, <1>6 DEF AwaitFails

-----------------------------------------------------------------------------
(* The record's steps and their failures.                                  *)

LEMMA LoadInv ==
    ASSUME Inv, UNCHANGED <<Visitor, owner, ownerRow, open, epoch, everApplied, late, faults>>,
           view' \in [Interactions -> Nat], visiting' \in SUBSET Interactions,
           record' \in RecordTable, Progress, (\A j \in Sagas : Backed(j, record[j].status))',
           NEW d \in Drivers, NEW i \in Sagas, record'[i].status \in Statuses, Load(d, i)
    PROVE  Inv'
<1>1. TypeOK BY DEF Inv
<1>2. PICK s, n : s = record'[i].status /\ n = record'[i].version OBVIOUS
<1>3. s \in Statuses /\ n \in Nat /\ s # "none"
  BY <1>2 DEF RecordTable, Statuses, Forward, Terminal
<1>4. PICK t : t = Task("call", i, s, s, n) OBVIOUS
<1>5. t \in Tasks BY <1>3, <1>4, TaskType
<1>6. t.phase = "call" /\ t.i = i /\ t.status = s /\ t.next = s /\ t.version = n BY <1>4 DEF Task
<1>7. Set(d, t) BY <1>2, <1>4 DEF Load, Task
<1>8. driver'[d] = t BY <1>1, <1>5, <1>7, SetTask
<1>9. Backed(i, s)' BY <1>2
<1>10. n <= n /\ Succeeds(s, s) BY <1>3, SucceedsSame
<1>11. DriverOK(d)' BY <1>2, <1>3, <1>6, <1>8, <1>9, <1>10 DEF DriverOK
<1>12. open' \in BOOLEAN /\ epoch' \in Nat /\ faults' \in 0..MaxFaults
       /\ late' \in SUBSET [call : Calls, i : Interactions]
  BY <1>1 DEF TypeOK
<1> QED BY <1>5, <1>6, <1>7, <1>11, <1>12, DriverOnlyInv

LEMMA VisitType ==
    ASSUME TypeOK, NEW i \in Interactions, Visit(i)
    PROVE  view' \in [Interactions -> Nat] /\ visiting' \in SUBSET Interactions
BY DEF TypeOK, Visit

LEMMA ExecuteInv ==
    ASSUME Inv, NEW d \in Drivers, NEW i \in Sagas, Execute(d, i)
    PROVE  Inv'
<1>1. TypeOK BY DEF Inv
<1>2. i \in Interactions BY DEF Interactions
<1>3. UNCHANGED <<Visitor, owner, ownerRow, open, epoch, everApplied, late, faults>>
      /\ UNCHANGED visitorRow /\ Load(d, i)
  BY DEF Execute, Visitor
<1>4. CASE record[i].status = "none"
  <2>1. Visit(i) /\ record' = [record EXCEPT ![i] = [status |-> "INIT", version |-> 1]]
    BY <1>4 DEF Execute
  <2>2. view' \in [Interactions -> Nat] /\ visiting' \in SUBSET Interactions
    BY <1>1, <1>2, <2>1, VisitType
  <2>3. record \in RecordTable BY <1>1 DEF TypeOK, RecordTable
  <2>4. [status |-> "INIT", version |-> 1] \in [status : Statuses \cup {"none"}, version : Nat]
        /\ "INIT" \in Statuses
    BY DEF Statuses, Forward
  <2>5. record' \in RecordTable BY <2>1, <2>3, <2>4 DEF RecordTable
  <2>6. record'[i].status = "INIT" /\ \A j \in Sagas \ {i} : record'[j] = record[j]
    BY <2>1, <2>3 DEF RecordTable
  <2>7. Progress
    <3>1. Succeeds(record[i].status, record'[i].status) BY <1>4, <2>6 DEF Succeeds, Done, Gone
    <3>2. \A j \in Sagas \ {i} : record[j].version <= record'[j].version BY <1>1, <2>6, RecordFields
    <3>3. everApplied \subseteq everApplied' /\ Later(visitorRow', visitorRow) BY <1>3, LaterSame
    <3> QED BY <1>4, <2>6, <3>1, <3>2, <3>3, SucceedsSame DEF Progress
  <2>8. ASSUME NEW j \in Sagas, NEW s, s = record'[j].status PROVE Backed(j, s)'
    <3>1. CASE j = i BY <2>6, <2>8, <3>1 DEF Backed, Done
    <3>2. CASE j # i
      <4>1. Backed(j, s) BY <2>6, <2>8, <3>2 DEF Inv
      <4> QED BY <2>7, <4>1, BackedKept DEF Interactions
    <3> QED BY <3>1, <3>2
  <2>9. (\A j \in Sagas : Backed(j, record[j].status))' BY <2>8
  <2> QED BY <1>3, <2>2, <2>4, <2>5, <2>6, <2>7, <2>9, LoadInv
<1>5. CASE record[i].status # "none"
  <2>1. UNCHANGED <<record, view, visiting>> BY <1>5 DEF Execute
  <2>2. record'[i].status \in Statuses BY <1>1, <1>5, <2>1, RecordFields
  <2>3. Progress /\ record' \in RecordTable /\ (\A j \in Sagas : Backed(j, record[j].status))'
    BY <1>3, <2>1, StillRecords
  <2>4. view' \in [Interactions -> Nat] /\ visiting' \in SUBSET Interactions BY <1>1, <2>1 DEF TypeOK
  <2> QED BY <1>3, <2>2, <2>3, <2>4, LoadInv
<1> QED BY <1>4, <1>5

LEMMA ReconcileInv ==
    ASSUME Inv, NEW i \in Sagas, Reconcile(i)
    PROVE  Inv'
<1>1. TypeOK /\ Reconciler \in Drivers BY DEF Inv, Drivers
<1>2. UNCHANGED <<record, view, Visitor, visitorRow, owner, ownerRow, open, epoch, visiting,
                  everApplied, late, faults>> /\ Load(Reconciler, i)
  BY DEF Reconcile, Stores, Owner, Visitor
<1>3. record'[i].status \in Statuses BY <1>2 DEF Reconcile, Due
<1>4. Progress /\ record' \in RecordTable /\ (\A j \in Sagas : Backed(j, record[j].status))'
  BY <1>2, StillRecords
<1>5. view' \in [Interactions -> Nat] /\ visiting' \in SUBSET Interactions BY <1>1, <1>2 DEF TypeOK
<1> QED BY <1>1, <1>2, <1>3, <1>4, <1>5, LoadInv

LEMMA ExecuteDirectInv ==
    ASSUME Inv, NEW d \in Drivers, NEW i \in Directs, ExecuteDirect(d, i)
    PROVE  Inv'
<1>1. TypeOK /\ i \in Interactions BY DEF Inv, Interactions
<1>2. PICK t : t = [phase |-> "apply", i |-> i] OBVIOUS
<1>3. t \in Tasks /\ t.phase = "apply" BY <1>2 DEF Tasks
<1>4. Set(d, t) BY <1>2 DEF ExecuteDirect
<1>5. UNCHANGED <<record, Visitor, visitorRow, owner, ownerRow, open, epoch, everApplied, late, faults>>
  BY DEF ExecuteDirect, Visitor
<1>6. view' \in [Interactions -> Nat] /\ visiting' \in SUBSET Interactions
  BY <1>1, VisitType DEF ExecuteDirect, TypeOK
<1>7. Progress /\ record' \in RecordTable /\ (\A j \in Sagas : Backed(j, record[j].status))'
  BY <1>5, StillRecords
<1>8. ~Driving(d)' BY <1>1, <1>3, <1>4, SetTask DEF Driving
<1>9. open' \in BOOLEAN /\ epoch' \in Nat /\ faults' \in 0..MaxFaults
      /\ late' \in SUBSET [call : Calls, i : Interactions]
  BY <1>1, <1>5 DEF TypeOK
<1> QED BY <1>3, <1>4, <1>5, <1>6, <1>7, <1>8, <1>9, DriverOnlyInv

\* A goroutine that moves on to its update, with everything else as it was.
LEMMA MoveOnInv ==
    ASSUME Inv, NEW d \in Drivers, Driving(d), NEW n \in Statuses, To(d, "persist", n),
           NEW i \in Sagas, i = driver[d].i, Succeeds(driver[d].status, n), Backed(i, n),
           UNCHANGED <<Stores, Visitor, Owner>>, faults' \in 0..MaxFaults,
           late' \in SUBSET [call : Calls, i : Interactions],
           \A c \in late' : c \in late \/ LateOK(c)'
    PROVE  Inv'
<1>1. TypeOK BY DEF Inv
<1>2. UNCHANGED <<record, view, visitor, visitorRow, owner, ownerRow, open, epoch, visiting, everApplied>>
  BY DEF Stores, Visitor, Owner
<1>3. Progress /\ record' \in RecordTable /\ (\A j \in Sagas : Backed(j, record[j].status))'
  BY <1>2, StillRecords
<1>4. Backed(i, n)' BY <1>3, BackedKept DEF Interactions
<1>5. DriverOK(d)' /\ \E t \in Tasks : Set(d, t) /\ t.phase # "effect"
  BY <1>2, <1>3, <1>4, ToDriver
<1>6. open' \in BOOLEAN /\ epoch' \in Nat /\ view' \in [Interactions -> Nat]
      /\ visiting' \in SUBSET Interactions
  BY <1>1, <1>2 DEF TypeOK
<1> QED BY <1>2, <1>3, <1>5, <1>6, DriverOnlyInv

LEMMA LateSame ==
    ASSUME Inv, late' = late
    PROVE  /\ late' \in SUBSET [call : Calls, i : Interactions]
           /\ \A c \in late' : c \in late \/ LateOK(c)'
BY DEF Inv, TypeOK

LEMMA FinishStepInv ==
    ASSUME Inv, NEW d \in Drivers, FinishStep(d)
    PROVE  Inv'
<1>1. TypeOK BY DEF Inv
<1>2. Driving(d) /\ driver[d].status = "VISITOR_COMMITTED" BY DEF FinishStep, Driving
<1>3. PICK i \in Sagas : i = driver[d].i BY <1>1, <1>2, TaskForms
<1>4. Backed(i, "COMPLETED")
  <2>1. Backed(i, "VISITOR_COMMITTED") BY <1>2, <1>3 DEF Inv, DriverOK
  <2> QED BY <2>1 DEF Backed, Done
<1>5. "COMPLETED" \in Statuses /\ Succeeds("VISITOR_COMMITTED", "COMPLETED")
  BY DEF Statuses, Terminal, Succeeds, Done, Gone
<1>6. To(d, "persist", "COMPLETED") /\ UNCHANGED <<Stores, Visitor, Owner>> /\ late' = late
      /\ faults' \in 0..MaxFaults
  BY <1>1 DEF FinishStep, TypeOK
<1> QED BY <1>2, <1>3, <1>4, <1>5, <1>6, LateSame, MoveOnInv

\* The goroutine gives up for now, with the Actors as they were.
LEMMA DeferInv ==
    ASSUME Inv, NEW d \in Drivers, Driving(d), DeferRetry(d), UNCHANGED <<view, Visitor, Owner>>,
           faults' \in 0..MaxFaults, late' \in SUBSET [call : Calls, i : Interactions],
           \A c \in late' : c \in late \/ LateOK(c)'
    PROVE  Inv'
<1>1. TypeOK BY DEF Inv
<1>2. UNCHANGED <<view, visitor, visitorRow, owner, ownerRow, open, epoch, visiting, everApplied>>
  BY DEF Visitor, Owner
<1>3. Later(visitorRow', visitorRow) BY <1>2, LaterSame
<1>4. /\ record' \in RecordTable /\ Progress
      /\ (\A j \in Sagas : Backed(j, record[j].status))' /\ Set(d, Idle) /\ ~Driving(d)'
  BY <1>2, <1>3, DeferRetryFacts
<1>5. open' \in BOOLEAN /\ epoch' \in Nat /\ view' \in [Interactions -> Nat]
      /\ visiting' \in SUBSET Interactions
  BY <1>1, <1>2 DEF TypeOK
<1> QED BY <1>2, <1>4, <1>5, IdleTask, DriverOnlyInv

LEMMA AbortFacts ==
    ASSUME NEW i
    PROVE  /\ Backed(i, "ABORTED") /\ Succeeds("RELEASING", "ABORTED") /\ "ABORTED" \in Statuses
BY DEF Backed, Succeeds, Done, Gone, Statuses, Terminal

LEMMA CallFailsInv ==
    ASSUME Inv, NEW d \in Drivers, CallFails(d)
    PROVE  Inv'
<1>1. TypeOK BY DEF Inv
<1>2. Driving(d) /\ DriverOK(d) BY DEF CallFails, Driving, Inv
<1>3. PICK i \in Sagas : i = driver[d].i BY <1>1, <1>2, TaskForms
<1>4. PICK c : c = [call |-> Call(d), i |-> i] OBVIOUS
<1>5. c.call = Call(d) /\ c.i = i BY <1>4
<1>6. Call(d) \in Calls BY DEF CallFails, Call, Calls
<1>7. c \in [call : Calls, i : Interactions] BY <1>4, <1>6 DEF Interactions
<1>8. LateOK(c)
  <2>1. Call(d) = "commit" => driver[d].status = "OWNER_APPLIED" BY DEF Call
  <2>2. Call(d) = "release" => driver[d].status = "RELEASING" BY DEF Call
  <2>3. Call(d) = "commit" => record[i].status \in Done /\ i \in everApplied
    BY <1>2, <1>3, <2>1 DEF DriverOK, Succeeds, Backed, Done
  <2>4. Call(d) = "release" => record[i].status \in Gone
    BY <1>2, <1>3, <2>2 DEF DriverOK, Succeeds, Gone
  <2> QED BY <1>5, <2>3, <2>4 DEF LateOK
<1>9. late' = late \/ late' = late \cup {c} BY <1>3, <1>4 DEF CallFails
<1>10. late' \in SUBSET [call : Calls, i : Interactions] BY <1>1, <1>7, <1>9 DEF TypeOK
<1>11. faults' \in 0..MaxFaults /\ UNCHANGED <<view, Visitor, Owner>>
  BY <1>1, FaultType DEF CallFails
<1>12. Progress => \A b \in late' : b \in late \/ LateOK(b)'
  <2>1. Progress => LateOK(c)' BY <1>8, LateKept
  <2> QED BY <1>9, <2>1
<1>13. CASE Call(d) = "release"
  <2>1. To(d, "persist", "ABORTED") /\ record' = record BY <1>13 DEF CallFails
  <2>2. UNCHANGED <<Stores, Visitor, Owner>> BY <1>11, <2>1 DEF Stores
  <2>3. Progress BY <2>2, StillRecords DEF Stores, Visitor, Owner
  <2>4. driver[d].status = "RELEASING" BY <1>13 DEF Call
  <2> QED BY <1>2, <1>3, <1>10, <1>11, <1>12, <2>1, <2>2, <2>3, <2>4, AbortFacts, MoveOnInv
<1>14. CASE Call(d) # "release"
  <2>1. DeferRetry(d) BY <1>14 DEF CallFails
  <2>2. Later(visitorRow', visitorRow) /\ everApplied' = everApplied
    BY <1>11, LaterSame DEF Visitor, Owner
  <2>3. Progress BY <1>2, <2>1, <2>2, DeferRetryFacts
  <2> QED BY <1>2, <1>10, <1>11, <1>12, <2>1, <2>3, DeferInv
<1> QED BY <1>13, <1>14

LEMMA SettleFailsInv ==
    ASSUME Inv, NEW d \in Drivers, SettleFails(d)
    PROVE  Inv'
<1>1. TypeOK BY DEF Inv
<1>2. Driving(d) /\ DriverOK(d) /\ driver[d].phase = "settle" BY DEF SettleFails, Driving, Inv
<1>3. PICK i \in Sagas : i = driver[d].i BY <1>1, <1>2, TaskForms
<1>4. faults' \in 0..MaxFaults /\ UNCHANGED <<view, Visitor, Owner>> /\ late' = late
  BY <1>1, FaultType DEF SettleFails
<1>5. CASE driver[d].next = "ABORTED"
  <2>1. To(d, "persist", "ABORTED") /\ record' = record BY <1>5 DEF SettleFails
  <2>2. UNCHANGED <<Stores, Visitor, Owner>> BY <1>4, <2>1 DEF Stores
  <2>3. Succeeds(driver[d].status, "ABORTED") BY <1>2, <1>5 DEF DriverOK
  <2> QED BY <1>2, <1>3, <1>4, <2>1, <2>2, <2>3, AbortFacts, LateSame, MoveOnInv
<1>6. CASE driver[d].next # "ABORTED"
  <2>1. DeferRetry(d) BY <1>6 DEF SettleFails
  <2> QED BY <1>2, <1>4, <2>1, LateSame, DeferInv
<1> QED BY <1>5, <1>6

\* The visitor's row is written.
LEMMA RowWritten ==
    ASSUME Inv, visitor' = visitor, visitorRow' = visitor, UNCHANGED <<record, everApplied>>
    PROVE  /\ Progress /\ record' \in RecordTable
           /\ (\A j \in Sagas : Backed(j, record[j].status))'
           /\ (\A v \in {visitor, visitorRow} : Balanced(v) /\ Explained(v))'
           /\ Later(visitor, visitorRow)'
<1>1. TypeOK /\ Later(visitor, visitorRow) BY DEF Inv
<1>2. Progress BY <1>1, ProgressFrom
<1>3. record' \in RecordTable BY <1>1 DEF TypeOK, RecordTable
<1>4. (\A j \in Sagas : Backed(j, record[j].status))' BY <1>2, RecordsSame
<1>5. ASSUME NEW v, v = visitor PROVE Balanced(v) /\ Explained(v)' /\ Later(v, v)
  <2>1. Balanced(v) /\ Explained(v) BY <1>5 DEF Inv
  <2> QED BY <1>2, <2>1, ExplainedKept, LaterSame
<1>6. Balanced(visitor') /\ Explained(visitor)' /\ Later(visitor', visitorRow') BY <1>5
<1>7. Explained(visitorRow)' BY <1>6 DEF Explained
<1> QED BY <1>2, <1>3, <1>4, <1>6, <1>7

LEMMA SettleInv ==
    ASSUME Inv, NEW d \in Drivers, Settle(d)
    PROVE  Inv'
<1>1. TypeOK BY DEF Inv
<1>2. Driving(d) /\ DriverOK(d) /\ driver[d].phase = "settle" BY DEF Settle, Driving, Inv
<1>3. PICK i, n, s :
        i \in Sagas /\ n \in Statuses /\ i = driver[d].i /\ n = driver[d].next /\ s = driver[d].status
  BY <1>1, <1>2, TaskForms
<1>4. UNCHANGED <<record, view, visitor, owner, ownerRow, open, epoch, visiting, everApplied, late, faults>>
      /\ visitorRow' = visitor /\ To(d, "persist", n)
  BY <1>3 DEF Settle, SettledRow, Stores, Owner
<1>5. /\ Progress /\ record' \in RecordTable
      /\ (\A j \in Sagas : Backed(j, record[j].status))'
      /\ (\A v \in {visitor, visitorRow} : Balanced(v) /\ Explained(v))'
      /\ Later(visitor, visitorRow)'
  BY <1>4, RowWritten
<1>6. Backed(i, n)'
  <2>1. CASE n = "VISITOR_RESERVED"
    <3>1. visitorRow'.reservations[i] # "none" BY <1>2, <1>3, <1>4, <2>1 DEF DriverOK
    <3> QED BY <2>1, <3>1 DEF Backed, Done
  <2>2. CASE n = "VISITOR_COMMITTED"
    <3>1. s = "OWNER_APPLIED" /\ i \in visitorRow'.receipts /\ Backed(i, s)
      BY <1>2, <1>3, <1>4, <2>2 DEF DriverOK
    <3>2. Backed(i, s)' BY <1>3, <1>5, <3>1, BackedKept DEF Interactions
    <3> QED BY <2>2, <3>1, <3>2 DEF Backed, Done
  <2>3. CASE n = "ABORTED" BY <2>3 DEF Backed, Done
  <2> QED BY <1>2, <1>3, <2>1, <2>2, <2>3 DEF DriverOK
<1>7. Succeeds(s, n) BY <1>2, <1>3 DEF DriverOK
<1>8. DriverOK(d)' /\ \E t \in Tasks : Set(d, t) /\ t.phase # "effect"
  BY <1>2, <1>3, <1>4, <1>5, <1>6, <1>7, ToDriver
<1>9. PICK t \in Tasks : Set(d, t) /\ t.phase # "effect" BY <1>8
<1>10. driver' \in [Drivers -> Tasks] BY <1>1, <1>9, SetTask
<1>11. TypeOK' BY <1>1, <1>4, <1>5, <1>10, TypeFrom DEF TypeOK
<1>12. (\A o \in {owner, ownerRow} : OwnerOK(o))' BY <1>4, <1>5, OwnerSame
<1>13. Later(visitor', visitor) BY <1>4, LaterSame
<1> QED BY <1>4, <1>5, <1>8, <1>9, <1>11, <1>12, <1>13, SetInv

\* Update succeeds: the record becomes what the goroutine has prepared.
LEMMA WrittenFacts ==
    ASSUME Inv, UNCHANGED <<Visitor, Owner>>, NEW d \in Drivers, driver[d].phase = "persist",
           SameVersion(d)
    PROVE  record' = Written(d) =>
                /\ record' \in RecordTable /\ Progress
                /\ (\A j \in Sagas : Backed(j, record[j].status))'
                /\ record'[driver[d].i].status = driver[d].next
                /\ record'[driver[d].i].version = driver[d].version + 1
<1>1. TypeOK /\ Driving(d) /\ DriverOK(d) BY DEF Inv, Driving
<1>2. PICK i, n, k : i = driver[d].i /\ n = driver[d].next /\ k = driver[d].version + 1
  OBVIOUS
<1>3. i \in Sagas /\ n \in Statuses /\ k \in Nat BY <1>1, <1>2, TaskForms
<1>4. k = record[i].version + 1 /\ driver[d].status = record[i].status
  BY <1>1, <1>2 DEF SameVersion, DriverOK
<1>5. Succeeds(record[i].status, n) /\ Backed(i, n) BY <1>1, <1>2, <1>4 DEF DriverOK
<1>6. everApplied \subseteq everApplied' /\ Later(visitorRow', visitorRow)
  BY LaterSame DEF Owner, Visitor
<1>7. ASSUME record' = [record EXCEPT ![i] = [status |-> n, version |-> k]]
      PROVE  /\ record' \in RecordTable /\ Progress
             /\ (\A j \in Sagas : Backed(j, record[j].status))'
             /\ record'[i].status = n /\ record'[i].version = k
  BY <1>3, <1>4, <1>5, <1>6, <1>7, RecordWritten
<1>8. Written(d) = [record EXCEPT ![i] = [status |-> n, version |-> k]] BY <1>2 DEF Written
<1> QED BY <1>2, <1>7, <1>8

LEMMA PersistInv ==
    ASSUME Inv, NEW d \in Drivers, Persist(d)
    PROVE  Inv'
<1>1. TypeOK /\ Driving(d) /\ DriverOK(d) /\ driver[d].phase = "persist" BY DEF Inv, Persist, Driving
<1>2. PICK i \in Sagas, n \in Statuses : i = driver[d].i /\ n = driver[d].next BY <1>1, TaskForms
<1>3. UNCHANGED <<view, Visitor, Owner>> /\ late' = late /\ faults' \in 0..MaxFaults
  BY <1>1 DEF Persist, TypeOK
<1>4. open' \in BOOLEAN /\ epoch' \in Nat /\ view' \in [Interactions -> Nat]
      /\ visiting' \in SUBSET Interactions
  BY <1>1, <1>3 DEF TypeOK, Owner
<1>5. UNCHANGED <<owner, ownerRow, everApplied, visitorRow>> BY <1>3 DEF Owner, Visitor
<1>6. CASE SameVersion(d)
  <2>1. record' = Written(d) BY <1>6 DEF Persist
  <2>2. /\ record' \in RecordTable /\ Progress
        /\ (\A j \in Sagas : Backed(j, record[j].status))'
        /\ record'[i].status = n /\ record'[i].version = driver[d].version + 1
    BY <1>1, <1>2, <1>3, <1>6, <2>1, WrittenFacts
  <2>3. CASE n \in Terminal
    <3>1. Set(d, Idle) BY <1>2, <1>6, <2>3 DEF Persist
    <3>2. ~Driving(d)' BY <1>1, <3>1, SetTask, IdleTask DEF Driving
    <3> QED BY <1>3, <1>4, <1>5, <2>2, <3>1, <3>2, IdleTask, LateSame, DriverOnlyInv
  <2>4. CASE n \notin Terminal
    <3>1. PICK k \in Nat : k = driver[d].version + 1 BY <1>1, TaskForms
    <3>2. PICK t : t = Task("call", i, n, n, k) OBVIOUS
    <3>3. t \in Tasks BY <3>2, TaskType
    <3>4. t.phase = "call" /\ t.i = i /\ t.status = n /\ t.next = n /\ t.version = k
      BY <3>2 DEF Task
    <3>5. Set(d, t)
      <4> DEFINE b == driver[d]
      <4>1. b \in SagaTasks /\ b.i = i /\ b.next = n BY <1>1, <1>2, TaskForms
      <4>2. Set(d, [b EXCEPT !.phase = "call", !.status = n, !.version = k])
        BY <1>2, <1>6, <2>4, <3>1, Zenon DEF Persist
      <4> HIDE DEF b
      <4>3. [b EXCEPT !.phase = "call", !.status = n, !.version = k]
              = [[[b EXCEPT !.phase = "call"] EXCEPT !.status = n] EXCEPT !.version = k]
        BY Zenon
      <4>4. [b EXCEPT !.phase = "call"] = Task("call", i, b.status, n, b.version)
        BY <4>1 DEF SagaTasks, Task
      <4>5. [Task("call", i, b.status, n, b.version) EXCEPT !.status = n] = Task("call", i, n, n, b.version)
        BY DEF Task
      <4>6. [Task("call", i, n, n, b.version) EXCEPT !.version = k] = t BY <3>2 DEF Task
      <4> QED BY <4>2, <4>3, <4>4, <4>5, <4>6, Zenon
    <3>6. driver'[d] = t BY <1>1, <3>3, <3>5, SetTask
    <3>7. Backed(i, n)'
      <4>1. Backed(i, n) BY <1>1, <1>2 DEF DriverOK
      <4> QED BY <2>2, <4>1, BackedKept DEF Interactions
    <3>8. n # "none" /\ k <= k /\ Succeeds(n, n) BY <3>1, SucceedsSame DEF Statuses, Forward, Terminal
    <3>9. DriverOK(d)' BY <2>2, <3>1, <3>4, <3>6, <3>7, <3>8 DEF DriverOK
    <3> QED BY <1>3, <1>4, <1>5, <2>2, <3>3, <3>4, <3>5, <3>9, LateSame, DriverOnlyInv
  <2> QED BY <2>3, <2>4
<1>7. CASE ~SameVersion(d)
  <2>1. record' = record /\ Set(d, Idle) BY <1>7 DEF Persist
  <2>2. ~Driving(d)' BY <1>1, <2>1, SetTask, IdleTask DEF Driving
  <2>3. Progress /\ record' \in RecordTable /\ (\A j \in Sagas : Backed(j, record[j].status))'
    BY <1>5, <2>1, StillRecords
  <2> QED BY <1>3, <1>4, <1>5, <2>1, <2>2, <2>3, IdleTask, LateSame, DriverOnlyInv
<1> QED BY <1>6, <1>7

LEMMA PersistFailsInv ==
    ASSUME Inv, NEW d \in Drivers, PersistFails(d) \/ SideEffectFails(d)
    PROVE  Inv'
<1>1. TypeOK BY DEF Inv
<1>2. UNCHANGED <<view, Visitor, Owner>> /\ late' = late /\ faults' \in 0..MaxFaults /\ Set(d, Idle)
  BY <1>1, FaultType DEF PersistFails, SideEffectFails, Stores
<1>3. open' \in BOOLEAN /\ epoch' \in Nat /\ view' \in [Interactions -> Nat]
      /\ visiting' \in SUBSET Interactions
  BY <1>1, <1>2 DEF TypeOK, Owner
<1>4. UNCHANGED <<owner, ownerRow, everApplied, visitorRow>> BY <1>2 DEF Owner, Visitor
<1>5. ~Driving(d)' BY <1>1, <1>2, SetTask, IdleTask DEF Driving
<1>6. Progress /\ record' \in RecordTable /\ (\A j \in Sagas : Backed(j, record[j].status))'
  <2>1. CASE record' = record BY <1>4, <2>1, StillRecords
  <2>2. CASE PersistFails(d) /\ SameVersion(d) /\ record' = Written(d)
    <3>1. driver[d].phase = "persist" BY <2>2 DEF PersistFails
    <3>2. PICK i \in Sagas, n \in Statuses : i = driver[d].i /\ n = driver[d].next
      BY <1>1, <3>1, TaskForms DEF Driving
    <3> QED BY <1>2, <2>2, <3>1, <3>2, WrittenFacts
  <2> QED BY <2>1, <2>2 DEF PersistFails, SideEffectFails, Stores
<1> QED BY <1>2, <1>3, <1>4, <1>5, <1>6, IdleTask, LateSame, DriverOnlyInv

-----------------------------------------------------------------------------
(* Steps of no goroutine.                                                  *)

LEMMA EnvInv ==
    ASSUME Inv, driver' = driver, late' \subseteq late, TypeOK', Progress, Later(visitor', visitor),
           (\A v \in {visitor, visitorRow} : Balanced(v) /\ Explained(v))',
           Later(visitor, visitorRow)',
           (\A o \in {owner, ownerRow} : OwnerOK(o))',
           (\A i \in Sagas : Backed(i, record[i].status))'
    PROVE  Inv'
BY InvFrom

LEMMA LateCallInv ==
    ASSUME Inv, NEW c \in late, LateCall(c)
    PROVE  Inv'
<1>1. TypeOK /\ LateOK(c) BY DEF Inv
<1>2. c \in [call : Calls, i : Interactions] /\ c.i \in Interactions /\ c.call \in Calls
  BY <1>1 DEF TypeOK
<1>3. UNCHANGED <<record, view, visitorRow, ownerRow, epoch, visiting, driver, faults>>
      /\ late' \subseteq late
  BY DEF LateCall, Stores
<1>4. CASE c.call = "apply"
  <2>1. Apply(c.i) /\ visitor' = visitor BY <1>4 DEF LateCall
  <2>2. /\ owner' \in OwnerStates /\ open' \in BOOLEAN
        /\ everApplied \subseteq everApplied' /\ everApplied' \in SUBSET Interactions
        /\ OwnerOK(owner)'
    BY <1>2, <2>1, ApplyFacts
  <2>3. Progress /\ (\A j \in Sagas : Backed(j, record[j].status))'
    BY <1>2, <1>3, <2>1, ApplyProgress DEF Visitor
  <2>4. TypeOK' BY <1>1, <1>3, <2>1, <2>2, TypeFrom DEF TypeOK, RecordTable
  <2>5. (\A o \in {owner, ownerRow} : OwnerOK(o))'
    <3>1. OwnerOK(ownerRow) BY DEF Inv
    <3>2. OwnerOK(ownerRow)' BY <1>3, <2>2, <3>1 DEF OwnerOK
    <3> QED BY <2>2, <3>2
  <2>6. /\ (\A v \in {visitor, visitorRow} : Balanced(v) /\ Explained(v))'
        /\ Later(visitor, visitorRow)'
    BY <1>3, <2>1, <2>3, VisitorSame
  <2> QED BY <1>3, <2>1, <2>3, <2>4, <2>5, <2>6, LaterSame, EnvInv
<1>5. CASE c.call # "apply"
  <2>1. PICK i \in Sagas : i = c.i BY <1>1, <1>5 DEF LateOK
  <2>2. PICK w : w = visitor' OBVIOUS
  <2>3. w \in VisitorStates /\ Balanced(w) /\ Explained(w) /\ Later(w, visitor)
    <3>1. CASE c.call = "reserve"
      <4>1. w = Reserve(visitor, i) BY <1>5, <2>1, <2>2, <3>1 DEF LateCall
      <4>2. /\ w \in VisitorStates /\ Balanced(w) /\ Later(w, visitor)
            /\ w.receipts = visitor.receipts
            /\ \A j \in Interactions :
                    w.reservations[j] = "RELEASED" => visitor.reservations[j] = "RELEASED"
        BY <4>1, ReserveJob, VisitorNow DEF Interactions
      <4>3. Explained(w) BY <4>2, VisitorNow, ExplainedStep DEF Interactions
      <4> QED BY <4>2, <4>3
    <3>2. CASE c.call = "commit"
      <4>1. w = Commit(visitor, i) BY <1>5, <2>1, <2>2, <3>2 DEF LateCall
      <4>2. record[i].status \in Done /\ i \in everApplied BY <1>1, <1>5, <2>1, <3>2 DEF LateOK
      <4> QED BY <4>1, <4>2, CommitExplained
    <3>3. CASE c.call = "release"
      <4>1. w = Release(visitor, i) BY <1>5, <2>1, <2>2, <3>3 DEF LateCall
      <4>2. record[i].status \in Gone BY <1>1, <1>5, <2>1, <3>3 DEF LateOK
      <4>3. /\ w \in VisitorStates /\ Balanced(w) /\ Later(w, visitor)
            /\ w.receipts = visitor.receipts
            /\ \A j \in Interactions \ {i} : w.reservations[j] = visitor.reservations[j]
        BY <4>1, ReleaseJob, VisitorNow DEF Interactions
      <4>4. Explained(w) BY <4>2, <4>3, VisitorNow, ExplainedStep DEF Interactions
      <4> QED BY <4>3, <4>4
    <3> QED BY <1>2, <1>5, <3>1, <3>2, <3>3 DEF Calls
  <2>4. UNCHANGED <<owner, open, everApplied>> BY <1>5 DEF LateCall
  <2>5. Progress /\ (\A j \in Sagas : Backed(j, record[j].status))' BY <1>3, <2>4, StillRecords
  <2>6. late' \in SUBSET [call : Calls, i : Interactions] BY <1>1, <1>3 DEF TypeOK
  <2>7. TypeOK' BY <1>1, <1>3, <2>2, <2>3, <2>4, <2>6, TypeFrom DEF TypeOK, RecordTable
  <2>8. /\ (\A v \in {visitor, visitorRow} : Balanced(v) /\ Explained(v))'
        /\ Later(visitor, visitorRow)'
    BY <1>3, <2>2, <2>3, <2>5, VisitorStepped
  <2>9. (\A o \in {owner, ownerRow} : OwnerOK(o))' BY <1>3, <2>4, <2>5, OwnerSame
  <2> QED BY <1>3, <2>2, <2>3, <2>5, <2>7, <2>8, <2>9, EnvInv
<1> QED BY <1>4, <1>5

LEMMA VisitorHarvestInv == ASSUME Inv, VisitorHarvest PROVE Inv'
<1>1. TypeOK BY DEF Inv
<1>2. PICK w : w = Harvest(visitor) OBVIOUS
<1>3. visitor' = w BY <1>2, Zenon DEF VisitorHarvest, Harvest
<1>4. /\ w \in VisitorStates /\ Balanced(w) /\ Later(w, visitor)
      /\ w.receipts = visitor.receipts /\ w.reservations = visitor.reservations
  BY <1>2, HarvestJob, VisitorNow
<1>5. Explained(w) BY <1>4, VisitorNow DEF Explained
<1>6. UNCHANGED <<record, view, visitorRow, owner, ownerRow, open, epoch, visiting, everApplied,
                  driver, late, faults>>
  BY DEF VisitorHarvest, Stores, Owner
<1>7. Progress /\ (\A j \in Sagas : Backed(j, record[j].status))' BY <1>6, StillRecords
<1>8. TypeOK' BY <1>1, <1>3, <1>4, <1>6, TypeFrom DEF TypeOK, RecordTable
<1>9. /\ (\A v \in {visitor, visitorRow} : Balanced(v) /\ Explained(v))'
      /\ Later(visitor, visitorRow)'
  BY <1>3, <1>4, <1>5, <1>6, <1>7, VisitorStepped
<1>10. (\A o \in {owner, ownerRow} : OwnerOK(o))' BY <1>6, <1>7, OwnerSame
<1> QED BY <1>3, <1>4, <1>6, <1>7, <1>8, <1>9, <1>10, EnvInv

\* A step that leaves records, receipts, drivers and calls alone.
LEMMA ElsewhereInv ==
    ASSUME Inv, UNCHANGED <<record, view, visitor, visitorRow, owner, ownerRow, driver, late, faults, everApplied>>,
           open' \in BOOLEAN, epoch' \in Nat, visiting' \in SUBSET Interactions
    PROVE  Inv'
<1>1. TypeOK BY DEF Inv
<1>2. Progress /\ (\A j \in Sagas : Backed(j, record[j].status))' BY StillRecords
<1>3. TypeOK' BY <1>1, TypeFrom DEF TypeOK, RecordTable
<1>4. /\ (\A v \in {visitor, visitorRow} : Balanced(v) /\ Explained(v))'
      /\ Later(visitor, visitorRow)'
  BY <1>2, VisitorSame
<1>5. (\A o \in {owner, ownerRow} : OwnerOK(o))' BY <1>2, OwnerSame
<1> QED BY <1>2, <1>3, <1>4, <1>5, LaterSame, EnvInv

LEMMA PlotAndVisitInv == ASSUME Inv, OwnerCommand \/ VisitEnds PROVE Inv'
<1>1. TypeOK BY DEF Inv
<1>2. UNCHANGED <<record, view, visitor, visitorRow, owner, ownerRow, driver, late, faults, everApplied>>
  BY DEF OwnerCommand, VisitEnds, Stores, Visitor
<1>3. open' \in BOOLEAN
  <2>1. CASE OwnerCommand BY <2>1, Zenon DEF OwnerCommand
  <2>2. CASE VisitEnds BY <1>1, <2>2 DEF VisitEnds, TypeOK
  <2> QED BY <2>1, <2>2
<1>4. epoch' \in Nat /\ visiting' \in SUBSET Interactions
  BY <1>1 DEF OwnerCommand, VisitEnds, TypeOK
<1> QED BY <1>2, <1>3, <1>4, ElsewhereInv

LEMMA FlushVisitorInv == ASSUME Inv, FlushVisitor PROVE Inv'
<1>1. TypeOK BY DEF Inv
<1>2. UNCHANGED <<record, view, visitor, owner, ownerRow, open, epoch, visiting, everApplied,
                  driver, late, faults>> /\ visitorRow' = visitor
  BY DEF FlushVisitor, Stores, Owner
<1>3. /\ Progress /\ (\A j \in Sagas : Backed(j, record[j].status))'
      /\ (\A v \in {visitor, visitorRow} : Balanced(v) /\ Explained(v))'
      /\ Later(visitor, visitorRow)'
  BY <1>2, RowWritten
<1>4. TypeOK' BY <1>1, <1>2, TypeFrom DEF TypeOK, RecordTable
<1>5. (\A o \in {owner, ownerRow} : OwnerOK(o))' BY <1>2, <1>3, OwnerSame
<1> QED BY <1>2, <1>3, <1>4, <1>5, LaterSame, EnvInv

\* The owner's state is written to its row or read from it.
LEMMA OwnerRowInv == ASSUME Inv, FlushOwner \/ CrashOwner PROVE Inv'
<1>1. TypeOK BY DEF Inv
<1>2. UNCHANGED <<record, view, visitor, visitorRow, open, everApplied, driver, late>>
  BY DEF FlushOwner, CrashOwner, Stores, Visitor
<1>3. owner' \in {owner, ownerRow} /\ ownerRow' \in {owner, ownerRow} BY DEF FlushOwner, CrashOwner
<1>4. epoch' \in Nat /\ visiting' \in SUBSET Interactions /\ faults' \in 0..MaxFaults
  BY <1>1, FaultType DEF FlushOwner, CrashOwner, TypeOK
<1>5. Progress /\ (\A j \in Sagas : Backed(j, record[j].status))' BY <1>2, StillRecords
<1>6. TypeOK' BY <1>1, <1>2, <1>3, <1>4, TypeFrom DEF TypeOK, RecordTable
<1>7. /\ (\A v \in {visitor, visitorRow} : Balanced(v) /\ Explained(v))'
      /\ Later(visitor, visitorRow)'
  BY <1>2, <1>5, VisitorSame
<1>8. (\A o \in {owner, ownerRow} : OwnerOK(o))'
  <2>1. \A o \in {owner, ownerRow} : OwnerOK(o) BY DEF Inv
  <2> QED BY <1>2, <1>3, <2>1 DEF OwnerOK
<1> QED BY <1>2, <1>5, <1>6, <1>7, <1>8, LaterSame, EnvInv

LEMMA CrashVisitorInv ==
    ASSUME Inv, NEW survivors \in SUBSET Drivers, CrashVisitor(survivors)
    PROVE  Inv'
<1>1. TypeOK BY DEF Inv
<1>2. UNCHANGED <<record, view, visitorRow, owner, ownerRow, open, epoch, visiting, everApplied>>
      /\ visitor' = visitorRow /\ late' \subseteq late
  BY DEF CrashVisitor, Stores, Owner
<1>3. faults' \in 0..MaxFaults BY <1>1, FaultType DEF CrashVisitor
<1>4. driver' = [d \in Drivers |-> IF d \in survivors THEN driver[d] ELSE Idle]
      /\ \A d \in survivors : driver[d].phase # "settle"
  BY DEF CrashVisitor
<1>5. driver' \in [Drivers -> Tasks] BY <1>1, <1>4, IdleTask DEF TypeOK
<1>6. Progress /\ (\A j \in Sagas : Backed(j, record[j].status))' BY <1>2, StillRecords
<1>7. late' \in SUBSET [call : Calls, i : Interactions] BY <1>1, <1>2 DEF TypeOK
<1>8. TypeOK' BY <1>1, <1>2, <1>3, <1>5, <1>7, TypeFrom DEF TypeOK, RecordTable
<1>9. /\ (\A v \in {visitor, visitorRow} : Balanced(v) /\ Explained(v))'
      /\ Later(visitor, visitorRow)'
  <2>1. PICK w : w = visitorRow OBVIOUS
  <2>2. Balanced(w) /\ Explained(w) BY <2>1 DEF Inv
  <2>3. Explained(w)' BY <1>6, <2>2, ExplainedKept
  <2>4. Later(w, w) BY LaterSame
  <2> QED BY <1>2, <2>1, <2>2, <2>3, <2>4
<1>10. (\A o \in {owner, ownerRow} : OwnerOK(o))' BY <1>2, <1>6, OwnerSame
<1>11. ASSUME NEW e \in Drivers
       PROVE  \/ driver'[e] = driver[e] /\ driver[e].phase # "settle"
              \/ ~Driving(e)' /\ driver'[e].phase # "effect"
  <2>1. CASE e \in survivors BY <1>4, <2>1
  <2>2. CASE e \notin survivors
    <3>1. driver'[e] = Idle BY <1>4, <2>2
    <3> QED BY <3>1, IdleTask DEF Driving
  <2> QED BY <2>1, <2>2
<1> QED BY <1>2, <1>6, <1>8, <1>9, <1>10, <1>11, InvFrom

-----------------------------------------------------------------------------
(* The theorems.                                                           *)

LEMMA InitInv == Init => Inv
<1> SUFFICES ASSUME Init PROVE Inv OBVIOUS
<1>1. visitor = VisitorOf([i \in Interactions |-> "none"], {}, 0, Room, 0) /\ visitorRow = visitor
  BY DEF Init, VisitorOf
<1>2. visitor \in VisitorStates /\ visitorRow \in VisitorStates
  <2>1. [i \in Interactions |-> "none"] \in [Interactions -> Marks] BY DEF Marks
  <2>2. Room \in Int /\ 0 \in Nat /\ {} \in SUBSET Interactions BY InteractionAssumption
  <2> QED BY <1>1, <2>1, <2>2, VisitorType
<1>3. owner \in OwnerStates /\ ownerRow \in OwnerStates BY DEF Init, OwnerStates
<1>4. record \in RecordTable BY DEF Init, RecordTable
<1>5. TypeOK BY <1>2, <1>3, <1>4, IdleTask, InteractionAssumption DEF Init, TypeOK, RecordTable
<1>6. Cardinality({}) = 0 /\ IsFiniteSet({}) BY FS_EmptySet
<1>7. visitor.receipts = {} /\ visitor.gain = 0 /\ visitor.room = Room /\ visitor.harvested = 0
      /\ \A i \in Interactions : visitor.reservations[i] = "none"
  BY <1>1 DEF VisitorOf
<1>8. Reserved(visitor) = {} BY <1>7 DEF Reserved
<1>9. Balanced(visitor) /\ Explained(visitor)
  <2>1. 0 <= Room + 0 BY InteractionAssumption
  <2>2. Balanced(visitor) BY <1>6, <1>7, <1>8, <2>1 DEF Balanced
  <2>3. Explained(visitor) BY <1>7 DEF Explained, Interactions
  <2> QED BY <2>2, <2>3
<1>10. Later(visitor, visitorRow) BY <1>1, LaterSame
<1>11. \A o \in {owner, ownerRow} : OwnerOK(o) BY <1>6 DEF Init, OwnerOK
<1>12. \A i \in Sagas : record[i].status = "none" BY DEF Init
<1>13. \A i \in Sagas : Backed(i, record[i].status) BY <1>12 DEF Backed, Done
<1>14. \A d \in Drivers : driver[d].phase = "idle" BY DEF Init, Idle
<1>15. late = {} BY DEF Init
<1> QED BY <1>1, <1>5, <1>9, <1>10, <1>11, <1>13, <1>14, <1>15 DEF Inv, Driving

LEMMA NextInv == Inv /\ [Next]_vars => Inv'
<1> SUFFICES ASSUME Inv, [Next]_vars PROVE Inv' OBVIOUS
<1>1. Requests \subseteq Drivers BY DEF Drivers
<1>2. ASSUME NEW d \in Requests, NEW i \in Sagas, Execute(d, i) PROVE Inv'
  BY <1>1, <1>2, ExecuteInv
<1>3. ASSUME NEW d \in Requests, NEW i \in Directs, ExecuteDirect(d, i) PROVE Inv'
  BY <1>1, <1>3, ExecuteDirectInv
<1>4. ASSUME NEW i \in Sagas, Reconcile(i) PROVE Inv' BY <1>4, ReconcileInv
<1>5. ASSUME NEW d \in Drivers, SagaStep(d) PROVE Inv'
  BY <1>5, ReserveStepInv, ApplyStepInv, CommitStepInv, ReleaseStepInv, SettleInv, FinishStepInv,
     PersistInv DEF SagaStep
<1>6. ASSUME NEW d \in Drivers, DirectStep(d) PROVE Inv'
  BY <1>6, AwaitOwnerInv, SideEffectInv DEF DirectStep
<1>7. ASSUME NEW d \in Drivers, Interrupt(d) PROVE Inv'
  BY <1>7, CallFailsInv, ReplyLostInv, SettleFailsInv, PersistFailsInv, AwaitFailsInv DEF Interrupt
<1>8. ASSUME NEW c \in late, LateCall(c) PROVE Inv' BY <1>8, LateCallInv
<1>9. ASSUME NEW survivors \in SUBSET Drivers, CrashVisitor(survivors) PROVE Inv'
  BY <1>9, CrashVisitorInv
<1>10. CASE VisitorHarvest \/ OwnerCommand \/ VisitEnds \/ FlushVisitor \/ FlushOwner \/ CrashOwner
  BY <1>10, VisitorHarvestInv, PlotAndVisitInv, FlushVisitorInv, OwnerRowInv
<1>11. CASE UNCHANGED vars
  <2>1. UNCHANGED <<record, view, visitor, visitorRow, owner, ownerRow, open, epoch, visiting,
                    driver, late, faults, everApplied>>
    BY <1>11 DEF vars
  <2>2. open' \in BOOLEAN /\ epoch' \in Nat /\ visiting' \in SUBSET Interactions
    BY <2>1 DEF Inv, TypeOK
  <2> QED BY <2>1, <2>2, ElsewhereInv
<1> QED BY <1>2, <1>3, <1>4, <1>5, <1>6, <1>7, <1>8, <1>9, <1>10, <1>11 DEF Next

\* The inductive invariant: records, drivers' copies of them, calls still under
\* way and both Actors' states, in memory and in their rows, agree.
THEOREM InvTheorem == Spec => []Inv
<1>1. Init => Inv BY InitInv
<1>2. Inv /\ [Next]_vars => Inv' BY NextInv
<1> QED BY <1>1, <1>2, PTL DEF Spec

\* The receipts of findFriendReceipt make each side's effect happen once, whatever
\* is retried, carried out late or lost in a crash.
THEOREM OneEffectEachTheorem == Spec => []OneEffectEach
<1>1. Inv => OneEffectEach BY DEF Inv, OneEffectEach, OwnerOK, Balanced
<1> QED BY <1>1, InvTheorem, PTL

\* The visitor is credited only for what the owner has applied.
THEOREM CreditedWasAppliedTheorem == Spec => []CreditedWasApplied
<1>1. Inv => CreditedWasApplied BY DEF Inv, CreditedWasApplied, Explained
<1> QED BY <1>1, InvTheorem, PTL

\* An aborted interaction is not credited, and one past its commit has its receipt
\* in the visitor's row.
THEOREM OutcomeAgreesTheorem == Spec => []OutcomeAgrees
<1>1. Inv => OutcomeAgrees
  <2> SUFFICES ASSUME Inv, NEW i \in Sagas
               PROVE  /\ record[i].status \in {"RELEASING", "ABORTED"} =>
                            i \notin visitor.receipts \cup visitorRow.receipts
                      /\ record[i].status \in {"VISITOR_COMMITTED", "COMPLETED"} =>
                            i \in visitor.receipts \cap visitorRow.receipts
    BY DEF OutcomeAgrees
  <2>1. i \in visitor.receipts \cup visitorRow.receipts => record[i].status \in Done
    BY DEF Inv, Explained
  <2>2. record[i].status \in {"VISITOR_COMMITTED", "COMPLETED"} => i \in visitorRow.receipts
    BY DEF Inv, Backed
  <2>3. visitorRow.receipts \subseteq visitor.receipts BY DEF Inv, Later
  <2> QED BY <2>1, <2>2, <2>3 DEF Done
<1> QED BY <1>1, InvTheorem, PTL

\* RoomToReserve never promises more chances, or more of a stack, than there are;
\* only the visitor's own harvests overfill the stack.
THEOREM ReservationsFitTheorem == Spec => []ReservationsFit
<1>1. Inv => ReservationsFit BY DEF Inv, ReservationsFit, Balanced
<1> QED BY <1>1, InvTheorem, PTL

\* Once the owner has applied an interaction its reservation is held until the
\* commit, in memory and in the row.
THEOREM AppliedCanCommitTheorem == Spec => []AppliedCanCommit
<1>1. Inv => AppliedCanCommit
  <2> SUFFICES ASSUME Inv, NEW i \in Sagas, record[i].status = "OWNER_APPLIED",
                      NEW v \in {visitor, visitorRow}
               PROVE  i \in v.receipts \/ v.reservations[i] = "RESERVED"
    BY DEF AppliedCanCommit
  <2>1. i \in Interactions /\ v \in VisitorStates BY DEF Interactions, Inv, TypeOK
  <2>2. v.reservations[i] \in Marks BY <2>1, VisitorFields
  <2>3. visitorRow.reservations[i] # "none" BY DEF Inv, Backed, Done
  <2>4. v.reservations[i] # "none" BY <2>1, <2>3 DEF Inv, Later
  <2>5. v.reservations[i] # "RELEASED" BY DEF Inv, Explained, Gone
  <2>6. v.reservations[i] = "CONSUMED" => i \in v.receipts BY <2>1 DEF Inv, Balanced
  <2> QED BY <2>2, <2>4, <2>5, <2>6 DEF Marks
<1> QED BY <1>1, InvTheorem, PTL
=============================================================================
