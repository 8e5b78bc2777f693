-------------------------- MODULE FriendLinkProofs --------------------------
(***************************************************************************)
(* Proofs about FriendLink: for any share codes, redeemers, limits, number  *)
(* of requests and faults, friend lists stay within the limit, friendships  *)
(* are mutual, and tasks and rewards are credited once.                     *)
(***************************************************************************)
EXTENDS FriendLink, FiniteSetTheorems, TLAPS

-----------------------------------------------------------------------------
(* The two players of a link.                                              *)

Other(l, p) == CHOOSE q \in Pair(l) : q # p

LEMMA PairFacts ==
    ASSUME NEW l \in Links
    PROVE  /\ Low(l) \in Pair(l) /\ High(l) \in Pair(l) /\ Low(l) # High(l)
           /\ Pair(l) = {Low(l), High(l)} /\ Pair(l) \subseteq Players
           /\ \A p \in Pair(l) :
                Other(l, p) \in Pair(l) /\ Other(l, p) # p /\ Pair(l) = {p, Other(l, p)}
<1>1. CodeOwner[l] # Redeemer[l] BY LinkAssumption
<1>2. Low(l) \in Pair(l) BY DEF Low, Pair
<1>3. \E p \in Pair(l) : p # Low(l) BY <1>1 DEF Pair
<1>4. High(l) \in Pair(l) /\ High(l) # Low(l) BY <1>3 DEF High
<1>5. Pair(l) = {Low(l), High(l)} BY <1>2, <1>4 DEF Pair
<1>6. Pair(l) \subseteq Players BY DEF Pair, Players
<1>7. ASSUME NEW p \in Pair(l)
      PROVE  Other(l, p) \in Pair(l) /\ Other(l, p) # p /\ Pair(l) = {p, Other(l, p)}
  <2>1. \E q \in Pair(l) : q # p BY <1>1 DEF Pair
  <2>2. Other(l, p) \in Pair(l) /\ Other(l, p) # p BY <2>1 DEF Other
  <2> QED BY <2>2 DEF Pair
<1> QED BY <1>2, <1>4, <1>5, <1>6, <1>7

-----------------------------------------------------------------------------
(* Types.                                                                  *)

CopyTasks == [phase : {"step", "high", "persist"}, link : Links, copy : Sagas]
LoadTasks == [phase : {"load"}, link : Links, friends : BOOLEAN]

LEMMA TaskForms ==
    ASSUME TypeOK, NEW d \in Drivers
    PROVE  /\ Copying(d) => driver[d] \in CopyTasks
           /\ driver[d].phase = "load" => driver[d] \in LoadTasks
           /\ driver[d] = Idle \/ driver[d].phase \in {"load", "step", "high", "persist"}
<1>1. driver[d] \in Tasks BY DEF TypeOK
<1> QED BY <1>1 DEF Tasks, Idle, Copying, CopyTasks, LoadTasks

LEMMA CopyFields ==
    ASSUME TypeOK, NEW d \in Drivers, Copying(d)
    PROVE  /\ driver[d].link \in Links /\ driver[d].copy \in Sagas
           /\ driver[d].copy.version \in Nat
<1>1. driver[d] \in CopyTasks BY TaskForms
<1> QED BY <1>1 DEF CopyTasks, Sagas

LEMMA SagaFields ==
    ASSUME TypeOK, NEW l \in Links, saga[l] # NoSaga
    PROVE  saga[l] \in Sagas /\ saga[l].version \in Nat
BY DEF TypeOK, Sagas

\* A Saga's record is not the absent one.
LEMMA SagaPresent == ASSUME NEW s \in Sagas PROVE s # NoSaga
BY DEF Sagas, NoSaga, Statuses, Projected

\* What a goroutine is doing after its step.
LEMMA SetTask ==
    ASSUME TypeOK, NEW d \in Drivers, NEW t \in Tasks, Set(d, t)
    PROVE  /\ driver' \in [Drivers -> Tasks] /\ driver'[d] = t
           /\ \A e \in Drivers \ {d} : driver'[e] = driver[e]
BY DEF Set, TypeOK

Doing(phase, l, c) == [phase |-> phase, link |-> l, copy |-> c]

LEMMA DoingType ==
    ASSUME NEW phase \in {"step", "high", "persist"}, NEW l \in Links, NEW c \in Sagas
    PROVE  Doing(phase, l, c) \in CopyTasks /\ Doing(phase, l, c) \in Tasks
BY DEF Doing, CopyTasks, Tasks

LEMMA DoingAfter ==
    ASSUME NEW t \in CopyTasks, NEW c
    PROVE  /\ [t EXCEPT !.phase = "persist", !.copy = c] = Doing("persist", t.link, c)
           /\ [t EXCEPT !.phase = "high"] = Doing("high", t.link, t.copy)
           /\ [t EXCEPT !.phase = "step", !.copy = c] = Doing("step", t.link, c)
<1>1. \A ph : [t EXCEPT !.phase = ph] = Doing(ph, t.link, t.copy) BY DEF CopyTasks, Doing
<1>2. \A ph, l, x : [Doing(ph, l, x) EXCEPT !.copy = c] = Doing(ph, l, c) BY DEF Doing
<1>3. \A ph : [t EXCEPT !.phase = ph, !.copy = c] = [[t EXCEPT !.phase = ph] EXCEPT !.copy = c]
  BY Zenon
<1>4. ASSUME NEW ph PROVE [t EXCEPT !.phase = ph, !.copy = c] = Doing(ph, t.link, c)
  <2>1. [t EXCEPT !.phase = ph] = Doing(ph, t.link, t.copy) BY <1>1
  <2>2. [t EXCEPT !.phase = ph, !.copy = c] = [Doing(ph, t.link, t.copy) EXCEPT !.copy = c]
    BY <1>3, <2>1, Zenon
  <2> QED BY <1>2, <2>2, Zenon
<1> QED BY <1>1, <1>4

LEMMA PersistingTask ==
    ASSUME TypeOK, NEW d \in Drivers, Copying(d), NEW c \in Sagas, Persisting(d, c)
    PROVE  Set(d, Doing("persist", driver[d].link, c))
<1>1. driver[d] \in CopyTasks BY TaskForms
<1>2. [driver[d] EXCEPT !.phase = "persist", !.copy = c] = Doing("persist", driver[d].link, c)
  BY <1>1, DoingAfter
<1> QED BY <1>2 DEF Persisting

LEMMA HighTask ==
    ASSUME TypeOK, NEW d \in Drivers, Copying(d), Set(d, [driver[d] EXCEPT !.phase = "high"])
    PROVE  Set(d, Doing("high", driver[d].link, driver[d].copy))
<1>1. driver[d] \in CopyTasks BY TaskForms
<1>2. [driver[d] EXCEPT !.phase = "high"] = Doing("high", driver[d].link, driver[d].copy)
  BY <1>1, DoingAfter
<1> QED BY <1>2

LEMMA StatusCopy ==
    ASSUME NEW c \in Sagas, NEW x \in Statuses
    PROVE  LET c2 == [c EXCEPT !.status = x]
           IN  c2 \in Sagas /\ c2.status = x /\ c2.version = c.version /\ c2.relation = c.relation
BY DEF Sagas

LEMMA FaultType == ASSUME TypeOK, Fault PROVE faults' \in 0..MaxFaults
BY LinkAssumption DEF Fault, TypeOK

LEMMA WrittenType ==
    ASSUME TypeOK, NEW d \in Drivers, Copying(d)
    PROVE  /\ Written(d) \in Sagas /\ Written(d).version = driver[d].copy.version + 1
           /\ Written(d).status = driver[d].copy.status
           /\ Written(d).relation = driver[d].copy.relation
<1> DEFINE c == driver[d].copy
           v == c.version + 1
<1>1. c \in Sagas /\ v \in Nat BY CopyFields
<1>2. Written(d) = [c EXCEPT !.version = v] BY DEF Written
<1> HIDE DEF c, v
<1>3. Written(d) \in Sagas BY <1>1, <1>2 DEF Sagas
<1>4. Written(d).version = v /\ Written(d).status = c.status /\ Written(d).relation = c.relation
  BY <1>1, <1>2 DEF Sagas
<1> QED BY <1>3, <1>4 DEF c, v

\* The parts of the type invariant a step of the Saga changes.
LEMMA TypeFrom ==
    ASSUME TypeOK, driver' \in [Drivers -> Tasks], saga' \in [Links -> Sagas \cup {NoSaga}],
           list' \in [Players -> Lists], relation' \in SUBSET Links,
           credits' \in SUBSET [player : Players, friend : Players, relation : Links],
           rewarded' \in SUBSET Links,
           mails' \in SUBSET [source : [side : {"inviter", "invitee"}, of : Players],
                              to : Players, for : Players],
           faults' \in 0..MaxFaults
    PROVE  TypeOK'
BY DEF TypeOK

LEMMA ListTypes ==
    ASSUME TypeOK, NEW p \in Players, NEW l \in Links
    PROVE  /\ ReserveSlot(p, l) => list' \in [Players -> Lists]
           /\ Release(p, l) \in [Players -> Lists]
           /\ \A r \in Links : p \in Pair(l) /\ Consume(p, l, r) => list' \in [Players -> Lists]
<1>1. list \in [Players -> Lists] /\ list[p].reservations \subseteq Links
      /\ list[p].entries \subseteq [friend : Players, relation : Links]
  BY DEF TypeOK, Lists
<1>2. \A R \in SUBSET Links : [list EXCEPT ![p].reservations = R] \in [Players -> Lists]
  BY <1>1 DEF Lists
<1>3. ReserveSlot(p, l) => list' \in [Players -> Lists] BY <1>1, <1>2 DEF ReserveSlot
<1>4. Release(p, l) \in [Players -> Lists] BY <1>1, <1>2 DEF Release
<1>5. ASSUME NEW r \in Links, p \in Pair(l), Consume(p, l, r) PROVE list' \in [Players -> Lists]
  <2> DEFINE f == CHOOSE q \in Pair(l) : q # p
             n == [entries |-> list[p].entries \cup {[friend |-> f, relation |-> r]},
                   reservations |-> list[p].reservations \ {l}]
  <2>1. f \in Players
    <3>1. f = Other(l, p) BY DEF Other
    <3> QED BY <1>5, <3>1, PairFacts
  <2> HIDE DEF f
  <2>2. n \in Lists
    <3>1. [friend |-> f, relation |-> r] \in [friend : Players, relation : Links] BY <2>1
    <3>2. list[p].entries \cup {[friend |-> f, relation |-> r]} \in SUBSET [friend : Players, relation : Links]
      BY <1>1, <3>1
    <3>3. list[p].reservations \ {l} \in SUBSET Links BY <1>1
    <3> QED BY <3>2, <3>3 DEF Lists
  <2>3. list' = list \/ list' = [list EXCEPT ![p] = n] BY <1>5 DEF Consume, f
  <2> HIDE DEF n
  <2> QED BY <1>1, <2>2, <2>3
<1> QED BY <1>3, <1>4, <1>5

-----------------------------------------------------------------------------
(* What advance makes of a goroutine's copy.                               *)

\* The goroutine goes on with another phase and copy, and the Saga's record
\* stays as it is.
Moves(d, phase, c) ==
    /\ Copying(d) /\ driver[d].phase # "persist"
    /\ phase \in {"high", "persist"} /\ c \in Sagas
    /\ saga' = saga
    /\ Set(d, Doing(phase, driver[d].link, c))
    /\ c.version = driver[d].copy.version
    /\ Succeeds(driver[d].copy, c)
    /\ phase = "high" => c = driver[d].copy

LEMMA CreditedCopy ==
    ASSUME NEW c \in Sagas, NEW p \in Players, NEW c2, c2 = [c EXCEPT !.credited = @ \cup {p}]
    PROVE  /\ c2 \in Sagas /\ c2.version = c.version
           /\ c2.status = c.status /\ c2.relation = c.relation
BY DEF Sagas

LEMMA ClaimedCopy ==
    ASSUME NEW c \in Sagas, NEW c2,
           c2 = [c EXCEPT !.status = "REWARD_MAILS_CREATED", !.claimed = TRUE]
    PROVE  /\ c2 \in Sagas /\ c2.version = c.version
           /\ c2.status = "REWARD_MAILS_CREATED" /\ c2.relation = c.relation
BY DEF Sagas, Statuses, Projected

LEMMA MailedCopy ==
    ASSUME NEW c \in Sagas, NEW side \in {"inviter", "invitee"}, NEW c2,
           c2 = [c EXCEPT !.mailed = @ \cup {side}]
    PROVE  /\ c2 \in Sagas /\ c2.version = c.version
           /\ c2.status = c.status /\ c2.relation = c.relation
BY DEF Sagas

LEMMA PersistingMoves ==
    ASSUME TypeOK, NEW d \in Drivers, driver[d].phase \in {"step", "high"}, saga' = saga,
           NEW c \in Sagas, Persisting(d, c), c.version = driver[d].copy.version,
           Succeeds(driver[d].copy, c)
    PROVE  Moves(d, "persist", c)
<1>1. Copying(d) BY DEF Copying
<1> QED BY <1>1, PersistingTask DEF Moves

LEMMA ProceedMoves ==
    ASSUME TypeOK, NEW d \in Drivers, driver[d].phase \in {"step", "high"}, saga' = saga,
           NEW x \in Statuses, Proceed(d, x),
           Status(d) \in Committed => x \in Committed,
           Status(d) \in Releasing => x \in Releasing
    PROVE  Moves(d, "persist", [driver[d].copy EXCEPT !.status = x])
<1> DEFINE c == [driver[d].copy EXCEPT !.status = x]
<1>1. driver[d].copy \in Sagas BY CopyFields DEF Copying
<1>2. c \in Sagas /\ c.status = x /\ c.version = driver[d].copy.version BY <1>1, StatusCopy
<1>3. Succeeds(driver[d].copy, c) BY <1>2 DEF Succeeds, Status
<1> QED BY <1>2, <1>3, PersistingMoves DEF Proceed

LEMMA HighMoves ==
    ASSUME TypeOK, NEW d \in Drivers, driver[d].phase = "step", saga' = saga,
           Set(d, [driver[d] EXCEPT !.phase = "high"])
    PROVE  Moves(d, "high", driver[d].copy)
<1>1. Copying(d) BY DEF Copying
<1> QED BY <1>1, HighTask, CopyFields DEF Moves, Succeeds

LEMMA MovesType ==
    ASSUME TypeOK, NEW d \in Drivers, NEW phase, NEW c, Moves(d, phase, c)
    PROVE  /\ driver' \in [Drivers -> Tasks] /\ saga' \in [Links -> Sagas \cup {NoSaga}]
           /\ driver'[d] = Doing(phase, driver[d].link, c)
           /\ \A e \in Drivers \ {d} : driver'[e] = driver[e]
<1>1. driver[d].link \in Links BY CopyFields DEF Moves
<1>2. Doing(phase, driver[d].link, c) \in Tasks BY <1>1, DoingType DEF Moves
<1>3. saga' \in [Links -> Sagas \cup {NoSaga}] BY DEF Moves, TypeOK
<1> QED BY <1>2, <1>3, SetTask DEF Moves

-----------------------------------------------------------------------------
(* Records and copies keep agreeing with the tables.                       *)

RecordsOK ==
    /\ \A l \in Links : saga[l] # NoSaga => Backed(l, saga[l])
    /\ \A d \in Drivers : Copying(d) => CopyOK(d)

\* Entries and relations stay, and so do the slots of Sagas that are not being
\* released.
Kept ==
    /\ relation \subseteq relation'
    /\ \A p \in Players : list[p].entries \subseteq list'[p].entries
    /\ \A l \in Links : saga[l] # NoSaga /\ saga[l].status \notin Releasing =>
        \A p \in Players : Holds(p, l) => Holds(p, l)'

LEMMA RelationsKept ==
    ASSUME Kept, NEW l \in Links
    PROVE  RelationOf(l) \subseteq RelationOf(l)'
BY DEF Kept, RelationOf

LEMMA EntriesKept ==
    ASSUME Kept, NEW l \in Links, NEW p \in Players, HasEntry(p, l)
    PROVE  HasEntry(p, l)'
BY DEF Kept, HasEntry

LEMMA BackedKept ==
    ASSUME Kept, NEW l \in Links, saga[l] # NoSaga, NEW s, Backed(l, s), Succeeds(saga[l], s)
    PROVE  Backed(l, s)'
<1>1. Low(l) \in Players /\ High(l) \in Players /\ Pair(l) \subseteq Players BY PairFacts
<1>2. CASE saga[l].status \in Releasing
  <2>1. s.status \in Releasing BY <1>2 DEF Succeeds
  <2>2. s.status \notin {"LOW_RESERVED"} \cup Committed /\ s.status \notin Active
        /\ s.status \notin Projected
    BY <2>1 DEF Releasing, Committed, Active, Projected
  <2> QED BY <2>2 DEF Backed
<1>3. CASE saga[l].status \notin Releasing
  <2>1. Holds(Low(l), l) => Holds(Low(l), l)' BY <1>1, <1>3 DEF Kept
  <2>2. Holds(High(l), l) => Holds(High(l), l)' BY <1>1, <1>3 DEF Kept
  <2>3. RelationOf(l) \subseteq RelationOf(l)' BY RelationsKept
  <2>4. \A p \in Pair(l) : HasEntry(p, l) => HasEntry(p, l)' BY <1>1, EntriesKept
  <2> QED BY <2>1, <2>2, <2>3, <2>4 DEF Backed
<1> QED BY <1>2, <1>3

\* The goroutines that do not move.
LEMMA OthersKept ==
    ASSUME RecordsOK, TypeOK, Kept, saga' = saga, NEW d \in Drivers, driver'[d] = driver[d],
           Copying(d)
    PROVE  CopyOK(d)'
<1> DEFINE l == driver[d].link
           c == driver[d].copy
<1>1. l \in Links /\ CopyOK(d) BY CopyFields DEF RecordsOK
<1>2. Low(l) \in Players BY <1>1, PairFacts
<1>3. saga[l] # NoSaga BY <1>1 DEF CopyOK
<1>4. c.version = saga[l].version => Backed(l, c)' /\ Succeeds(saga[l], c)
  BY <1>1, <1>3, BackedKept DEF CopyOK
<1>5. RelationOf(l) \subseteq RelationOf(l)' BY <1>1, RelationsKept
<1>6. HasEntry(Low(l), l) => HasEntry(Low(l), l)' BY <1>1, <1>2, EntriesKept
<1> QED BY <1>1, <1>4, <1>5, <1>6 DEF CopyOK

LEMMA SagasKept ==
    ASSUME RecordsOK, Kept, saga' = saga
    PROVE  (\A l \in Links : saga[l] # NoSaga => Backed(l, saga[l]))'
<1>1. ASSUME NEW l \in Links, NEW s, s = saga[l], s # NoSaga PROVE Backed(l, s)'
  <2>1. Succeeds(saga[l], s) BY <1>1 DEF Succeeds
  <2>2. Backed(l, s) BY <1>1 DEF RecordsOK
  <2> QED BY <1>1, <2>1, <2>2, BackedKept
<1> QED BY <1>1

\* A step of advance keeps records and copies in order if it keeps the slots and
\* if what its copy says is true.
LEMMA MovesRecords ==
    ASSUME RecordsOK, TypeOK, Kept, NEW d \in Drivers, NEW phase, NEW c, Moves(d, phase, c),
           NEW l \in Links, l = driver[d].link,
           c.version = saga[l].version => Backed(l, c)',
           phase = "high" /\ c.status = "RELATION_ACTIVE" => HasEntry(Low(l), l)'
    PROVE  RecordsOK'
<1>1. saga' = saga BY DEF Moves
<1>2. driver'[d] = Doing(phase, l, c) /\ \A e \in Drivers \ {d} : driver'[e] = driver[e]
  BY MovesType
<1>3. ASSUME NEW e \in Drivers, e # d, Copying(e)' PROVE CopyOK(e)'
  <2>1. driver'[e] = driver[e] BY <1>2, <1>3
  <2>2. Copying(e) BY <1>3, <2>1 DEF Copying
  <2> QED BY <1>1, <2>1, <2>2, OthersKept
<1>4. CopyOK(d)'
  <2>1. Copying(d) /\ CopyOK(d) BY CopyFields DEF Moves, RecordsOK
  <2>2. driver'[d].link = l /\ driver'[d].copy = c /\ driver'[d].phase = phase
    BY <1>2 DEF Doing
  <2>3. saga[l] # NoSaga /\ c.version <= saga[l].version
    BY <2>1 DEF CopyOK, Moves
  <2>4. c.version = saga[l].version => Succeeds(saga[l], c)
    <3>1. c.version = saga[l].version => driver[d].copy = saga[l]
      BY <2>1 DEF CopyOK, Moves
    <3> QED BY <3>1 DEF Moves
  <2>5. phase # "persist" =>
          /\ c.version = saga[l].version => c = saga[l]
          /\ Succeeds(c, saga[l])
          /\ c.status \in Active => c.relation \in RelationOf(l)'
    <3>1. RelationOf(l) \subseteq RelationOf(l)' BY <2>1, RelationsKept
    <3> QED BY <2>1, <3>1 DEF CopyOK, Moves
  <2> QED BY <1>1, <2>2, <2>3, <2>4, <2>5 DEF CopyOK
<1>5. \A e \in Drivers : Copying(e)' => CopyOK(e)' BY <1>3, <1>4
<1> QED BY <1>1, <1>5, SagasKept DEF RecordsOK

LEMMA SucceedsTransitive ==
    ASSUME NEW a, NEW b, NEW c, Succeeds(a, b), Succeeds(b, c)
    PROVE  Succeeds(a, c)
BY DEF Succeeds

\* What the tables say of a record depends on the tables only.
LEMMA BackedSame ==
    ASSUME UNCHANGED Tables, NEW l, NEW s, Backed(l, s)
    PROVE  Backed(l, s)'
BY DEF Tables, Backed, Holds, HasEntry, RelationOf

\* A goroutine creates or updates a Saga's record, or takes a copy of it, or ends.
LEMMA SettlesRecords ==
    ASSUME RecordsOK, TypeOK, UNCHANGED Tables, NEW d \in Drivers,
           NEW l \in Links, NEW c \in Sagas,
           \/ saga' = saga
           \/ /\ saga' = [saga EXCEPT ![l] = c] /\ Backed(l, c)
              /\ \/ saga[l] = NoSaga
                 \/ c.version = saga[l].version + 1 /\ Succeeds(saga[l], c),
           \A e \in Drivers \ {d} : driver'[e] = driver[e],
           Copying(d)' => driver'[d] = Doing("step", l, saga'[l]) /\ saga'[l] # NoSaga
    PROVE  RecordsOK'
<1>1. saga \in [Links -> Sagas \cup {NoSaga}] /\ c # NoSaga BY SagaPresent DEF TypeOK
<1>2. ASSUME NEW m \in Links, NEW s, s = saga'[m], s # NoSaga PROVE Backed(m, s) /\ Backed(m, s)'
  <2>1. s = saga[m] \/ (m = l /\ s = c /\ Backed(l, c)) BY <1>1, <1>2
  <2>2. Backed(m, s) BY <1>2, <2>1 DEF RecordsOK
  <2> QED BY <2>2, BackedSame
<1>3. ASSUME NEW e \in Drivers, e # d, Copying(e)' PROVE CopyOK(e)'
  <2>1. driver'[e] = driver[e] BY <1>3
  <2>2. Copying(e) BY <1>3, <2>1 DEF Copying
  <2>3. CopyOK(e) /\ driver[e].link \in Links /\ driver[e].copy.version \in Nat
    BY <2>2, CopyFields DEF RecordsOK
  <2>4. PICK m, k : m \in Links /\ m = driver[e].link /\ k = driver[e].copy BY <2>3
  <2>5. saga[m] # NoSaga /\ saga[m].version \in Nat BY <2>3, <2>4, SagaFields DEF CopyOK
  <2>6. CASE saga'[m] = saga[m]
    <3>1. Backed(m, k) => Backed(m, k)' BY BackedSame
    <3>2. RelationOf(m)' = RelationOf(m) /\ HasEntry(Low(m), m)' = HasEntry(Low(m), m)
      BY DEF Tables, RelationOf, HasEntry
    <3> QED BY <2>1, <2>3, <2>4, <2>6, <3>1, <3>2 DEF CopyOK
  <2>7. CASE saga'[m] # saga[m]
    <3>1. m = l /\ saga'[m] = c /\ c.version = saga[m].version + 1 /\ Succeeds(saga[m], c)
      BY <1>1, <2>4, <2>5, <2>7
    <3>2. k.version <= saga[m].version /\ k.version \in Nat BY <2>3, <2>4 DEF CopyOK
    <3>3. k.version <= c.version /\ k.version # c.version BY <2>5, <3>1, <3>2
    <3>4. driver[e].phase # "persist" => Succeeds(k, c)
      BY <2>3, <2>4, <3>1, SucceedsTransitive DEF CopyOK
    <3>5. RelationOf(m)' = RelationOf(m) /\ HasEntry(Low(m), m)' = HasEntry(Low(m), m)
      BY DEF Tables, RelationOf, HasEntry
    <3> QED BY <1>1, <2>1, <2>3, <2>4, <3>1, <3>3, <3>4, <3>5 DEF CopyOK
  <2> QED BY <2>6, <2>7
<1>4. ASSUME Copying(d)' PROVE CopyOK(d)'
  <2>1. PICK k : k = saga'[l] OBVIOUS
  <2>2. driver'[d].phase = "step" /\ driver'[d].link = l /\ driver'[d].copy = k /\ k # NoSaga
    BY <1>4, <2>1 DEF Doing
  <2>3. Backed(l, k)' BY <1>2, <2>1, <2>2
  <2>4. Succeeds(k, k) BY DEF Succeeds
  <2>5. k.status \in Active => k.relation \in RelationOf(l)' BY <2>3 DEF Backed
  <2>6. k.version <= k.version
    <3>1. k \in Sagas BY <1>1, <2>1, <2>2
    <3> QED BY <3>1 DEF Sagas
  <2> QED BY <2>1, <2>2, <2>3, <2>4, <2>5, <2>6 DEF CopyOK
<1>5. \A e \in Drivers : Copying(e)' => CopyOK(e)' BY <1>3, <1>4
<1>6. (\A m \in Links : saga[m] # NoSaga => Backed(m, saga[m]))' BY <1>2
<1> QED BY <1>5, <1>6 DEF RecordsOK

-----------------------------------------------------------------------------
(* The tables.                                                             *)

TablesOK == FiniteLists /\ WithinLimit /\ TablesAgree /\ RewardedOnce

LEMMA InvParts == Inv <=> TypeOK /\ TablesOK /\ RecordsOK
BY DEF Inv, TablesOK, RecordsOK

LEMMA TablesSame == ASSUME TablesOK, UNCHANGED Tables PROVE TablesOK'
BY DEF Tables, TablesOK, FiniteLists, WithinLimit, TablesAgree, RewardedOnce

LEMMA ListFields ==
    ASSUME TypeOK, NEW p \in Players
    PROVE  /\ list[p] \in Lists /\ list[p].reservations \subseteq Links
           /\ list[p].entries \subseteq [friend : Players, relation : Links]
BY DEF TypeOK, Lists

\* A list with other reservations.
LEMMA ReservationsSet ==
    ASSUME TypeOK, NEW p \in Players, NEW R, list' = [list EXCEPT ![p].reservations = R]
    PROVE  /\ \A q \in Players : list'[q].entries = list[q].entries
           /\ list'[p].reservations = R
           /\ \A q \in Players \ {p} : list'[q] = list[q]
BY DEF TypeOK, Lists

LEMMA ReserveFacts ==
    ASSUME TypeOK, FiniteLists, WithinLimit, NEW p \in Players, NEW l \in Links, ReserveSlot(p, l)
    PROVE  /\ \A q \in Players : list'[q].entries = list[q].entries
           /\ \A q \in Players : list[q].reservations \subseteq list'[q].reservations
           /\ FiniteLists' /\ WithinLimit'
           /\ Granted(p, l) => Holds(p, l)'
<1>1. CASE Holds(p, l) \/ Full(p)
  <2>1. list' = list BY <1>1 DEF ReserveSlot
  <2> QED BY <1>1, <2>1 DEF FiniteLists, WithinLimit, Granted, Holds
<1>2. CASE ~(Holds(p, l) \/ Full(p))
  <2> DEFINE R == list[p].reservations \cup {l}
  <2>1. list' = [list EXCEPT ![p].reservations = R] BY <1>2 DEF ReserveSlot
  <2>2. /\ \A q \in Players : list'[q].entries = list[q].entries
        /\ list'[p].reservations = R
        /\ \A q \in Players \ {p} : list'[q] = list[q]
    BY <2>1, ReservationsSet
  <2>3. IsFiniteSet(list[p].reservations) /\ IsFiniteSet(list[p].entries) BY DEF FiniteLists
  <2>4. IsFiniteSet(R) /\ Cardinality(R) = Cardinality(list[p].reservations) + 1
    <3>1. l \notin list[p].reservations BY <1>2 DEF Holds
    <3> QED BY <2>3, <3>1, FS_AddElement
  <2>5. Cardinality(list[p].entries) \in Nat /\ Cardinality(list[p].reservations) \in Nat
    BY <2>3, FS_CardinalityType
  <2>6. Cardinality(list[p].entries) + Cardinality(R) <= MaxFriends
    BY <1>2, <2>4, <2>5, LinkAssumption DEF Full
  <2>7. FiniteLists' BY <2>2, <2>3, <2>4 DEF FiniteLists
  <2>8. WithinLimit' BY <2>2, <2>6 DEF WithinLimit
  <2>9. \A q \in Players : list[q].reservations \subseteq list'[q].reservations BY <2>2
  <2>10. Holds(p, l)' BY <2>2 DEF Holds
  <2> QED BY <2>2, <2>7, <2>8, <2>9, <2>10
<1> QED BY <1>1, <1>2

LEMMA ReleaseFacts ==
    ASSUME TypeOK, FiniteLists, WithinLimit, NEW p \in Players, NEW l \in Links, list' = Release(p, l)
    PROVE  /\ \A q \in Players : list'[q].entries = list[q].entries
           /\ \A q \in Players : \A m \in Links \ {l} : Holds(q, m) => Holds(q, m)'
           /\ FiniteLists' /\ WithinLimit'
<1> DEFINE R == list[p].reservations \ {l}
<1>1. list' = [list EXCEPT ![p].reservations = R] BY DEF Release
<1>2. /\ \A q \in Players : list'[q].entries = list[q].entries
      /\ list'[p].reservations = R
      /\ \A q \in Players \ {p} : list'[q] = list[q]
  BY <1>1, ReservationsSet
<1>3. IsFiniteSet(list[p].reservations) /\ IsFiniteSet(list[p].entries) BY DEF FiniteLists
<1>4. IsFiniteSet(R) /\ Cardinality(R) <= Cardinality(list[p].reservations)
  BY <1>3, FS_Subset
<1>5. /\ Cardinality(list[p].entries) \in Nat /\ Cardinality(list[p].reservations) \in Nat
      /\ Cardinality(R) \in Nat
  BY <1>3, <1>4, FS_CardinalityType
<1>6. Cardinality(list[p].entries) + Cardinality(R) <= MaxFriends
  BY <1>4, <1>5, LinkAssumption DEF WithinLimit
<1>7. FiniteLists' BY <1>2, <1>3, <1>4 DEF FiniteLists
<1>8. WithinLimit' BY <1>2, <1>6 DEF WithinLimit
<1>9. ASSUME NEW q \in Players, NEW m \in Links \ {l}, Holds(q, m) PROVE Holds(q, m)'
  BY <1>2, <1>9 DEF Holds
<1> QED BY <1>2, <1>7, <1>8, <1>9

\* An entry of a player of the link, for the link's friend, is of the relation.
LEMMA EntryOfRelation ==
    ASSUME TablesAgree, NEW l \in Links, NEW p \in Pair(l), NEW r \in RelationOf(l),
           NEW e \in list[p].entries
    PROVE  e.friend \in Pair(l) <=> e.relation = r
<1>1. p \in Players /\ Pair(l) \subseteq Players BY PairFacts
<1>2. e.relation \in relation /\ e.friend # p /\ Pair(e.relation) = {p, e.friend}
  BY <1>1 DEF TablesAgree
<1>3. r \in relation /\ Pair(r) = Pair(l) BY DEF RelationOf
<1>4. ASSUME e.friend \in Pair(l) PROVE e.relation = r
  <2>1. Pair(l) = {p, e.friend} BY <1>2, <1>4, PairFacts
  <2>2. Pair(e.relation) = Pair(r) BY <1>2, <1>3, <2>1
  <2> QED BY <1>2, <1>3, <2>2 DEF TablesAgree
<1>5. ASSUME e.relation = r PROVE e.friend \in Pair(l)
  BY <1>2, <1>3, <1>5
<1> QED BY <1>4, <1>5

Entry(l, p, r) == [friend |-> Other(l, p), relation |-> r]

LEMMA ConsumeForms ==
    ASSUME TypeOK, NEW l \in Links, NEW p \in Pair(l), NEW r \in Links, Consume(p, l, r)
    PROVE  \/ list' = list /\ \E e \in list[p].entries : e.relation = r
           \/ /\ ~\E e \in list[p].entries : e.relation = r
              /\ list'[p].entries = list[p].entries \cup {Entry(l, p, r)}
              /\ list'[p].reservations = list[p].reservations \ {l}
              /\ \A q \in Players \ {p} : list'[q] = list[q]
<1>1. p \in Players BY PairFacts
<1>2. CASE \E e \in list[p].entries : e.relation = r BY <1>2 DEF Consume
<1>3. CASE ~\E e \in list[p].entries : e.relation = r
  <2> DEFINE n == [entries |-> list[p].entries \cup {Entry(l, p, r)},
                   reservations |-> list[p].reservations \ {l}]
  <2>1. list' = [list EXCEPT ![p] = n] BY <1>3 DEF Consume, Entry, Other
  <2>2. n.entries = list[p].entries \cup {Entry(l, p, r)}
        /\ n.reservations = list[p].reservations \ {l}
    OBVIOUS
  <2> HIDE DEF n
  <2>3. list'[p] = n /\ \A q \in Players \ {p} : list'[q] = list[q]
    BY <1>1, <2>1 DEF TypeOK
  <2> QED BY <1>3, <2>2, <2>3
<1> QED BY <1>2, <1>3

LEMMA ConsumeFacts ==
    ASSUME TypeOK, TablesOK, NEW l \in Links, NEW p \in Pair(l), NEW r \in RelationOf(l),
           Holds(p, l), Consume(p, l, r), UNCHANGED <<relation, credits, rewarded, mails>>
    PROVE  /\ TablesOK' /\ HasEntry(p, l)'
           /\ \A q \in Players : list[q].entries \subseteq list'[q].entries
           /\ \A q \in Players : \A m \in Links : Holds(q, m) => Holds(q, m)'
<1>1. p \in Players /\ r \in Links /\ r \in relation /\ Pair(r) = Pair(l)
  BY PairFacts DEF RelationOf
<1>2. TablesAgree /\ FiniteLists /\ WithinLimit /\ RewardedOnce BY DEF TablesOK
<1>3. CASE list' = list /\ \E e \in list[p].entries : e.relation = r
  <2>1. HasEntry(p, l)
    <3>1. PICK e \in list[p].entries : e.relation = r BY <1>3
    <3> QED BY <1>2, <3>1, EntryOfRelation DEF HasEntry
  <2>2. UNCHANGED Tables BY <1>3 DEF Tables
  <2> QED BY <1>3, <2>1, <2>2, TablesSame DEF HasEntry, Holds
<1>4. CASE /\ ~\E e \in list[p].entries : e.relation = r
           /\ list'[p].entries = list[p].entries \cup {Entry(l, p, r)}
           /\ list'[p].reservations = list[p].reservations \ {l}
           /\ \A q \in Players \ {p} : list'[q] = list[q]
  <2> DEFINE n == Entry(l, p, r)
  <2>1. n.friend \in Pair(l) /\ n.friend # p /\ Pair(l) = {p, n.friend} /\ n.relation = r
    BY PairFacts DEF Entry
  <2>2. l \in list[p].reservations
    <3>1. \A e \in list[p].entries : e.friend \notin Pair(l) BY <1>2, <1>4, EntryOfRelation
    <3> QED BY <3>1 DEF Holds
  <2>3. IsFiniteSet(list[p].entries) /\ IsFiniteSet(list[p].reservations)
    BY <1>1, <1>2 DEF FiniteLists
  <2>4. n \notin list[p].entries BY <1>4, <2>1
  <2> HIDE DEF n
  <2>5. /\ IsFiniteSet(list[p].entries \cup {n})
        /\ Cardinality(list[p].entries \cup {n}) = Cardinality(list[p].entries) + 1
    BY <2>3, <2>4, FS_AddElement
  <2>6. /\ IsFiniteSet(list[p].reservations \ {l})
        /\ Cardinality(list[p].reservations \ {l}) = Cardinality(list[p].reservations) - 1
    BY <2>2, <2>3, FS_RemoveElement
  <2>7. list'[p].entries = list[p].entries \cup {n} BY <1>4 DEF n
  <2>8. Cardinality(list[p].entries) \in Nat /\ Cardinality(list[p].reservations) \in Nat
    BY <2>3, FS_CardinalityType
  <2>9. WithinLimit'
    <3> DEFINE a == Cardinality(list[p].entries)
               b == Cardinality(list[p].reservations)
    <3>1. Cardinality(list'[p].entries) = a + 1 /\ Cardinality(list'[p].reservations) = b - 1
      BY <1>4, <2>5, <2>6, <2>7
    <3>2. a \in Nat /\ b \in Nat /\ a + b <= MaxFriends BY <1>1, <1>2, <2>8 DEF WithinLimit
    <3> HIDE DEF a, b
    <3>3. Cardinality(list'[p].entries) + Cardinality(list'[p].reservations) <= MaxFriends
      BY <3>1, <3>2, LinkAssumption
    <3> QED BY <1>2, <1>4, <3>3 DEF WithinLimit
  <2>10. FiniteLists' BY <1>2, <1>4, <2>5, <2>6, <2>7 DEF FiniteLists
  <2>11. TablesAgree'
    <3>1. n.relation \in relation /\ n.friend # p /\ Pair(n.relation) = {p, n.friend}
      BY <1>1, <2>1
    <3>2. ASSUME NEW q \in Players, NEW e \in list'[q].entries
          PROVE  e.relation \in relation /\ e.friend # q /\ Pair(e.relation) = {q, e.friend}
      <4>1. e \in list[q].entries \/ (q = p /\ e = n) BY <1>4, <2>7, <3>2
      <4> QED BY <1>2, <3>1, <4>1 DEF TablesAgree
    <3>3. (\A q \in Players : \A e \in list[q].entries :
            e.relation \in relation /\ e.friend # q /\ Pair(e.relation) = {q, e.friend})'
      BY <3>2
    <3> QED BY <1>2, <3>3 DEF TablesAgree
  <2>12. RewardedOnce' BY <1>2 DEF RewardedOnce
  <2>13. HasEntry(p, l)' BY <2>1, <2>7 DEF HasEntry
  <2>14. \A q \in Players : list[q].entries \subseteq list'[q].entries BY <1>4, <2>7
  <2>15. ASSUME NEW q \in Players, NEW m \in Links, Holds(q, m) PROVE Holds(q, m)'
    <3>1. CASE q = p /\ m = l BY <2>13, <3>1 DEF Holds, HasEntry
    <3>2. CASE ~(q = p /\ m = l)
      <4>1. m \in list[q].reservations => m \in list'[q].reservations BY <1>4, <3>2
      <4> QED BY <2>14, <2>15, <4>1 DEF Holds
    <3> QED BY <3>1, <3>2
  <2>16. TablesOK' BY <2>9, <2>10, <2>11, <2>12 DEF TablesOK
  <2> QED BY <2>13, <2>14, <2>15, <2>16
<1>5. r \in Links BY <1>1
<1> QED BY <1>3, <1>4, <1>5, ConsumeForms

\* The tables that reserving and releasing a slot leave alone.
LEMMA SlotsOnly ==
    ASSUME TablesOK, \A p \in Players : list'[p].entries = list[p].entries,
           FiniteLists', WithinLimit', UNCHANGED <<relation, credits, rewarded, mails>>
    PROVE  TablesOK'
<1>1. TablesAgree' BY DEF TablesOK, TablesAgree
<1>2. RewardedOnce' BY DEF TablesOK, RewardedOnce
<1> QED BY <1>1, <1>2 DEF TablesOK

-----------------------------------------------------------------------------
(* Every step of advance.                                                  *)

\* What a goroutine that is about to act knows.
LEMMA CopyFacts ==
    ASSUME Inv, NEW d \in Drivers, driver[d].phase \in {"step", "high"}
    PROVE  /\ Copying(d) /\ driver[d].link \in Links /\ driver[d].copy \in Sagas
           /\ saga[driver[d].link] # NoSaga
           /\ Succeeds(driver[d].copy, saga[driver[d].link])
           /\ driver[d].copy.status \in Active =>
                driver[d].copy.relation \in RelationOf(driver[d].link)
           /\ driver[d].copy.status \in Committed =>
                \A p \in Pair(driver[d].link) : Holds(p, driver[d].link)
           /\ driver[d].copy.version = saga[driver[d].link].version =>
                driver[d].copy = saga[driver[d].link] /\ Backed(driver[d].link, driver[d].copy)
<1>1. TypeOK /\ RecordsOK BY InvParts
<1>2. Copying(d) BY DEF Copying
<1>3. CopyOK(d) /\ driver[d].link \in Links /\ driver[d].copy \in Sagas
  BY <1>1, <1>2, CopyFields DEF RecordsOK
<1>4. saga[driver[d].link] # NoSaga /\ Succeeds(driver[d].copy, saga[driver[d].link])
  BY <1>3 DEF CopyOK
<1>5. Backed(driver[d].link, saga[driver[d].link]) BY <1>1, <1>3, <1>4 DEF RecordsOK
<1>6. ASSUME driver[d].copy.status \in Committed
      PROVE  \A p \in Pair(driver[d].link) : Holds(p, driver[d].link)
  <2>1. saga[driver[d].link].status \in Committed BY <1>4, <1>6 DEF Succeeds
  <2>2. Holds(Low(driver[d].link), driver[d].link) /\ Holds(High(driver[d].link), driver[d].link)
    BY <1>5, <2>1 DEF Backed
  <2> QED BY <1>3, <2>2, PairFacts
<1> QED BY <1>2, <1>3, <1>4, <1>5, <1>6 DEF CopyOK

\* The parts of a step that only moves on with the Saga.
LEMMA MovesInv ==
    ASSUME Inv, NEW d \in Drivers, NEW phase, NEW c, Moves(d, phase, c),
           NEW l \in Links, l = driver[d].link, Kept, TablesOK',
           c.version = saga[l].version => Backed(l, c)',
           phase = "high" /\ c.status = "RELATION_ACTIVE" => HasEntry(Low(l), l)',
           list' \in [Players -> Lists], relation' \in SUBSET Links,
           credits' \in SUBSET [player : Players, friend : Players, relation : Links],
           rewarded' \in SUBSET Links,
           mails' \in SUBSET [source : [side : {"inviter", "invitee"}, of : Players],
                              to : Players, for : Players],
           faults' \in 0..MaxFaults
    PROVE  Inv'
<1>1. TypeOK /\ RecordsOK BY InvParts
<1>2. driver' \in [Drivers -> Tasks] /\ saga' \in [Links -> Sagas \cup {NoSaga}]
  BY <1>1, MovesType
<1>3. TypeOK' BY <1>1, <1>2, TypeFrom
<1>4. RecordsOK' BY <1>1, MovesRecords
<1> QED BY <1>3, <1>4, InvParts DEF Inv, TablesOK, RecordsOK

\* A record's copy is still true after a step that keeps the slots.
LEMMA CopyBacked ==
    ASSUME Inv, NEW d \in Drivers, driver[d].phase \in {"step", "high"}, Kept,
           NEW l \in Links, l = driver[d].link, NEW k, k = driver[d].copy,
           k.version = saga[l].version
    PROVE  Backed(l, k)'
<1>1. saga[l] # NoSaga /\ k = saga[l] /\ Backed(l, k) BY CopyFacts
<1>2. Succeeds(saga[l], k) BY <1>1 DEF Succeeds
<1> QED BY <1>1, <1>2, BackedKept

\* A step that changes no slot and no relation.
LEMMA NothingReleased ==
    ASSUME list' = list, relation \subseteq relation'
    PROVE  Kept
BY DEF Kept, Holds

LEMMA ReserveKept ==
    ASSUME \A q \in Players : list'[q].entries = list[q].entries,
           \A q \in Players : list[q].reservations \subseteq list'[q].reservations,
           relation' = relation
    PROVE  Kept
<1>1. ASSUME NEW l \in Links, NEW p \in Players, Holds(p, l) PROVE Holds(p, l)'
  BY <1>1 DEF Holds
<1> QED BY <1>1 DEF Kept

LEMMA ReserveLowInv ==
    ASSUME Inv, NEW d \in Drivers, ReserveLow(d)
    PROVE  Inv'
<1>1. TypeOK /\ TablesOK BY InvParts
<1>2. PICK l \in Links, k \in Sagas : l = driver[d].link /\ k = driver[d].copy
  BY CopyFacts DEF ReserveLow, At
<1>3. driver[d].phase = "step" /\ k.status = "INIT" BY <1>2 DEF ReserveLow, At, Status
<1>4. Low(l) \in Players BY PairFacts
<1>5. ReserveSlot(Low(l), l) BY <1>2 DEF ReserveLow
<1>6. PICK x \in Statuses : x = IF Granted(Low(l), l) THEN "LOW_RESERVED" ELSE "RELEASING"
  BY DEF Statuses
<1>7. Proceed(d, x) BY <1>2, <1>6 DEF ReserveLow
<1>8. PICK c : c = [k EXCEPT !.status = x] OBVIOUS
<1>9. c \in Sagas /\ c.status = x /\ c.version = k.version BY <1>2, <1>8, StatusCopy
<1>10. Moves(d, "persist", c)
  <2>1. Status(d) \notin Committed /\ Status(d) \notin Releasing
    BY <1>2, <1>3 DEF Status, Committed, Releasing, Active, Projected
  <2> QED BY <1>1, <1>2, <1>3, <1>7, <1>8, <2>1, ProceedMoves DEF ReserveLow
<1>11. /\ \A q \in Players : list'[q].entries = list[q].entries
       /\ \A q \in Players : list[q].reservations \subseteq list'[q].reservations
       /\ FiniteLists' /\ WithinLimit'
       /\ Granted(Low(l), l) => Holds(Low(l), l)'
  BY <1>1, <1>4, <1>5, ReserveFacts DEF TablesOK
<1>12. Kept BY <1>11, ReserveKept DEF ReserveLow
<1>13. TablesOK' BY <1>1, <1>11, SlotsOnly DEF ReserveLow
<1>14. Backed(l, c)'
  <2>1. x = "LOW_RESERVED" => Holds(Low(l), l)' BY <1>6, <1>11
  <2> QED BY <1>6, <1>9, <2>1 DEF Backed, Committed, Active, Projected
<1>15. list' \in [Players -> Lists] BY <1>1, <1>4, <1>5, ListTypes
<1> QED BY <1>1, <1>2, <1>10, <1>12, <1>13, <1>14, <1>15, MovesInv DEF ReserveLow, TypeOK

LEMMA ReserveHighInv ==
    ASSUME Inv, NEW d \in Drivers, ReserveHigh(d)
    PROVE  Inv'
<1>1. TypeOK /\ TablesOK BY InvParts
<1>2. PICK l \in Links, k \in Sagas : l = driver[d].link /\ k = driver[d].copy
  BY CopyFacts DEF ReserveHigh, At
<1>3. driver[d].phase = "step" /\ k.status = "LOW_RESERVED" BY <1>2 DEF ReserveHigh, At, Status
<1>4. High(l) \in Players BY PairFacts
<1>5. ReserveSlot(High(l), l) BY <1>2 DEF ReserveHigh
<1>6. PICK x \in Statuses : x = IF Granted(High(l), l) THEN "BOTH_RESERVED" ELSE "RELEASING"
  BY DEF Statuses
<1>7. Proceed(d, x) BY <1>2, <1>6 DEF ReserveHigh
<1>8. PICK c : c = [k EXCEPT !.status = x] OBVIOUS
<1>9. c \in Sagas /\ c.status = x /\ c.version = k.version BY <1>2, <1>8, StatusCopy
<1>10. Moves(d, "persist", c)
  <2>1. Status(d) \notin Committed /\ Status(d) \notin Releasing
    BY <1>2, <1>3 DEF Status, Committed, Releasing, Active, Projected
  <2> QED BY <1>1, <1>2, <1>3, <1>7, <1>8, <2>1, ProceedMoves DEF ReserveHigh
<1>11. /\ \A q \in Players : list'[q].entries = list[q].entries
       /\ \A q \in Players : list[q].reservations \subseteq list'[q].reservations
       /\ FiniteLists' /\ WithinLimit'
       /\ Granted(High(l), l) => Holds(High(l), l)'
  BY <1>1, <1>4, <1>5, ReserveFacts DEF TablesOK
<1>12. Kept BY <1>11, ReserveKept DEF ReserveHigh
<1>13. TablesOK' BY <1>1, <1>11, SlotsOnly DEF ReserveHigh
<1>14. ASSUME c.version = saga[l].version PROVE Backed(l, c)'
  <2>1. x = "BOTH_RESERVED" => Holds(High(l), l)' BY <1>6, <1>11
  <2>2. Backed(l, k)' BY <1>2, <1>3, <1>9, <1>12, <1>14, CopyBacked
  <2>3. Holds(Low(l), l)' BY <1>3, <2>2 DEF Backed
  <2> QED BY <1>6, <1>9, <2>1, <2>3 DEF Backed, Committed, Active, Projected
<1>15. list' \in [Players -> Lists] BY <1>1, <1>4, <1>5, ListTypes
<1> QED BY <1>1, <1>2, <1>10, <1>12, <1>13, <1>14, <1>15, MovesInv DEF ReserveHigh, TypeOK

LEMMA CreateRelationInv ==
    ASSUME Inv, NEW d \in Drivers, CreateRelation(d)
    PROVE  Inv'
<1>1. TypeOK /\ TablesOK BY InvParts
<1>2. PICK l \in Links, k \in Sagas : l = driver[d].link /\ k = driver[d].copy
  BY CopyFacts DEF CreateRelation, At
<1>3. driver[d].phase = "step" /\ k.status = "BOTH_RESERVED" BY <1>2 DEF CreateRelation, At, Status
<1>4. relation' = IF RelationOf(l) = {} THEN relation \cup {l} ELSE relation
  BY <1>2 DEF CreateRelation
<1>5. PICK r : r = AdoptedRelation(l) OBVIOUS
<1>6. r \in Links /\ r \in RelationOf(l)'
  <2>1. CASE RelationOf(l) = {} BY <1>4, <1>5, <2>1 DEF AdoptedRelation, RelationOf
  <2>2. CASE RelationOf(l) # {}
    <3>1. r \in RelationOf(l) BY <1>5, <2>2 DEF AdoptedRelation
    <3> QED BY <1>4, <2>2, <3>1 DEF RelationOf
  <2> QED BY <2>1, <2>2
<1>7. PICK c : c = [k EXCEPT !.status = "RELATION_ACTIVE", !.relation = r] OBVIOUS
<1>8. c \in Sagas /\ c.status = "RELATION_ACTIVE" /\ c.version = k.version /\ c.relation = r
  <2>1. k \in Sagas /\ r \in Links BY <1>2, <1>6
  <2> QED BY <1>7, <2>1 DEF Sagas, Statuses
<1>9. Moves(d, "persist", c)
  <2>1. Succeeds(k, c) BY <1>3, <1>8 DEF Succeeds, Committed, Active, Releasing
  <2>2. Persisting(d, c) BY <1>2, <1>5, <1>7 DEF CreateRelation
  <2> QED BY <1>1, <1>2, <1>3, <1>8, <2>1, <2>2, PersistingMoves DEF CreateRelation
<1>10. Kept BY <1>4, NothingReleased DEF CreateRelation
<1>11. TablesOK'
  <2>1. (\A a, b \in relation : Pair(a) = Pair(b) => a = b)'
    <3>1. ASSUME NEW a \in relation', NEW b \in relation', Pair(a) = Pair(b) PROVE a = b
      <4>1. \A m \in relation : RelationOf(l) = {} => Pair(m) # Pair(l)
        BY <1>1 DEF RelationOf, TypeOK
      <4> QED BY <1>1, <1>4, <3>1, <4>1 DEF TablesOK, TablesAgree
    <3> QED BY <3>1 DEF Pair
  <2>2. relation \subseteq relation' /\ UNCHANGED <<list, credits, rewarded, mails>>
    BY <1>4 DEF CreateRelation
  <2>3. TablesAgree' BY <1>1, <2>1, <2>2 DEF TablesOK, TablesAgree
  <2>4. FiniteLists' /\ WithinLimit' /\ RewardedOnce'
    BY <1>1, <2>2 DEF TablesOK, FiniteLists, WithinLimit, RewardedOnce
  <2> QED BY <2>3, <2>4 DEF TablesOK
<1>12. ASSUME c.version = saga[l].version PROVE Backed(l, c)'
  <2>1. Backed(l, k)' BY <1>2, <1>3, <1>8, <1>10, <1>12, CopyBacked
  <2>2. Holds(Low(l), l)' /\ Holds(High(l), l)' BY <1>3, <2>1 DEF Backed, Committed
  <2> QED BY <1>6, <1>8, <2>2 DEF Backed, Projected
<1>13. relation' \in SUBSET Links BY <1>1, <1>4 DEF TypeOK
<1> QED BY <1>1, <1>2, <1>9, <1>10, <1>11, <1>12, <1>13, MovesInv DEF CreateRelation, TypeOK

\* What a projection knows of its link.
LEMMA ProjectionFacts ==
    ASSUME Inv, NEW d \in Drivers, driver[d].phase \in {"step", "high"},
           NEW l \in Links, l = driver[d].link, NEW k, k = driver[d].copy,
           k.status = "RELATION_ACTIVE", NEW p \in Pair(l), Consume(p, l, k.relation),
           UNCHANGED <<saga, relation, credits, rewarded, mails>>
    PROVE  /\ TablesOK' /\ HasEntry(p, l)' /\ Kept
           /\ list' \in [Players -> Lists]
<1>1. TypeOK /\ TablesOK BY InvParts
<1>2. k.status \in Active /\ k.status \in Committed BY DEF Active, Committed
<1>3. k.relation \in RelationOf(l) /\ Holds(p, l) BY <1>2, CopyFacts
<1>4. /\ TablesOK' /\ HasEntry(p, l)'
      /\ \A q \in Players : list[q].entries \subseteq list'[q].entries
      /\ \A q \in Players : \A m \in Links : Holds(q, m) => Holds(q, m)'
  BY <1>1, <1>3, ConsumeFacts
<1>5. Kept BY <1>4 DEF Kept
<1>6. k.relation \in Links /\ p \in Players BY <1>3, PairFacts DEF RelationOf
<1>7. list' \in [Players -> Lists] BY <1>1, <1>6, ListTypes
<1> QED BY <1>4, <1>5, <1>7

LEMMA ProjectLowInv ==
    ASSUME Inv, NEW d \in Drivers, ProjectLow(d)
    PROVE  Inv'
<1>1. TypeOK BY InvParts
<1>2. PICK l \in Links, k \in Sagas : l = driver[d].link /\ k = driver[d].copy
  BY CopyFacts DEF ProjectLow, At
<1>3. driver[d].phase = "step" /\ k.status = "RELATION_ACTIVE" BY <1>2 DEF ProjectLow, At, Status
<1>4. Consume(Low(l), l, k.relation) BY <1>2 DEF ProjectLow
<1>5. TablesOK' /\ HasEntry(Low(l), l)' /\ Kept /\ list' \in [Players -> Lists]
  BY <1>2, <1>3, <1>4, ProjectionFacts, PairFacts DEF ProjectLow
<1>6. Moves(d, "high", k) BY <1>1, <1>2, <1>3, HighMoves DEF ProjectLow
<1>7. k.version = saga[l].version => Backed(l, k)' BY <1>2, <1>3, <1>5, CopyBacked
<1> QED BY <1>1, <1>2, <1>5, <1>6, <1>7, MovesInv DEF ProjectLow, TypeOK

LEMMA ProjectHighInv ==
    ASSUME Inv, NEW d \in Drivers, ProjectHigh(d)
    PROVE  Inv'
<1>1. TypeOK /\ RecordsOK BY InvParts
<1>2. PICK l \in Links, k \in Sagas : l = driver[d].link /\ k = driver[d].copy
  BY CopyFacts DEF ProjectHigh
<1>3. driver[d].phase = "high" /\ k.status = "RELATION_ACTIVE" BY <1>2 DEF ProjectHigh, Status
<1>4. Consume(High(l), l, k.relation) BY <1>2 DEF ProjectHigh
<1>5. TablesOK' /\ HasEntry(High(l), l)' /\ Kept /\ list' \in [Players -> Lists]
  BY <1>2, <1>3, <1>4, ProjectionFacts, PairFacts DEF ProjectHigh
<1>6. PICK c : c = [k EXCEPT !.status = "PROJECTIONS_APPLIED"] OBVIOUS
<1>7. "PROJECTIONS_APPLIED" \in Statuses BY DEF Statuses, Projected
<1>8. c \in Sagas /\ c.status = "PROJECTIONS_APPLIED" /\ c.version = k.version
      /\ c.relation = k.relation
  BY <1>2, <1>6, <1>7, StatusCopy
<1>9. Moves(d, "persist", c)
  <2>1. Status(d) \in Committed /\ Status(d) \notin Releasing /\ "PROJECTIONS_APPLIED" \in Committed
    BY <1>2, <1>3 DEF Status, Committed, Active, Projected, Releasing
  <2>2. Proceed(d, "PROJECTIONS_APPLIED") BY DEF ProjectHigh
  <2> QED BY <1>1, <1>2, <1>3, <1>6, <1>7, <2>1, <2>2, ProceedMoves DEF ProjectHigh
<1>10. HasEntry(Low(l), l)'
  <2>1. CopyOK(d) BY <1>1, <1>3 DEF RecordsOK, Copying
  <2>2. HasEntry(Low(l), l) BY <1>2, <1>3, <2>1 DEF CopyOK
  <2> QED BY <1>5, <2>2, EntriesKept, PairFacts
<1>11. ASSUME c.version = saga[l].version PROVE Backed(l, c)'
  <2>1. Backed(l, k)' BY <1>2, <1>3, <1>5, <1>8, <1>11, CopyBacked
  <2>2. \A p \in Pair(l) : HasEntry(p, l)' BY <1>5, <1>10, PairFacts
  <2>3. Holds(Low(l), l)' /\ Holds(High(l), l)' /\ k.relation \in RelationOf(l)'
    BY <1>3, <2>1 DEF Backed, Committed, Active
  <2> QED BY <1>8, <2>2, <2>3 DEF Backed
<1> QED BY <1>1, <1>2, <1>5, <1>9, <1>11, MovesInv DEF ProjectHigh, TypeOK

-----------------------------------------------------------------------------
(* The steps after the projections: credits and rewards.                   *)

LEMMA LateInv ==
    ASSUME Inv, NEW d \in Drivers, driver[d].phase = "step",
           NEW l \in Links, l = driver[d].link, NEW k, k = driver[d].copy,
           NEW c \in Sagas, Persisting(d, c), c.version = k.version, c.relation = k.relation,
           k.status \in Projected, c.status \in Projected,
           UNCHANGED <<saga, list, relation, faults>>, TablesOK',
           credits' \in SUBSET [player : Players, friend : Players, relation : Links],
           rewarded' \in SUBSET Links,
           mails' \in SUBSET [source : [side : {"inviter", "invitee"}, of : Players],
                              to : Players, for : Players]
    PROVE  Inv'
<1>1. TypeOK BY InvParts
<1>2. k.status \in Active /\ k.status \in Committed /\ c.status \in Committed /\ c.status \in Active
  BY DEF Committed, Active
<1>3. c.status \notin Releasing /\ k.status \notin Releasing BY DEF Projected, Releasing
<1>4. Succeeds(k, c) BY <1>2, <1>3 DEF Succeeds
<1>5. Moves(d, "persist", c) BY <1>1, <1>4, PersistingMoves
<1>6. Kept BY NothingReleased
<1>7. ASSUME c.version = saga[l].version PROVE Backed(l, c)'
  <2>1. Backed(l, k)' BY <1>6, <1>7, CopyBacked
  <2> QED BY <1>2, <2>1 DEF Backed
<1> QED BY <1>1, <1>5, <1>6, <1>7, MovesInv DEF TypeOK

LEMMA LateProceedInv ==
    ASSUME Inv, NEW d \in Drivers, driver[d].phase = "step", Status(d) \in Projected,
           NEW x \in Projected, Proceed(d, x), UNCHANGED <<saga, Tables, faults>>
    PROVE  Inv'
<1>1. TypeOK /\ TablesOK BY InvParts
<1>2. PICK l \in Links, k \in Sagas : l = driver[d].link /\ k = driver[d].copy
  BY CopyFacts
<1>3. PICK c : c = [k EXCEPT !.status = x] OBVIOUS
<1>4. c \in Sagas /\ c.status = x /\ c.version = k.version /\ c.relation = k.relation
  BY <1>2, <1>3, StatusCopy DEF Statuses
<1>5. Persisting(d, c) BY <1>2, <1>3 DEF Proceed
<1>6. k.status \in Projected BY <1>2 DEF Status
<1>7. TablesOK' BY <1>1, TablesSame
<1>8. UNCHANGED <<saga, list, relation, credits, rewarded, mails, faults>> BY DEF Tables
<1> QED BY <1>1, <1>2, <1>4, <1>5, <1>6, <1>7, <1>8, LateInv DEF TypeOK

LEMMA StatusMoves ==
    ASSUME Inv, NEW d \in Drivers, StartCredit(d) \/ CreditsDone(d) \/ MailsDone(d)
    PROVE  Inv'
<1>1. CASE StartCredit(d)
  BY <1>1, LateProceedInv DEF StartCredit, At, Projected
<1>2. CASE CreditsDone(d)
  BY <1>2, LateProceedInv DEF CreditsDone, At, Projected
<1>3. CASE MailsDone(d)
  BY <1>3, LateProceedInv DEF MailsDone, At, Projected
<1> QED BY <1>1, <1>2, <1>3

LEMMA CreditSideInv ==
    ASSUME Inv, NEW d \in Drivers, CreditSide(d)
    PROVE  Inv'
<1>1. TypeOK /\ TablesOK BY InvParts
<1>2. PICK l \in Links, k \in Sagas : l = driver[d].link /\ k = driver[d].copy
  BY CopyFacts DEF CreditSide, At
<1>3. driver[d].phase = "step" /\ k.status = "TASK_CREDITING" BY <1>2 DEF CreditSide, At, Status
<1>4. PICK p : p = IF Low(l) \in k.credited THEN High(l) ELSE Low(l) OBVIOUS
<1>5. p \in Pair(l) /\ p \in Players BY <1>4, PairFacts
<1>6. PICK n : n = [player |-> p, friend |-> Other(l, p), relation |-> k.relation] OBVIOUS
<1>7. credits' = credits \cup {n} BY <1>2, <1>4, <1>6 DEF CreditSide, Receipt, Other
<1>8. PICK c : c = [k EXCEPT !.credited = @ \cup {p}] OBVIOUS
<1>9. c \in Sagas /\ c.version = k.version /\ c.status = k.status /\ c.relation = k.relation
  BY <1>2, <1>5, <1>8, CreditedCopy
<1>10. Persisting(d, c) BY <1>2, <1>4, <1>8 DEF CreditSide
<1>11. k.status \in Projected BY <1>3 DEF Projected
<1>12. k.relation \in relation /\ Pair(k.relation) = Pair(l) /\ k.relation \in Links
  <2>1. k.status \in Active BY <1>11 DEF Active
  <2> QED BY <1>2, <1>3, <2>1, CopyFacts DEF RelationOf
<1>13. /\ n.relation \in relation /\ n.friend # n.player
       /\ Pair(n.relation) = {n.player, n.friend}
       /\ n \in [player : Players, friend : Players, relation : Links]
  <2>1. Other(l, p) \in Players /\ Other(l, p) # p /\ Pair(l) = {p, Other(l, p)}
    BY <1>5, PairFacts
  <2> QED BY <1>5, <1>6, <1>12, <2>1
<1>14. UNCHANGED <<saga, list, relation, rewarded, mails, faults>> BY DEF CreditSide
<1>15. TablesOK'
  <2>1. TablesAgree' BY <1>1, <1>7, <1>13, <1>14 DEF TablesOK, TablesAgree
  <2>2. FiniteLists' /\ WithinLimit' /\ RewardedOnce'
    BY <1>1, <1>14 DEF TablesOK, FiniteLists, WithinLimit, RewardedOnce
  <2> QED BY <2>1, <2>2 DEF TablesOK
<1>16. credits' \in SUBSET [player : Players, friend : Players, relation : Links]
  BY <1>1, <1>7, <1>13 DEF TypeOK
<1> QED BY <1>1, <1>2, <1>3, <1>9, <1>10, <1>11, <1>14, <1>15, <1>16, LateInv DEF TypeOK

LEMMA CheckFirstRewardInv ==
    ASSUME Inv, NEW d \in Drivers, CheckFirstReward(d)
    PROVE  Inv'
<1>1. TypeOK /\ TablesOK BY InvParts
<1>2. PICK l \in Links, k \in Sagas : l = driver[d].link /\ k = driver[d].copy
  BY CopyFacts DEF CheckFirstReward, At
<1>3. driver[d].phase = "step" /\ k.status = "FIRST_REWARD_CHECKED"
  BY <1>2 DEF CheckFirstReward, At, Status
<1>4. k.status \in Projected BY <1>3 DEF Projected
<1>5. CASE First(Redeemer[l])
  <2>1. rewarded' = rewarded \cup {l} BY <1>2, <1>5 DEF CheckFirstReward
  <2>2. PICK c : c = [k EXCEPT !.status = "REWARD_MAILS_CREATED", !.claimed = TRUE] OBVIOUS
  <2>3. Persisting(d, c) BY <1>2, <1>5, <2>2 DEF CheckFirstReward
  <2>4. c \in Sagas /\ c.version = k.version /\ c.status = "REWARD_MAILS_CREATED"
        /\ c.relation = k.relation
    BY <1>2, <2>2, ClaimedCopy
  <2>5. c.status \in Projected BY <2>4 DEF Projected
  <2>6. UNCHANGED <<saga, list, relation, credits, mails, faults>> BY DEF CheckFirstReward
  <2>7. TablesOK'
    <3>1. TablesAgree' /\ FiniteLists' /\ WithinLimit'
      BY <1>1, <2>6 DEF TablesOK, TablesAgree, FiniteLists, WithinLimit
    <3>2. RewardedOnce' BY <1>1, <1>5, <2>1, <2>6 DEF TablesOK, RewardedOnce, First
    <3> QED BY <3>1, <3>2 DEF TablesOK
  <2>8. rewarded' \in SUBSET Links BY <1>1, <2>1 DEF TypeOK
  <2> QED BY <1>1, <1>2, <1>3, <1>4, <2>3, <2>4, <2>5, <2>6, <2>7, <2>8, LateInv DEF TypeOK
<1>6. CASE ~First(Redeemer[l])
  <2>1. Proceed(d, "COMPLETED") /\ rewarded' = rewarded BY <1>2, <1>6 DEF CheckFirstReward
  <2>2. UNCHANGED <<saga, Tables, faults>> BY <2>1 DEF CheckFirstReward, Tables
  <2>3. Status(d) \in Projected /\ "COMPLETED" \in Projected BY <1>2, <1>4 DEF Status, Projected
  <2> QED BY <1>3, <2>1, <2>2, <2>3, LateProceedInv
<1> QED BY <1>5, <1>6

LEMMA CreateRewardMailInv ==
    ASSUME Inv, NEW d \in Drivers, CreateRewardMail(d)
    PROVE  Inv'
<1>1. TypeOK /\ TablesOK BY InvParts
<1>2. PICK l \in Links, k \in Sagas : l = driver[d].link /\ k = driver[d].copy
  BY CopyFacts DEF CreateRewardMail, At
<1>3. driver[d].phase = "step" /\ k.status = "REWARD_MAILS_CREATED"
  BY <1>2 DEF CreateRewardMail, At, Status
<1>4. k.status \in Projected BY <1>3 DEF Projected
<1>5. PICK side \in {"inviter", "invitee"} :
        side = IF "inviter" \in k.mailed THEN "invitee" ELSE "inviter"
  OBVIOUS
<1>6. CreateMail(l, side) BY <1>2, <1>5 DEF CreateRewardMail
<1>7. PICK c : c = [k EXCEPT !.mailed = @ \cup {side}] OBVIOUS
<1>8. c \in Sagas /\ c.version = k.version /\ c.status = k.status /\ c.relation = k.relation
  BY <1>2, <1>5, <1>7, MailedCopy
<1>9. Persisting(d, c) BY <1>2, <1>5, <1>7 DEF CreateRewardMail
<1>10. UNCHANGED <<saga, list, relation, credits, rewarded, faults>> BY DEF CreateRewardMail
<1>11. PICK to \in Players : to = IF side = "inviter" THEN CodeOwner[l] ELSE Redeemer[l]
  BY DEF Players
<1>12. PICK src : src = [side |-> side, of |-> Redeemer[l]] OBVIOUS
<1>13. PICK n : n = [source |-> src, to |-> to, for |-> Redeemer[l]] OBVIOUS
<1>14. \/ mails' = mails
       \/ mails' = mails \cup {n} /\ \A m \in mails : m.source # src
  BY <1>6, <1>11, <1>12, <1>13 DEF CreateMail, SourceID
<1>15. Redeemer[l] \in Players BY DEF Players
<1>16. src \in [side : {"inviter", "invitee"}, of : Players] /\ src.side = side /\ src.of = Redeemer[l]
  BY <1>12, <1>15
<1>17. /\ n \in [source : [side : {"inviter", "invitee"}, of : Players], to : Players, for : Players]
       /\ n.source = src /\ n.for = Redeemer[l]
  BY <1>13, <1>15, <1>16
<1>18. TablesOK'
  <2>1. FiniteLists' /\ WithinLimit' BY <1>1, <1>10 DEF TablesOK, FiniteLists, WithinLimit
  <2>2. TablesAgree' BY <1>1, <1>10, <1>14, <1>16, <1>17 DEF TablesOK, TablesAgree
  <2>3. ASSUME NEW m \in mails, m.source.side = src.side, m.for = n.for PROVE m.source = src
    <3>1. m.source \in [side : {"inviter", "invitee"}, of : Players] BY <1>1 DEF TypeOK
    <3>2. m.source.of = src.of BY <1>1, <1>16, <1>17, <2>3 DEF TablesOK, TablesAgree
    <3> QED BY <1>16, <2>3, <3>1, <3>2
  <2>4. RewardedOnce' BY <1>1, <1>10, <1>14, <1>17, <2>3 DEF TablesOK, RewardedOnce
  <2> QED BY <2>1, <2>2, <2>4 DEF TablesOK
<1>19. mails' \in SUBSET [source : [side : {"inviter", "invitee"}, of : Players],
                          to : Players, for : Players]
  BY <1>1, <1>14, <1>17 DEF TypeOK
<1> QED BY <1>1, <1>2, <1>3, <1>4, <1>8, <1>9, <1>10, <1>18, <1>19, LateInv DEF TypeOK

-----------------------------------------------------------------------------
(* Releasing.                                                              *)

LEMMA ReleaseKept ==
    ASSUME Inv, NEW d \in Drivers, driver[d].phase \in {"step", "high"}, Status(d) = "RELEASING",
           NEW l \in Links, l = driver[d].link, NEW p \in Pair(l), list' = Release(p, l),
           UNCHANGED <<saga, relation, credits, rewarded, mails>>
    PROVE  Kept /\ TablesOK' /\ list' \in [Players -> Lists]
<1>1. TypeOK /\ TablesOK BY InvParts
<1>2. p \in Players BY PairFacts
<1>3. /\ \A q \in Players : list'[q].entries = list[q].entries
      /\ \A q \in Players : \A m \in Links \ {l} : Holds(q, m) => Holds(q, m)'
      /\ FiniteLists' /\ WithinLimit'
  BY <1>1, <1>2, ReleaseFacts DEF TablesOK
<1>4. saga[l].status \in Releasing
  <2>1. Succeeds(driver[d].copy, saga[l]) BY CopyFacts
  <2> QED BY <2>1 DEF Succeeds, Status, Releasing
<1>5. Kept BY <1>3, <1>4 DEF Kept
<1>6. TablesOK' BY <1>1, <1>3, SlotsOnly
<1>7. list' \in [Players -> Lists] BY <1>1, <1>2, ListTypes
<1> QED BY <1>5, <1>6, <1>7

\* The goroutine goes on, or ends the Saga, whatever became of the slots.
LEMMA ReleasingInv ==
    ASSUME Inv, NEW d \in Drivers, driver[d].phase \in {"step", "high"}, Status(d) = "RELEASING",
           UNCHANGED <<saga, relation, credits, rewarded, mails>>, Kept, TablesOK',
           list' \in [Players -> Lists], faults' \in 0..MaxFaults,
           \/ driver[d].phase = "step" /\ Set(d, [driver[d] EXCEPT !.phase = "high"])
           \/ Proceed(d, "ABORTED")
    PROVE  Inv'
<1>1. TypeOK BY InvParts
<1>2. PICK l \in Links, k \in Sagas : l = driver[d].link /\ k = driver[d].copy BY CopyFacts
<1>3. k.status = "RELEASING" BY <1>2 DEF Status
<1>4. CASE driver[d].phase = "step" /\ Set(d, [driver[d] EXCEPT !.phase = "high"])
  <2>1. Moves(d, "high", k) BY <1>1, <1>2, <1>4, HighMoves
  <2>2. Backed(l, k)' BY <1>3 DEF Backed, Committed, Active, Projected
  <2> QED BY <1>1, <1>2, <1>3, <2>1, <2>2, MovesInv DEF TypeOK
<1>5. CASE Proceed(d, "ABORTED")
  <2>1. PICK c : c = [k EXCEPT !.status = "ABORTED"] OBVIOUS
  <2>2. "ABORTED" \in Statuses BY DEF Statuses
  <2>3. c.status = "ABORTED" BY <1>2, <2>1, <2>2, StatusCopy
  <2>4. Moves(d, "persist", c)
    <3>1. Status(d) \notin Committed /\ "ABORTED" \in Releasing
      BY DEF Committed, Active, Projected, Releasing
    <3> QED BY <1>1, <1>2, <1>5, <2>1, <2>2, <3>1, ProceedMoves
  <2>5. Backed(l, c)' BY <2>3 DEF Backed, Committed, Active, Projected
  <2> QED BY <1>1, <1>2, <2>4, <2>5, MovesInv DEF TypeOK
<1> QED BY <1>4, <1>5

LEMMA ReleaseInv ==
    ASSUME Inv, NEW d \in Drivers, ReleaseLow(d) \/ ReleaseHigh(d) \/ ReleaseFails(d)
    PROVE  Inv'
<1>1. TypeOK /\ TablesOK BY InvParts
<1>2. driver[d].phase \in {"step", "high"} /\ Status(d) = "RELEASING"
  BY DEF ReleaseLow, ReleaseHigh, ReleaseFails, At
<1>3. PICK l \in Links : l = driver[d].link BY <1>2, CopyFacts
<1>4. Low(l) \in Pair(l) /\ High(l) \in Pair(l) BY PairFacts
<1>5. CASE ReleaseLow(d)
  <2>1. Kept /\ TablesOK' /\ list' \in [Players -> Lists]
    BY <1>2, <1>3, <1>4, <1>5, ReleaseKept DEF ReleaseLow
  <2> QED BY <1>1, <1>2, <1>5, <2>1, ReleasingInv DEF ReleaseLow, At, TypeOK
<1>6. CASE ReleaseHigh(d)
  <2>1. Kept /\ TablesOK' /\ list' \in [Players -> Lists]
    BY <1>2, <1>3, <1>4, <1>6, ReleaseKept DEF ReleaseHigh
  <2> QED BY <1>1, <1>2, <1>6, <2>1, ReleasingInv DEF ReleaseHigh, TypeOK
<1>7. CASE ReleaseFails(d)
  <2>1. UNCHANGED <<saga, list, relation, credits, rewarded, mails>> /\ faults' \in 0..MaxFaults
    BY <1>1, <1>7, FaultType DEF ReleaseFails, Tables
  <2>2. Kept BY <2>1, NothingReleased
  <2>3. TablesOK' BY <1>1, <2>1, TablesSame DEF Tables
  <2>4. list' \in [Players -> Lists] BY <1>1, <2>1 DEF TypeOK
  <2> QED BY <1>2, <1>7, <2>1, <2>2, <2>3, <2>4, ReleasingInv DEF ReleaseFails
<1> QED BY <1>5, <1>6, <1>7

-----------------------------------------------------------------------------
(* Records: loading, reconciling, persisting; failures.                    *)

LEMMA SettlesInv ==
    ASSUME Inv, UNCHANGED Tables, NEW d \in Drivers, NEW l \in Links, NEW c \in Sagas,
           \/ saga' = saga
           \/ /\ saga' = [saga EXCEPT ![l] = c] /\ Backed(l, c)
              /\ \/ saga[l] = NoSaga
                 \/ c.version = saga[l].version + 1 /\ Succeeds(saga[l], c),
           NEW t \in Tasks, Set(d, t), faults' \in 0..MaxFaults,
           t.phase \in {"step", "high", "persist"} =>
               t = Doing("step", l, saga'[l]) /\ saga'[l] # NoSaga
    PROVE  Inv'
<1>1. TypeOK /\ TablesOK /\ RecordsOK BY InvParts
<1>2. /\ driver' \in [Drivers -> Tasks] /\ driver'[d] = t
      /\ \A e \in Drivers \ {d} : driver'[e] = driver[e]
  BY <1>1, SetTask
<1>3. saga' \in [Links -> Sagas \cup {NoSaga}] BY <1>1 DEF TypeOK
<1>4. UNCHANGED <<list, relation, credits, rewarded, mails>> BY DEF Tables
<1>5. TypeOK' BY <1>1, <1>2, <1>3, <1>4, TypeFrom DEF TypeOK
<1>6. TablesOK' BY <1>1, TablesSame
<1>7. Copying(d)' => driver'[d] = Doing("step", l, saga'[l]) /\ saga'[l] # NoSaga
  BY <1>2 DEF Copying
<1>8. RecordsOK' BY <1>1, <1>2, <1>7, SettlesRecords
<1> QED BY <1>5, <1>6, <1>8 DEF Inv, TablesOK, RecordsOK

LEMMA IdleTask == Idle \in Tasks /\ Idle.phase = "idle"
BY DEF Tasks, Idle

\* Ending, whatever became of the Saga's record.
LEMMA EndsInv ==
    ASSUME Inv, UNCHANGED <<saga, Tables>>, NEW d \in Drivers, NEW l \in Links,
           Set(d, Idle), faults' \in 0..MaxFaults
    PROVE  Inv'
<1>1. PICK c : c = NewSaga(l) OBVIOUS
<1>2. c \in Sagas BY <1>1 DEF NewSaga, Sagas, Statuses
<1> QED BY <1>2, IdleTask, SettlesInv

LEMMA TakesCopyInv ==
    ASSUME Inv, UNCHANGED <<Tables, faults>>, NEW d \in Drivers, NEW l \in Links, Work(d, l),
           saga' = saga, saga[l] # NoSaga
    PROVE  Inv'
<1>1. TypeOK BY InvParts
<1>2. PICK c \in Sagas : c = saga[l] BY <1>1, SagaFields
<1>3. Doing("step", l, c) \in Tasks BY DoingType
<1>4. Set(d, Doing("step", l, c)) BY <1>2 DEF Work, Doing
<1> QED BY <1>1, <1>2, <1>3, <1>4, SettlesInv DEF TypeOK

LEMMA LoadSagaInv ==
    ASSUME Inv, NEW d \in Drivers, LoadSaga(d)
    PROVE  Inv'
<1>1. TypeOK BY InvParts
<1>2. PICK l \in Links : l = driver[d].link
  <2>1. driver[d] \in LoadTasks BY <1>1, TaskForms DEF LoadSaga
  <2> QED BY <2>1 DEF LoadTasks
<1>3. UNCHANGED <<Tables, faults>> /\ faults' \in 0..MaxFaults BY <1>1 DEF LoadSaga, TypeOK
<1>4. CASE saga[l] = NoSaga /\ ~driver[d].friends
  <2>1. PICK c : c = NewSaga(l) OBVIOUS
  <2>2. c \in Sagas /\ c.status = "INIT" BY <2>1 DEF NewSaga, Sagas, Statuses
  <2>3. Backed(l, c) BY <2>2 DEF Backed, Committed, Active, Projected
  <2>4. saga' = [saga EXCEPT ![l] = c] /\ Work(d, l) BY <1>2, <1>4, <2>1 DEF LoadSaga
  <2>5. saga'[l] = c BY <1>1, <2>4 DEF TypeOK
  <2>6. Set(d, Doing("step", l, c)) BY <2>4, <2>5 DEF Work, Doing
  <2>7. Doing("step", l, c) \in Tasks BY <2>2, DoingType
  <2> QED BY <1>3, <1>4, <2>2, <2>3, <2>4, <2>5, <2>6, <2>7, SettlesInv, SagaPresent
<1>5. CASE ~(saga[l] = NoSaga /\ ~driver[d].friends)
  <2>1. saga' = saga BY <1>2, <1>5 DEF LoadSaga
  <2>2. CASE ~Unfinished(d)
    <3>1. Set(d, Idle) BY <1>2, <1>5, <2>2 DEF LoadSaga
    <3> QED BY <1>3, <2>1, <3>1, EndsInv
  <2>3. CASE Unfinished(d)
    <3>1. Work(d, l) BY <1>2, <1>5, <2>3 DEF LoadSaga
    <3>2. saga[l] # NoSaga BY <1>2, <2>3 DEF NoSaga, Unfinished, Statuses, Projected
    <3> QED BY <1>3, <2>1, <3>1, <3>2, TakesCopyInv
  <2> QED BY <2>2, <2>3
<1> QED BY <1>4, <1>5

LEMMA BeginInv ==
    ASSUME Inv, NEW d \in Drivers, NEW l \in Links, Begin(d, l)
    PROVE  Inv'
<1>1. TypeOK BY InvParts
<1>2. PICK t : t = [phase |-> "load", link |-> l, friends |-> RelationOf(l) # {}] OBVIOUS
<1>3. t \in Tasks /\ t.phase = "load"
  <2>1. (RelationOf(l) # {}) \in BOOLEAN OBVIOUS
  <2>2. t \in [phase : {"load"}, link : Links, friends : BOOLEAN] BY <1>2, <2>1
  <2> QED BY <1>2, <2>2 DEF Tasks
<1>4. Set(d, t) BY <1>2 DEF Begin
<1>5. PICK c : c = NewSaga(l) OBVIOUS
<1>6. c \in Sagas BY <1>5 DEF NewSaga, Sagas, Statuses
<1>7. saga' = saga /\ UNCHANGED Tables /\ faults' \in 0..MaxFaults BY <1>1 DEF Begin, TypeOK
<1> QED BY <1>3, <1>4, <1>6, <1>7, SettlesInv

LEMMA ReconcileInv ==
    ASSUME Inv, NEW l \in Links, Reconcile(l)
    PROVE  Inv'
<1>1. Reconciler \in Drivers BY DEF Drivers
<1>2. saga[l] # NoSaga BY DEF Reconcile, Due, NoSaga, Statuses, Projected
<1> QED BY <1>1, <1>2, TakesCopyInv DEF Reconcile

LEMMA PersistInv ==
    ASSUME Inv, NEW d \in Drivers, Persist(d)
    PROVE  Inv'
<1>1. TypeOK /\ RecordsOK BY InvParts
<1>2. Copying(d) BY DEF Persist, Copying
<1>3. PICK l \in Links : l = driver[d].link BY <1>1, <1>2, CopyFields
<1>4. UNCHANGED <<Tables, faults>> /\ faults' \in 0..MaxFaults BY <1>1 DEF Persist, TypeOK
<1>5. CASE SameVersion(d)
  <2>1. PICK w \in Sagas : w = Written(d) BY <1>1, <1>2, WrittenType
  <2>2. /\ w.version = driver[d].copy.version + 1
        /\ w.status = driver[d].copy.status /\ w.relation = driver[d].copy.relation
    BY <1>1, <1>2, <2>1, WrittenType
  <2>3. /\ driver[d].copy.version = saga[l].version
        /\ Backed(l, driver[d].copy) /\ Succeeds(saga[l], driver[d].copy)
    BY <1>1, <1>2, <1>3, <1>5 DEF SameVersion, RecordsOK, CopyOK
  <2>4. Backed(l, w) /\ Succeeds(saga[l], w) BY <2>2, <2>3 DEF Backed, Succeeds
  <2>5. saga' = [saga EXCEPT ![l] = w] BY <1>3, <1>5, <2>1 DEF Persist
  <2>6. saga'[l] = w /\ w # NoSaga BY <1>1, <2>5, SagaPresent DEF TypeOK
  <2>7. CASE Status(d) \in Terminal
    <3>1. Set(d, Idle) BY <1>5, <2>7 DEF Persist
    <3> QED BY <1>4, <2>2, <2>3, <2>4, <2>5, <3>1, IdleTask, SettlesInv
  <2>8. CASE Status(d) \notin Terminal
    <3>1. driver[d] \in CopyTasks BY <1>1, <1>2, TaskForms
    <3>2. Set(d, Doing("step", l, w))
      <4>1. Set(d, [driver[d] EXCEPT !.phase = "step", !.copy = w])
        BY <1>5, <2>1, <2>8, Zenon DEF Persist
      <4>2. [driver[d] EXCEPT !.phase = "step", !.copy = w] = Doing("step", l, w)
        BY <1>3, <3>1, DoingAfter
      <4> QED BY <4>1, <4>2
    <3>3. Doing("step", l, w) \in Tasks BY DoingType
    <3> QED BY <1>4, <2>2, <2>3, <2>4, <2>5, <2>6, <3>2, <3>3, SettlesInv
  <2> QED BY <2>7, <2>8
<1>6. CASE ~SameVersion(d)
  <2>1. saga' = saga /\ Set(d, Idle) BY <1>6 DEF Persist
  <2> QED BY <1>4, <2>1, EndsInv
<1> QED BY <1>5, <1>6

LEMMA DeferredInv ==
    ASSUME Inv, NEW d \in Drivers, Deferred(d)
    PROVE  Inv'
<1>1. TypeOK /\ RecordsOK BY InvParts
<1>2. Copying(d) /\ SameVersion(d) BY DEF Deferred, Copying
<1>3. PICK l \in Links : l = driver[d].link BY <1>1, <1>2, CopyFields
<1>4. PICK w \in Sagas : w = Written(d) BY <1>1, <1>2, WrittenType
<1>5. /\ w.version = driver[d].copy.version + 1
      /\ w.status = driver[d].copy.status /\ w.relation = driver[d].copy.relation
  BY <1>1, <1>2, <1>4, WrittenType
<1>6. /\ driver[d].copy.version = saga[l].version
      /\ Backed(l, driver[d].copy) /\ Succeeds(saga[l], driver[d].copy)
  BY <1>1, <1>2, <1>3 DEF SameVersion, RecordsOK, CopyOK
<1>7. Backed(l, w) /\ Succeeds(saga[l], w) BY <1>5, <1>6 DEF Backed, Succeeds
<1>8. saga' = [saga EXCEPT ![l] = w] /\ Set(d, Idle) /\ UNCHANGED Tables
  BY <1>3, <1>4 DEF Deferred
<1>9. faults' \in 0..MaxFaults BY <1>1, FaultType DEF Deferred
<1> QED BY <1>5, <1>6, <1>7, <1>8, <1>9, IdleTask, SettlesInv

LEMMA StopsInv ==
    ASSUME Inv, NEW d \in Drivers, Stops(d)
    PROVE  Inv'
<1>1. TypeOK BY InvParts
<1>2. Links # {}
  <2>1. driver[d].phase \in {"load", "step", "high", "persist"} BY <1>1, TaskForms DEF Stops
  <2>2. driver[d] \in CopyTasks \/ driver[d] \in LoadTasks BY <1>1, <2>1, TaskForms DEF Copying
  <2> QED BY <2>2 DEF CopyTasks, LoadTasks
<1>3. PICK l \in Links : TRUE BY <1>2
<1>4. faults' \in 0..MaxFaults BY <1>1, FaultType DEF Stops
<1> QED BY <1>4, EndsInv DEF Stops

-----------------------------------------------------------------------------
(* The theorems.                                                           *)

LEMMA InitInv == Init => Inv
<1> SUFFICES ASSUME Init PROVE Inv OBVIOUS
<1>1. TypeOK
  <2>1. [entries |-> {}, reservations |-> {}] \in Lists BY DEF Lists
  <2> QED BY <2>1, LinkAssumption DEF Init, TypeOK, Tasks
<1>2. FiniteLists /\ WithinLimit
  <2>1. Cardinality({}) = 0 /\ IsFiniteSet({}) BY FS_EmptySet
  <2>2. \A p \in Players : list[p].entries = {} /\ list[p].reservations = {} BY DEF Init
  <2>3. 0 + 0 <= MaxFriends BY LinkAssumption
  <2> QED BY <2>1, <2>2, <2>3 DEF FiniteLists, WithinLimit
<1>3. TablesAgree /\ RewardedOnce BY DEF Init, TablesAgree, RewardedOnce
<1>4. \A l \in Links : saga[l] = NoSaga BY DEF Init
<1>5. \A d \in Drivers : ~Copying(d) BY DEF Init, Copying, Idle
<1> QED BY <1>1, <1>2, <1>3, <1>4, <1>5 DEF Inv

LEMMA AdvanceInv ==
    ASSUME Inv, NEW d \in Drivers, Advance(d)
    PROVE  Inv'
BY ReserveLowInv, ReserveHighInv, CreateRelationInv, ProjectLowInv, ProjectHighInv, StatusMoves,
   CreditSideInv, CheckFirstRewardInv, CreateRewardMailInv, ReleaseInv, PersistInv
   DEF Advance

LEMMA NextInv == Inv /\ [Next]_vars => Inv'
<1> SUFFICES ASSUME Inv, [Next]_vars PROVE Inv' OBVIOUS
<1>1. ASSUME NEW d \in Requests, LoadSaga(d) \/ \E l \in Links : Begin(d, l) PROVE Inv'
  <2>1. d \in Drivers BY DEF Drivers
  <2> QED BY <1>1, <2>1, LoadSagaInv, BeginInv
<1>2. ASSUME NEW l \in Links, Reconcile(l) PROVE Inv' BY <1>2, ReconcileInv
<1>3. ASSUME NEW d \in Drivers, Advance(d) \/ Stops(d) \/ Deferred(d) \/ ReleaseFails(d)
      PROVE  Inv'
  BY <1>3, AdvanceInv, StopsInv, DeferredInv, ReleaseInv
<1>4. CASE UNCHANGED vars
  <2>1. UNCHANGED <<saga, list, relation, credits, rewarded, mails, driver, faults>>
    BY <1>4 DEF vars
  <2>2. TypeOK' BY <2>1 DEF Inv, TypeOK
  <2>3. TablesOK' BY <2>1, InvParts, TablesSame DEF Tables
  <2>4. RecordsOK'
    <3>1. (\A l \in Links : saga[l] # NoSaga => Backed(l, saga[l]))'
      BY <2>1 DEF Inv, Backed, Holds, HasEntry, RelationOf
    <3>2. (\A d \in Drivers : Copying(d) => CopyOK(d))'
      BY <2>1 DEF Inv, Copying, CopyOK, Backed, Holds, HasEntry, RelationOf
    <3> QED BY <3>1, <3>2 DEF RecordsOK
  <2> QED BY <2>2, <2>3, <2>4 DEF Inv, TablesOK, RecordsOK
<1> QED BY <1>1, <1>2, <1>3, <1>4 DEF Next

\* The inductive invariant holds of every behaviour: whatever goroutines resume a
\* Saga, its record and every copy of it agree with the lists and relations.
THEOREM InvTheorem == Spec => []Inv
<1>1. Init => Inv BY InitInv
<1>2. Inv /\ [Next]_vars => Inv' BY NextInv
<1> QED BY <1>1, <1>2, PTL DEF Spec

\* reserveSlot and consumeReservation never put more entries and reservations in
\* a friend list than the limit allows.
THEOREM WithinLimitTheorem == Spec => []WithinLimit
<1>1. Inv => WithinLimit BY DEF Inv
<1> QED BY <1>1, InvTheorem, PTL

\* A friend appears once in a list, for the pair's relation, and a Saga past its
\* projections has put the friendship in both lists.
THEOREM FriendsAreMutualTheorem == Spec => []FriendsAreMutual
<1>1. Inv => FriendsAreMutual
  <2> SUFFICES ASSUME Inv PROVE FriendsAreMutual OBVIOUS
  <2>1. ASSUME NEW p \in Players, NEW e \in list[p].entries, NEW f \in list[p].entries,
               f.friend = e.friend
        PROVE  f = e
    <3>1. e.relation \in relation /\ f.relation \in relation
          /\ Pair(e.relation) = {p, e.friend} /\ Pair(f.relation) = {p, f.friend}
      BY DEF Inv, TablesAgree
    <3>2. Pair(e.relation) = Pair(f.relation) BY <2>1, <3>1
    <3>3. \A r, t \in relation : Pair(r) = Pair(t) => r = t BY DEF Inv, TablesAgree
    <3>4. e.relation = f.relation BY <3>1, <3>2, <3>3
    <3>5. e \in [friend : Players, relation : Links] /\ f \in [friend : Players, relation : Links]
      BY ListFields DEF Inv
    <3> QED BY <2>1, <3>4, <3>5
  <2>2. \A p \in Players : \A e \in list[p].entries : e.relation \in relation
    BY DEF Inv, TablesAgree
  <2>3. ASSUME NEW l \in Links, saga[l].status \in Projected, NEW p \in Pair(l)
        PROVE  \E e \in list[p].entries : e.friend \in Pair(l)
    <3>1. saga[l] # NoSaga BY <2>3 DEF NoSaga, Projected
    <3> QED BY <2>3, <3>1 DEF Inv, Backed, HasEntry
  <2> QED BY <2>1, <2>2, <2>3 DEF FriendsAreMutual
<1> QED BY <1>1, InvTheorem, PTL

\* However many Sagas link two players and however often they are resumed, a
\* player's task has one receipt for that friend.
THEOREM CreditedOnceTheorem == Spec => []CreditedOnce
<1>1. Inv => CreditedOnce
  <2> SUFFICES ASSUME Inv, NEW c \in credits, NEW e \in credits,
                      c.player = e.player, c.friend = e.friend
               PROVE  c = e
    BY DEF CreditedOnce
  <2>1. c.relation \in relation /\ e.relation \in relation
        /\ Pair(c.relation) = {c.player, c.friend} /\ Pair(e.relation) = {e.player, e.friend}
    BY DEF Inv, TablesAgree
  <2>2. c.relation = e.relation
    <3>1. \A x, y \in relation : Pair(x) = Pair(y) => x = y BY DEF Inv, TablesAgree
    <3> QED BY <2>1, <3>1
  <2>3. c \in [player : Players, friend : Players, relation : Links]
        /\ e \in [player : Players, friend : Players, relation : Links]
    BY DEF Inv, TypeOK
  <2> QED BY <2>2, <2>3
<1> QED BY <1>1, InvTheorem, PTL

\* A redeemer claims the first-friend reward for one link, and each side of it
\* gets one mail.
THEOREM RewardedOnceTheorem == Spec => []RewardedOnce
<1>1. Inv => RewardedOnce BY DEF Inv
<1> QED BY <1>1, InvTheorem, PTL
=============================================================================
