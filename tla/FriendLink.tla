----------------------------- MODULE FriendLink -----------------------------
(***************************************************************************)
(* Redeeming a share code makes two players friends.  FriendLinkSaga, one    *)
(* record per share code and redeemer, reserves a slot in both friend lists, *)
(* inserts the relation, turns the reservations into entries, credits both   *)
(* players' "add a friend" task and mails the first-friend reward.  Each of  *)
(* these writes another record; requests and the Reconciler may work on the  *)
(* same Saga at once, and two Sagas may link the same pair.                  *)
(*                                                                         *)
(* Sources: server/internal/friend (link_saga.go, reconciler.go,            *)
(* tcaplus_store.go, service.go) and                                        *)
(* server/internal/player/social_task_credit.go.                           *)
(***************************************************************************)
EXTENDS Integers, FiniteSets

CONSTANTS
    Links,       \* a share code and who redeems it
    CodeOwner,   \* function from Links to the players who shared the codes
    Redeemer,    \* function from Links to the players who redeem them
    MaxFriends,  \* maxFriendsPerPlayer
    Requests,    \* goroutines that serve RedeemShareCode
    Reconciler,  \* the goroutine that runs ReconcileDue
    MaxFaults    \* bound on failing calls and crashes

ASSUME LinkAssumption ==
    /\ DOMAIN CodeOwner = Links /\ DOMAIN Redeemer = Links
    /\ \A l \in Links : CodeOwner[l] # Redeemer[l]     \* ErrCannotFriendSelf
    /\ MaxFriends \in Nat /\ MaxFaults \in Nat
    /\ Reconciler \notin Requests

Players == {CodeOwner[l] : l \in Links} \cup {Redeemer[l] : l \in Links}

Drivers == Requests \cup {Reconciler}

VARIABLES
    saga,      \* the FriendLinkSaga table
    list,      \* the FriendList table: entries and reservations of each player
    relation,  \* the FriendRelation table: relation ID of each pair, if any
    credits,   \* FriendTaskCreditReceipts of the players' checkpoints
    rewarded,  \* the FirstFriendReward table: redeemers with the claiming relation
    mails,     \* reward mails, by source event ID, with their recipient
    driver,    \* what each goroutine is doing
    faults

vars == <<saga, list, relation, credits, rewarded, mails, driver, faults>>

-----------------------------------------------------------------------------

Pair(l) == {CodeOwner[l], Redeemer[l]}

\* sortedPlayerIDs: the same order for every link between two players.
Low(l) == CHOOSE p \in Pair(l) : TRUE
High(l) == CHOOSE p \in Pair(l) : p # Low(l)

Terminal == {"COMPLETED", "ABORTED"}

Projected == {"PROJECTIONS_APPLIED", "TASK_CREDITING", "FIRST_REWARD_CHECKED",
              "REWARD_MAILS_CREATED", "COMPLETED"}

Statuses == Projected \cup {"INIT", "LOW_RESERVED", "BOTH_RESERVED",
                            "RELATION_ACTIVE", "RELEASING", "ABORTED"}

\* A relation ID is named by the link that minted it.
Sagas ==
    [status : Statuses, version : Nat, relation : Links,
     credited : SUBSET Players, claimed : BOOLEAN, mailed : SUBSET {"inviter", "invitee"}]

NoSaga == [status |-> "none"]

Lists == [entries : SUBSET [friend : Players, relation : Links],
          reservations : SUBSET Links]

Idle == [phase |-> "idle"]

\* copy is the goroutine's copy of the Saga, as it is going to persist it.
Tasks ==
    {Idle}
    \cup [phase : {"load"}, link : Links, friends : BOOLEAN]
    \cup [phase : {"step", "high", "persist"}, link : Links, copy : Sagas]

Status(d) == driver[d].copy.status

Set(d, t) == driver' = [driver EXCEPT ![d] = t]

Fault == faults < MaxFaults /\ faults' = faults + 1

-----------------------------------------------------------------------------
(***************************************************************************)
(* EstablishFriendship and ReconcileSaga.                                   *)
(***************************************************************************)

Tables == <<list, relation, credits, rewarded, mails>>

RelationOf(l) == {r \in Links : Pair(r) = Pair(l) /\ r \in relation}

Begin(d, l) ==
    /\ driver[d] = Idle
    /\ Set(d, [phase |-> "load", link |-> l, friends |-> RelationOf(l) # {}])
    /\ UNCHANGED <<saga, Tables, faults>>

NewSaga(l) ==
    [status |-> "INIT", version |-> 1, relation |-> l,
     credited |-> {}, claimed |-> FALSE, mailed |-> {}]

Work(d, l) == Set(d, [phase |-> "step", link |-> l, copy |-> saga'[l]])

\* As if existing friends had nothing left to resume.
UnfinishedStrangers(d) ==
    ~driver[d].friends /\ saga[driver[d].link].status \in Statuses \ Terminal

Unfinished(d) == saga[driver[d].link].status \in Statuses \ Terminal

\* Existing friends have an unfinished Saga resumed, others have one created.
LoadSaga(d) ==
    LET l == driver[d].link IN
    /\ driver[d].phase = "load"
    /\ IF saga[l] = NoSaga /\ ~driver[d].friends
       THEN saga' = [saga EXCEPT ![l] = NewSaga(l)] /\ Work(d, l)
       ELSE /\ saga' = saga
            /\ IF Unfinished(d) THEN Work(d, l) ELSE Set(d, Idle)
    /\ UNCHANGED <<Tables, faults>>

Due(l) == saga[l].status \in Statuses \ Terminal

\* ReconcileDue returns at the first error and may never come to a Saga: nothing
\* is assumed of it, and FriendSvr does not run it.
Reconcile(l) ==
    /\ driver[Reconciler] = Idle /\ Due(l)
    /\ saga' = saga
    /\ Work(Reconciler, l)
    /\ UNCHANGED <<Tables, faults>>

-----------------------------------------------------------------------------
(***************************************************************************)
(* advance: one step per status.                                           *)
(***************************************************************************)

At(d, status) == driver[d].phase = "step" /\ Status(d) = status

Persisting(d, copy) == Set(d, [driver[d] EXCEPT !.phase = "persist", !.copy = copy])

Proceed(d, status) == Persisting(d, [driver[d].copy EXCEPT !.status = status])

\* As if only entries were counted against the limit.
FullOfEntries(p) == Cardinality(list[p].entries) >= MaxFriends

Full(p) == Cardinality(list[p].entries) + Cardinality(list[p].reservations) >= MaxFriends

Holds(p, l) ==
    \/ l \in list[p].reservations
    \/ \E e \in list[p].entries : e.friend \in Pair(l)

\* reserveSlot: a list's get and conditional update, retried until it fits.
ReserveSlot(p, l) ==
    list' = IF Holds(p, l) \/ Full(p) THEN list
            ELSE [list EXCEPT ![p].reservations = @ \cup {l}]

Granted(p, l) == Holds(p, l) \/ ~Full(p)

ReserveLow(d) ==
    LET l == driver[d].link IN
    /\ At(d, "INIT")
    /\ ReserveSlot(Low(l), l)
    /\ Proceed(d, IF Granted(Low(l), l) THEN "LOW_RESERVED" ELSE "RELEASING")
    /\ UNCHANGED <<saga, relation, credits, rewarded, mails, faults>>

ReserveHigh(d) ==
    LET l == driver[d].link IN
    /\ At(d, "LOW_RESERVED")
    /\ ReserveSlot(High(l), l)
    /\ Proceed(d, IF Granted(High(l), l) THEN "BOTH_RESERVED" ELSE "RELEASING")
    /\ UNCHANGED <<saga, relation, credits, rewarded, mails, faults>>

\* As if the relation ID of the Saga were kept.
KeptRelation(l) == l

\* createRelation: the insert finds no row, or the row's ID is adopted.
AdoptedRelation(l) == IF RelationOf(l) = {} THEN l ELSE CHOOSE r \in RelationOf(l) : TRUE

CreateRelation(d) ==
    LET l == driver[d].link IN
    /\ At(d, "BOTH_RESERVED")
    /\ relation' = IF RelationOf(l) = {} THEN relation \cup {l} ELSE relation
    /\ Persisting(d, [driver[d].copy EXCEPT !.status = "RELATION_ACTIVE",
                                            !.relation = AdoptedRelation(l)])
    /\ UNCHANGED <<saga, list, credits, rewarded, mails, faults>>

\* consumeReservation: a list that has an entry of this relation is left alone.
Consume(p, l, r) ==
    LET friend == CHOOSE q \in Pair(l) : q # p IN
    list' = IF \E e \in list[p].entries : e.relation = r THEN list
            ELSE [list EXCEPT ![p] = [entries |-> @.entries \cup {[friend |-> friend, relation |-> r]},
                                      reservations |-> @.reservations \ {l}]]

\* (A player without an active account name, an error at every retry, is one of the
\* bounded faults here; see Stops.)
ProjectLow(d) ==
    /\ At(d, "RELATION_ACTIVE")
    /\ Consume(Low(driver[d].link), driver[d].link, driver[d].copy.relation)
    /\ Set(d, [driver[d] EXCEPT !.phase = "high"])
    /\ UNCHANGED <<saga, relation, credits, rewarded, mails, faults>>

ProjectHigh(d) ==
    /\ driver[d].phase = "high" /\ Status(d) = "RELATION_ACTIVE"
    /\ Consume(High(driver[d].link), driver[d].link, driver[d].copy.relation)
    /\ Proceed(d, "PROJECTIONS_APPLIED")
    /\ UNCHANGED <<saga, relation, credits, rewarded, mails, faults>>

StartCredit(d) ==
    /\ At(d, "PROJECTIONS_APPLIED")
    /\ Proceed(d, "TASK_CREDITING")
    /\ UNCHANGED <<saga, Tables, faults>>

\* ApplyFriendTaskCredit: one receipt per relation, written before it returns.
Receipt(d, p) ==
    [player |-> p, friend |-> CHOOSE q \in Pair(driver[d].link) : q # p,
     relation |-> driver[d].copy.relation]

\* creditBothSides persists after each side.
CreditSide(d) ==
    LET l == driver[d].link
        p == IF Low(l) \in driver[d].copy.credited THEN High(l) ELSE Low(l) IN
    /\ At(d, "TASK_CREDITING") /\ driver[d].copy.credited # Pair(l)
    /\ credits' = credits \cup {Receipt(d, p)}
    /\ Persisting(d, [driver[d].copy EXCEPT !.credited = @ \cup {p}])
    /\ UNCHANGED <<saga, list, relation, rewarded, mails, faults>>

CreditsDone(d) ==
    /\ At(d, "TASK_CREDITING") /\ driver[d].copy.credited = Pair(driver[d].link)
    /\ Proceed(d, "FIRST_REWARD_CHECKED")
    /\ UNCHANGED <<saga, Tables, faults>>

\* As if every friendship were a first one.
FirstAlways(p) == TRUE

\* TryClaimFirstFriendReward inserts the redeemer's only row.
First(p) == \A r \in rewarded : Redeemer[r] # p

CheckFirstReward(d) ==
    LET l == driver[d].link IN
    /\ At(d, "FIRST_REWARD_CHECKED")
    /\ IF First(Redeemer[l])
       THEN /\ rewarded' = rewarded \cup {l}
            /\ Persisting(d, [driver[d].copy EXCEPT !.status = "REWARD_MAILS_CREATED", !.claimed = TRUE])
       ELSE rewarded' = rewarded /\ Proceed(d, "COMPLETED")
    /\ UNCHANGED <<saga, list, relation, credits, mails, faults>>

\* As if the source event ID were made from the link.
SourceOfLink(l, side) == [side |-> side, of |-> l]

\* firstFriendInviterSourceID and firstFriendInviteeSourceID.
SourceID(l, side) == [side |-> side, of |-> Redeemer[l]]

\* CreateSystemRewardMail creates one mail per source event ID.  (Its two inserts
\* are one step; FriendGift has them apart.)
CreateMail(l, side) ==
    LET to == IF side = "inviter" THEN CodeOwner[l] ELSE Redeemer[l] IN
    mails' = IF \E m \in mails : m.source = SourceID(l, side) THEN mails
             ELSE mails \cup {[source |-> SourceID(l, side), to |-> to, for |-> Redeemer[l]]}

CreateRewardMail(d) ==
    LET l == driver[d].link
        side == IF "inviter" \in driver[d].copy.mailed THEN "invitee" ELSE "inviter" IN
    /\ At(d, "REWARD_MAILS_CREATED") /\ driver[d].copy.mailed # {"inviter", "invitee"}
    /\ CreateMail(l, side)
    /\ Persisting(d, [driver[d].copy EXCEPT !.mailed = @ \cup {side}])
    /\ UNCHANGED <<saga, list, relation, credits, rewarded, faults>>

MailsDone(d) ==
    /\ At(d, "REWARD_MAILS_CREATED") /\ driver[d].copy.mailed = {"inviter", "invitee"}
    /\ Proceed(d, "COMPLETED")
    /\ UNCHANGED <<saga, Tables, faults>>

Release(p, l) == [list EXCEPT ![p].reservations = @ \ {l}]

ReleaseLow(d) ==
    /\ At(d, "RELEASING")
    /\ list' = Release(Low(driver[d].link), driver[d].link)
    /\ Set(d, [driver[d] EXCEPT !.phase = "high"])
    /\ UNCHANGED <<saga, relation, credits, rewarded, mails, faults>>

ReleaseHigh(d) ==
    /\ driver[d].phase = "high" /\ Status(d) = "RELEASING"
    /\ list' = Release(High(driver[d].link), driver[d].link)
    /\ Proceed(d, "ABORTED")
    /\ UNCHANGED <<saga, relation, credits, rewarded, mails, faults>>

\* As if UpdateSaga did not check the version.
AnyVersion(d) == saga[driver[d].link] # NoSaga

SameVersion(d) == saga[driver[d].link].version = driver[d].copy.version

Written(d) == [driver[d].copy EXCEPT !.version = @ + 1]

\* UpdateSaga, and the next turn of advance's loop.
Persist(d) ==
    /\ driver[d].phase = "persist"
    /\ IF SameVersion(d)
       THEN /\ saga' = [saga EXCEPT ![driver[d].link] = Written(d)]
            /\ Set(d, IF Status(d) \in Terminal THEN Idle
                      ELSE [driver[d] EXCEPT !.phase = "step", !.copy = Written(d)])
       ELSE saga' = saga /\ Set(d, Idle)
    /\ UNCHANGED <<Tables, faults>>

-----------------------------------------------------------------------------
(***************************************************************************)
(* Failures.                                                               *)
(***************************************************************************)

\* A call fails, a list's update conflicts too often, or the process ends: what
\* was written stays, the rest is up to the next request or to the Reconciler.
Stops(d) ==
    /\ driver[d] # Idle
    /\ Fault
    /\ Set(d, Idle)
    /\ UNCHANGED <<saga, Tables>>

\* A credit, the reward check or a mail fails: the retry time is persisted.
Deferred(d) ==
    LET l == driver[d].link IN
    /\ driver[d].phase = "step"
    /\ Status(d) \in {"TASK_CREDITING", "FIRST_REWARD_CHECKED", "REWARD_MAILS_CREATED"}
    /\ Fault
    /\ SameVersion(d)
    /\ saga' = [saga EXCEPT ![l] = Written(d)]
    /\ Set(d, Idle)
    /\ UNCHANGED Tables

\* releaseBothSides ignores errors.
ReleaseFails(d) ==
    /\ driver[d].phase \in {"step", "high"} /\ Status(d) = "RELEASING"
    /\ Fault
    /\ IF driver[d].phase = "step" THEN Set(d, [driver[d] EXCEPT !.phase = "high"])
       ELSE Proceed(d, "ABORTED")
    /\ UNCHANGED <<saga, Tables>>

-----------------------------------------------------------------------------

Init ==
    /\ saga = [l \in Links |-> NoSaga]
    /\ list = [p \in Players |-> [entries |-> {}, reservations |-> {}]]
    /\ relation = {} /\ credits = {} /\ rewarded = {} /\ mails = {}
    /\ driver = [d \in Drivers |-> Idle]
    /\ faults = 0

Advance(d) ==
    \/ ReserveLow(d) \/ ReserveHigh(d) \/ CreateRelation(d)
    \/ ProjectLow(d) \/ ProjectHigh(d)
    \/ StartCredit(d) \/ CreditSide(d) \/ CreditsDone(d)
    \/ CheckFirstReward(d) \/ CreateRewardMail(d) \/ MailsDone(d)
    \/ ReleaseLow(d) \/ ReleaseHigh(d)
    \/ Persist(d)

Next ==
    \/ \E d \in Requests : LoadSaga(d) \/ \E l \in Links : Begin(d, l)
    \/ \E l \in Links : Reconcile(l)
    \/ \E d \in Drivers : Advance(d) \/ Stops(d) \/ Deferred(d) \/ ReleaseFails(d)

Spec == Init /\ [][Next]_vars

\* Goroutines that have begun are scheduled; nobody has to begin, or to reconcile.
FairSpec ==
    /\ Spec
    /\ \A d \in Requests : WF_vars(LoadSaga(d))
    /\ \A d \in Drivers : WF_vars(Advance(d))

-----------------------------------------------------------------------------
(***************************************************************************)
(* Properties.                                                             *)
(***************************************************************************)

TypeOK ==
    /\ saga \in [Links -> Sagas \cup {NoSaga}]
    /\ list \in [Players -> Lists]
    /\ relation \in SUBSET Links
    /\ credits \in SUBSET [player : Players, friend : Players, relation : Links]
    /\ rewarded \in SUBSET Links
    /\ mails \in SUBSET [source : [side : {"inviter", "invitee"}, of : Players],
                         to : Players, for : Players]
    /\ driver \in [Drivers -> Tasks]
    /\ faults \in 0..MaxFaults

\* Whatever Sagas compete for a player's last slots, and wherever one of them
\* stops, entries and reservations together stay within the limit.
WithinLimit ==
    \A p \in Players :
        Cardinality(list[p].entries) + Cardinality(list[p].reservations) <= MaxFriends

\* A list shows a friend once, for the relation that exists, and a Saga that is
\* past its projections has made the friendship visible to both.
FriendsAreMutual ==
    /\ \A p \in Players : \A e \in list[p].entries :
        /\ e.relation \in relation
        /\ \A f \in list[p].entries : f.friend = e.friend => f = e
    /\ \A l \in Links : saga[l].status \in Projected =>
        \A p \in Pair(l) : \E e \in list[p].entries : e.friend \in Pair(l)

\* Two codes redeemed between the same two players, or a Saga resumed any number
\* of times, credit each player's task once for that friend.
CreditedOnce ==
    \A c, e \in credits : c.player = e.player /\ c.friend = e.friend => c = e

\* A redeemer is rewarded for one friendship only, and so is who invited: each
\* source event has one mail.
RewardedOnce ==
    /\ \A r, s \in rewarded : Redeemer[r] = Redeemer[s] => r = s
    /\ \A m, n \in mails : m.source.side = n.source.side /\ m.for = n.for => m = n

-----------------------------------------------------------------------------
(***************************************************************************)
(* The inductive invariant.                                                *)
(***************************************************************************)

Active == {"RELATION_ACTIVE"} \cup Projected
Committed == {"BOTH_RESERVED"} \cup Active
Releasing == {"RELEASING", "ABORTED"}

\* Two players have one relation; entries and receipts are of relations that
\* exist, and of their players.
TablesAgree ==
    /\ \A r, s \in relation : Pair(r) = Pair(s) => r = s
    /\ \A p \in Players : \A e \in list[p].entries :
        e.relation \in relation /\ e.friend # p /\ Pair(e.relation) = {p, e.friend}
    /\ \A c \in credits :
        c.relation \in relation /\ c.friend # c.player /\ Pair(c.relation) = {c.player, c.friend}
    /\ \A m \in mails : m.source.of = m.for

FiniteLists == \A p \in Players : IsFiniteSet(list[p].entries) /\ IsFiniteSet(list[p].reservations)

HasEntry(p, l) == \E e \in list[p].entries : e.friend \in Pair(l)

\* What a Saga's record says of the tables.
Backed(l, s) ==
    /\ s.status \in {"LOW_RESERVED"} \cup Committed => Holds(Low(l), l)
    /\ s.status \in Committed => Holds(High(l), l)
    /\ s.status \in Active => s.relation \in RelationOf(l)
    /\ s.status \in Projected => \A p \in Pair(l) : HasEntry(p, l)

\* A Saga that has both slots never releases them, and the other way round.
Succeeds(s, c) ==
    /\ s.status \in Committed => c.status \in Committed
    /\ s.status \in Releasing => c.status \in Releasing

Copying(d) == driver[d].phase \in {"step", "high", "persist"}

\* A goroutine's copy is the record or a successor of it, or it is outdated; even
\* then what it is about to do agrees with what the Saga has become.
CopyOK(d) ==
    LET l == driver[d].link
        cp == driver[d].copy
    IN  /\ saga[l] # NoSaga /\ cp.version <= saga[l].version
        /\ cp.version = saga[l].version => Backed(l, cp) /\ Succeeds(saga[l], cp)
        /\ driver[d].phase # "persist" =>
            /\ cp.version = saga[l].version => cp = saga[l]
            /\ Succeeds(cp, saga[l])
            /\ cp.status \in Active => cp.relation \in RelationOf(l)
        /\ driver[d].phase = "high" /\ cp.status = "RELATION_ACTIVE" => HasEntry(Low(l), l)

Inv ==
    /\ TypeOK /\ FiniteLists /\ WithinLimit
    /\ TablesAgree /\ RewardedOnce
    /\ \A l \in Links : saga[l] # NoSaga => Backed(l, saga[l])
    /\ \A d \in Drivers : Copying(d) => CopyOK(d)

\* "The accepted product behavior is that the player retries adding the friend"
\* (2026-08-16-friend-saga-scan-disabled.md): a link that its redeemer keeps
\* retrying comes to an end wherever an earlier attempt stopped, also when the two
\* have become friends in the meantime.
RetriedLinkEnds ==
    \A l \in Links :
        []<><<\E d \in Requests : Begin(d, l)>>_vars =>
            (saga[l].status # "none" ~> saga[l].status \in Terminal)
=============================================================================
