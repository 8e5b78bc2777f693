----------------------------- MODULE FriendGift -----------------------------
(***************************************************************************)
(* SEND_FRIEND_GIFT: the sender's Actor checks the stack of crops, suspends *)
(* its mailbox job while the mail service creates the mail, and commits the *)
(* deduction in a continuation.  Other jobs of the same mailbox run in      *)
(* between.  One sender, one crop item, and the mail service's two tables.  *)
(*                                                                         *)
(* Sources: server/internal/player/runtime.go (handleSendFriendGiftAwait),  *)
(* gift.go, sell_crop.go, harvest.go, server/internal/actor/mailbox.go and  *)
(* server/internal/mail/service.go (CreateGiftMail).                        *)
(***************************************************************************)
EXTENDS Integers, FiniteSets, Functions

CONSTANTS
    Gifts,          \* request IDs of gift commands; a client may repeat one
    Quantity,       \* the quantity each of them gives
    Workers,        \* goroutines that serve the sender's requests
    InitialCrops,   \* the stack before the first command
    MaxHarvests,    \* bound on harvests, one crop each
    MaxFaults       \* bound on timeouts, refusals, evictions and crashes

ASSUME GiftAssumption ==
    /\ Quantity \in [Gifts -> 1..10]
    /\ InitialCrops \in Nat
    /\ MaxHarvests \in Nat
    /\ MaxFaults \in Nat

VARIABLES
    state,       \* the Actor's state
    saved,       \* the state in the checkpoint row
    marked,      \* Runtime.dirtyRevision of the sender; 0: no entry
    inc,         \* how often the Actor was removed from memory
    evicting,    \* the eviction holds the shard's write lock
    task,        \* what each goroutine is doing
    claimed,     \* MailSourceDedup: source event IDs
    mails,       \* PrivateMail: rows written per source event ID
    late,        \* steps of the mail service whose caller gave up
    faults,
    overlapped   \* history: another command changed the stack during a suspension

vars == <<state, saved, marked, inc, evicting, task, claimed, mails, late, faults, overlapped>>

-----------------------------------------------------------------------------

Results == {"none", "ok", "failed"}

States == [crops : Nat, sold : Nat, harvested : Nat, revision : Nat,
           results : [Gifts -> Results]]

\* The goroutine of an await: the gift, draft.currentQuantity, the Actor it
\* belongs to, and whether the caller still waits on the handle (and so holds
\* the shard's read lock).
Phases == {"lookup", "claim", "insert", "resume"}

Tasks == [phase : Phases, gift : Gifts, current : Nat, inc : Nat, waiting : BOOLEAN]
         \cup [phase : {"mark"}, revision : Nat]
         \cup {[phase |-> "idle"]}

Idle == [phase |-> "idle"]

Mark(revision) == [phase |-> "mark", revision |-> revision]

Suspended(w) == task[w].phase \in Phases

\* A Handle that has not returned holds the shard's read lock.
Reading(w) == task[w].phase = "mark" \/ (Suspended(w) /\ task[w].waiting)

\* As if only failures were replayed.
StoredFailure(g) == state.results[g] = "failed"

\* A command found in RecentResults is replayed.
Stored(g) == state.results[g] # "none"

\* The job runs on the mailbox of the Actor in memory, not of a removed one.
Live(w) == task[w].inc = inc

Set(w, t) == task' = [task EXCEPT ![w] = t]

To(w, phase) == Set(w, [task[w] EXCEPT !.phase = phase])

Fault == faults < MaxFaults /\ faults' = faults + 1

\* Another suspended gift carries a stack size that is about to be outdated.
Overlaps(w, others) == \E v \in Workers \ {w} : Suspended(v) /\ Live(v) /\ task[v].gift \in others

Mail == <<claimed, mails, late>>

Memory == <<saved, marked, inc, evicting>>

-----------------------------------------------------------------------------
(***************************************************************************)
(* The commands of the sender.                                             *)
(***************************************************************************)

\* The first job, with too few crops: the failure is stored.
GiftFails(w, g) ==
    /\ task[w] = Idle /\ ~evicting /\ ~Stored(g)
    /\ Quantity[g] > state.crops
    /\ state' = [state EXCEPT !.revision = @ + 1, !.results[g] = "failed"]
    /\ Set(w, Mark(state.revision + 1))
    /\ UNCHANGED <<Memory, Mail, faults, overlapped>>

\* The first job, which prepares the draft and suspends.
GiftSuspends(w, g) ==
    /\ task[w] = Idle /\ ~evicting /\ ~Stored(g)
    /\ Quantity[g] <= state.crops
    /\ Set(w, [phase |-> "lookup", gift |-> g, current |-> state.crops, inc |-> inc, waiting |-> TRUE])
    /\ UNCHANGED <<state, Memory, Mail, faults, overlapped>>

\* SELL_CROP between the two jobs of a gift, as at any other time.
Sell(w, n) ==
    /\ task[w] = Idle /\ ~evicting
    /\ n <= state.crops
    /\ state' = [state EXCEPT !.crops = @ - n, !.sold = @ + n, !.revision = @ + 1]
    /\ Set(w, Mark(state.revision + 1))
    /\ overlapped' = (overlapped \/ Overlaps(w, Gifts))
    /\ UNCHANGED <<Memory, Mail, faults>>

Harvest(w) ==
    /\ task[w] = Idle /\ ~evicting
    /\ state.harvested < MaxHarvests
    /\ state' = [state EXCEPT !.crops = @ + 1, !.harvested = @ + 1, !.revision = @ + 1]
    /\ Set(w, Mark(state.revision + 1))
    /\ overlapped' = (overlapped \/ Overlaps(w, Gifts))
    /\ UNCHANGED <<Memory, Mail, faults>>

\* Handle marks the revision dirty once its last job is done, and returns.
MarkDirty(w) ==
    /\ task[w].phase = "mark"
    /\ marked' = IF task[w].revision > marked THEN task[w].revision ELSE marked
    /\ Set(w, Idle)
    /\ UNCHANGED <<state, saved, inc, evicting, Mail, faults, overlapped>>

-----------------------------------------------------------------------------
(***************************************************************************)
(* CreateGiftMail, called by the goroutine of the await.                    *)
(***************************************************************************)

Lookup(w) ==
    /\ task[w].phase = "lookup"
    /\ To(w, IF task[w].gift \in claimed THEN "resume" ELSE "claim")
    /\ UNCHANGED <<state, Memory, Mail, faults, overlapped>>

\* As if the insert overwrote.
UnclaimedAlways(g) == TRUE

\* The rows TryInsertSourceDedup does not find occupied.
Unclaimed(g) == g \notin claimed

Claim(w) ==
    /\ task[w].phase = "claim"
    /\ claimed' = claimed \cup {task[w].gift}
    /\ To(w, IF Unclaimed(task[w].gift) THEN "insert" ELSE "resume")
    /\ UNCHANGED <<state, Memory, mails, late, faults, overlapped>>

InsertMail(w) ==
    /\ task[w].phase = "insert"
    /\ mails' = [mails EXCEPT ![task[w].gift] = @ + 1]
    /\ To(w, "resume")
    /\ UNCHANGED <<state, Memory, claimed, late, faults, overlapped>>

\* As if the handle were not completed.
CompleteForgotten(w) == [task[w] EXCEPT !.phase = "abandoned"]

\* As if the error were ignored and the continuation resumed.
CompleteByResume(w) == [task[w] EXCEPT !.phase = "resume"]

\* What a goroutine does whose call or Resume failed: it completes the handle
\* with a retryable error and the caller, if it still waits, returns.
Complete(w) == Idle

\* The call fails, or it times out and its step may still be carried out.
MailFails(w) ==
    /\ task[w].phase \in {"lookup", "claim", "insert"}
    /\ Fault
    /\ \/ late' = late
       \/ /\ task[w].phase # "lookup"
          /\ late' = late \cup {[gift |-> task[w].gift, phase |-> task[w].phase]}
    /\ Set(w, Complete(w))
    /\ UNCHANGED <<state, Memory, claimed, mails, overlapped>>

LateClaim(s) ==
    /\ s.phase = "claim"
    /\ claimed' = claimed \cup {s.gift}
    /\ late' = (late \ {s}) \cup
               (IF Unclaimed(s.gift) THEN {[s EXCEPT !.phase = "insert"]} ELSE {})
    /\ UNCHANGED <<state, Memory, task, mails, faults, overlapped>>

LateInsert(s) ==
    /\ s.phase = "insert"
    /\ mails' = [mails EXCEPT ![s.gift] = @ + 1]
    /\ late' = late \ {s}
    /\ UNCHANGED <<state, Memory, task, claimed, faults, overlapped>>

-----------------------------------------------------------------------------
(***************************************************************************)
(* Resume and the continuation.                                            *)
(***************************************************************************)

\* commitSendFriendGift writes what was left of the stack the draft has seen.
Commit(w) ==
    LET g == task[w].gift IN
    /\ task[w].phase = "resume" /\ Live(w)
    /\ state' = [state EXCEPT !.crops = task[w].current - Quantity[g],
                              !.revision = @ + 1,
                              !.results[g] = "ok"]
    /\ Set(w, IF task[w].waiting THEN Mark(state.revision + 1) ELSE Idle)
    /\ overlapped' = (overlapped \/ Overlaps(w, Gifts \ {g}))
    /\ UNCHANGED <<Memory, Mail, faults>>

\* The Actor was removed meanwhile: Submit finds its mailbox closed, or the
\* continuation changes a state that nobody reads again.
CommitElsewhere(w) ==
    /\ task[w].phase = "resume" /\ ~Live(w)
    /\ Set(w, Complete(w))
    /\ UNCHANGED <<state, Memory, Mail, faults, overlapped>>

\* Submit does not wait for room in the mailbox.
MailboxFull(w) ==
    /\ task[w].phase = "resume" /\ Live(w)
    /\ Fault
    /\ Set(w, Complete(w))
    /\ UNCHANGED <<state, Memory, Mail, overlapped>>

\* The request's context ends; Wait returns and so does Handle.  The goroutine
\* of the await goes on.
CallerTimesOut(w) ==
    /\ Suspended(w) /\ task[w].waiting
    /\ Fault
    /\ Set(w, [task[w] EXCEPT !.waiting = FALSE])
    /\ UNCHANGED <<state, Memory, Mail, overlapped>>

-----------------------------------------------------------------------------
(***************************************************************************)
(* Write-back, eviction and crash, in the detail that matters here          *)
(* (PlayerRuntime has the rest).                                           *)
(***************************************************************************)

Flush ==
    /\ marked # 0 /\ ~evicting
    /\ saved' = state
    /\ marked' = IF marked <= state.revision THEN 0 ELSE marked
    /\ UNCHANGED <<state, inc, evicting, task, Mail, faults, overlapped>>

\* Eviction has the write lock: it saves what the Actor holds ...
EvictSave ==
    /\ ~evicting /\ \A w \in Workers : ~Reading(w)
    /\ Fault
    /\ evicting' = TRUE
    /\ saved' = state
    /\ marked' = IF marked <= state.revision THEN 0 ELSE marked
    /\ UNCHANGED <<state, inc, task, Mail, overlapped>>

\* ... and removes the Actor.  The next request loads the row.
EvictRemove ==
    /\ evicting
    /\ evicting' = FALSE
    /\ inc' = inc + 1
    /\ state' = saved
    /\ UNCHANGED <<saved, marked, task, Mail, faults, overlapped>>

\* Steps under way at the mail service are not stopped by the Zone's crash.
Crash ==
    /\ Fault
    /\ late' = late \cup {[gift |-> task[w].gift, phase |-> task[w].phase] :
                            w \in {v \in Workers : task[v].phase \in {"claim", "insert"}}}
    /\ task' = [w \in Workers |-> Idle]
    /\ state' = saved
    /\ marked' = 0
    /\ inc' = inc + 1
    /\ evicting' = FALSE
    /\ UNCHANGED <<saved, claimed, mails, overlapped>>

-----------------------------------------------------------------------------

Init ==
    /\ state = [crops |-> InitialCrops, sold |-> 0, harvested |-> 0, revision |-> 1,
                results |-> [g \in Gifts |-> "none"]]
    /\ saved = state
    /\ marked = 0 /\ inc = 0 /\ evicting = FALSE
    /\ task = [w \in Workers |-> Idle]
    /\ claimed = {} /\ mails = [g \in Gifts |-> 0] /\ late = {}
    /\ faults = 0 /\ overlapped = FALSE

Begin(w) ==
    \/ \E g \in Gifts : GiftFails(w, g) \/ GiftSuspends(w, g)
    \/ \E n \in 1..(InitialCrops + MaxHarvests) : Sell(w, n)
    \/ Harvest(w)

\* The goroutine's own steps, those of the mail service included.
Proceed(w) ==
    \/ MarkDirty(w)
    \/ Lookup(w) \/ Claim(w) \/ InsertMail(w)
    \/ Commit(w) \/ CommitElsewhere(w)

Interrupt(w) == MailFails(w) \/ MailboxFull(w) \/ CallerTimesOut(w)

Next ==
    \/ \E w \in Workers : Begin(w) \/ Proceed(w) \/ Interrupt(w)
    \/ \E s \in late : LateClaim(s) \/ LateInsert(s)
    \/ Flush \/ EvictSave \/ EvictRemove \/ Crash

Spec == Init /\ [][Next]_vars

\* Goroutines are scheduled and the mail service answers or its caller's
\* three seconds end; clients, faults and evictions owe nothing.
FairSpec == Spec /\ \A w \in Workers : WF_vars(Proceed(w))

-----------------------------------------------------------------------------
(***************************************************************************)
(* Properties.                                                             *)
(***************************************************************************)

TypeOK ==
    /\ state \in States /\ saved \in States
    /\ marked \in Nat /\ inc \in Nat /\ evicting \in BOOLEAN
    /\ task \in [Workers -> Tasks]
    /\ claimed \in SUBSET Gifts
    /\ mails \in [Gifts -> Nat]
    /\ late \in SUBSET [gift : Gifts, phase : {"claim", "insert"}]
    /\ faults \in 0..MaxFaults
    /\ overlapped \in BOOLEAN

GivenIn(s) == {g \in Gifts : s.results[g] = "ok"}

Charge(T) == SumFunctionOnSet(Quantity, T)

Balanced(s) == s.crops + s.sold + Charge(GivenIn(s)) = InitialCrops + s.harvested

Given == GivenIn(state)

\* Every crop is in the stack, sold, or given in a gift that was charged for.
Conserved == Balanced(state)

\* However often a gift is requested, retried after a timeout or a crash, or
\* served twice at once, CreateGiftMail writes one mail for it at most.
OneMail == \A g \in Gifts : mails[g] <= 1

\* A gift is charged for only if the mail service has accepted it, in memory
\* and in the row.
ChargedIsClaimed ==
    \A g \in Gifts : "ok" \in {state.results[g], saved.results[g]} => g \in claimed

\* A request that is repeated, or served by two goroutines at once, is charged
\* for once and no crop appears or disappears, as long as no other command
\* changed the stack while a gift was suspended.
ChargedOnce == ~overlapped => Conserved

\* The right to insert a mail was won by inserting the claim, and is held by one
\* goroutine or by one call that was given up, until the mail is written.
InsertRights ==
    /\ \A w \in Workers : task[w].phase = "insert" =>
        /\ task[w].gift \in claimed /\ mails[task[w].gift] = 0
        /\ [gift |-> task[w].gift, phase |-> "insert"] \notin late
        /\ \A v \in Workers \ {w} : task[v].phase = "insert" => task[v].gift # task[w].gift
    /\ \A s \in late : s.phase = "insert" => s.gift \in claimed /\ mails[s.gift] = 0
    /\ \A g \in Gifts : g \notin claimed => mails[g] = 0

\* A suspended gift can still be paid from the stack its draft has seen, belongs
\* to this Actor or an earlier one, and is resumed only once it is claimed.
DraftsPayable ==
    \A w \in Workers : Suspended(w) =>
        /\ task[w].inc <= inc
        /\ Quantity[task[w].gift] <= task[w].current
        /\ task[w].phase = "resume" => task[w].gift \in claimed

\* A draft's stack is the present one, less the gift if another goroutine has
\* charged for it already.
DraftsCurrent ==
    \A w \in Workers : Suspended(w) /\ Live(w) =>
        task[w].current = state.crops +
            (IF state.results[task[w].gift] = "ok" THEN Quantity[task[w].gift] ELSE 0)

\* The inductive invariant.  The row is balanced too: a crash goes back to it.
Inv ==
    /\ TypeOK
    /\ OneMail /\ InsertRights
    /\ ChargedIsClaimed /\ DraftsPayable
    /\ \A s \in {state, saved} : IsFiniteSet(GivenIn(s))
    /\ ~overlapped => Balanced(state) /\ Balanced(saved) /\ DraftsCurrent

\* Every await ends: whatever the mail service and the mailbox answer, the handle
\* is completed and the goroutine that serves the gift is free again.
AwaitEnds == \A w \in Workers : Suspended(w) ~> task[w] = Idle
=============================================================================
