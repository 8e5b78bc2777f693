---------------------------- MODULE MCFriendGift ----------------------------
EXTENDS FriendGift, TLC

CONSTANTS g1, g2, w1, w2

OneEach == [g \in Gifts |-> 1]

Symmetry == Permutations(Workers)

\* "One Player Actor serializes all commands in Mailbox order" and "each command
\* revalidates its own business preconditions": a gift and the commands that run
\* while it is suspended take their crops from the same stack.
GiftsSerialized == Conserved

\* The write path is validate, apply, mark dirty, reply: once every goroutine has
\* returned or is suspended, what was applied has been marked (or saved).
AppliedIsMarked ==
    (\A w \in Workers : task[w].phase # "mark") =>
        state.revision <= saved.revision \/ state.revision <= marked

\* The stack is charged after CreateGiftMail has returned without an error, so a
\* gift that was charged for has its mail, or a request under way that writes it.
ChargedIsMailed ==
    \A g \in Given :
        \/ mails[g] = 1
        \/ [gift |-> g, phase |-> "insert"] \in late
        \/ \E w \in Workers : task[w].phase = "insert" /\ task[w].gift = g
=============================================================================
