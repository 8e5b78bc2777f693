----------------------------- MODULE MCFarmPlot -----------------------------
EXTENDS FarmPlot, TLC

\* A pest takes one of the crop's three growth units per millisecond.
MinusOne == -1

Symmetry == Permutations(Workers) \cup Permutations(Visitors)

\* When the clock is behind, the time up to which growth was settled is used
\* instead: every state of the plot passes the checks of a checkpoint.
Savable == Valid(plot)

\* A pest slot is free again when the pest has run out.
PestEnds ==
    \A w \in Workers :
        plot.state = "GROWING" /\ job[w] # None
            /\ (\A e \in plot.pest : e.end <= job[w])
            => FreeForPest(plot, job[w])
=============================================================================
