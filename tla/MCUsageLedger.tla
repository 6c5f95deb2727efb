--------------------------- MODULE MCUsageLedger ---------------------------
\* Values for TLC: two kinds of call, monthly and weekly budgets.
EXTENDS UsageLedger, TLC

CONSTANTS small, blind

MCFacts == {small, blind}
MCPrice == (small :> 1) @@ (blind :> Unpriced)
MCLength == [month |-> 2, week |-> 1]
MCBudgets == {[limit |-> 1, mode |-> "hard", calendar |-> "week", from |-> 0, to |-> 9],
              [limit |-> 1, mode |-> "soft", calendar |-> "month", from |-> 1, to |-> 9]}
MCRaises == {2}
MCSymmetry == Permutations(Attempts) \cup Permutations(Callers)
=============================================================================
