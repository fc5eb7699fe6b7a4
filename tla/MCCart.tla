------------------------------- MODULE MCCart -------------------------------
EXTENDS Cart, TLC

CONSTANTS t1, t2, pa, pb

\* Two plans of a seller who accepts static QRIS; the balance pays for two lines
\* and a third goes to the gateway.  A duration of 0 is stored as 1.
MCPlans == {pa, pb}
MCPrice == [p \in MCPlans |-> 1]
MCSeller == [p \in MCPlans |-> "s"]
MCTabs == {t1, t2}

Symmetry == Permutations(MCTabs) \cup Permutations(MCPlans)
=============================================================================
