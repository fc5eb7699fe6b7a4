------------------------------ MODULE MCRefund ------------------------------
EXTENDS Refund, TLC

CONSTANTS t1, t2

\* A free order, which cannot be refunded, and one whose fee is rounded.
MCOrders == {"free", "bought"}
MCAmount == [free |-> 0, bought |-> 5]
MCTabs == {t1, t2}

Symmetry == Permutations(MCTabs)
=============================================================================
