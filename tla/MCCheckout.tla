----------------------------- MODULE MCCheckout -----------------------------
EXTENDS Checkout, TLC

CONSTANTS p1, p2

MCProcs == {p1, p2}
MCWallets == {"ann"}
MCStart == [w \in MCWallets |-> 3]

Buy(o, base, discount, plan, method) ==
  [kind |-> "checkout", order |-> o, wallet |-> "ann", base |-> base,
   discount |-> discount, plan |-> plan, method |-> method]
Do(kind, o) == [kind |-> kind, order |-> o]

\* Two wallet purchases with the coupon, one of them possibly completed after
\* a top-up; a static QRIS order; a free plan; a key reused for another plan.
MCOrders == {"k1", "k2", "k3", "k4"}
MCJobs == { Buy("k1", 3, 1, "recurring", "wallet"), Do("complete", "k1"),
            Buy("k2", 3, 1, "once", "wallet"), Do("complete", "k2"),
            Buy("k3", 2, 1, "once", "qris_static"), Do("confirm", "k3"), Do("reject", "k3"),
            Buy("k4", 0, 0, "once", "wallet"), Buy("k4", 1, 2, "recurring", "wallet") }

Symmetry == Permutations(MCProcs)
=============================================================================
