--------------------------- MODULE MCSubscription ---------------------------
(* A customer with one subscription that much happens to, a customer whose two *)
(* subscriptions compete for the balance, and one with a free plan besides.    *)
EXTENDS Subscription
CONSTANTS s1, s2, free, j1, j2
MCCustomers == { [subs |-> {s1}, disturbances |-> 2],
                 [subs |-> {s1, s2}, disturbances |-> 0],
                 [subs |-> {s1, free}, disturbances |-> 0] }
MCProcs == {j1, j2}
=============================================================================
