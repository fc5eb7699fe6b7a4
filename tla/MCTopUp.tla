------------------------------ MODULE MCTopUp ------------------------------
(* A cart checkout beside a plain top-up with a bonus, or beside the checkout *)
(* of a single order that counts on the same balance.                         *)
EXTENDS TopUp, TLC

CONSTANTS w1, w2

MCWorkers == {w1, w2}
MCOrders == {"o1", "o2", "o3", "o4", "free"}
Lined(inCart) == [t \in TopUps |-> CASE t = "cart" -> inCart
                                    [] t = "single" -> <<"o1">> [] OTHER -> <<>>]
MCLines == Lined(<<"o3", "o2">>)
LinesWithFree == Lined(<<"o3", "o2", "free", "o4">>)
MCCart == [t \in TopUps |-> t = "cart"]
MCOutcomes == [t \in TopUps |-> IF t = "plain" THEN {"completed", "failed"} ELSE {"completed"}]
AllCollected == [t \in TopUps |-> {"completed"}]
MCAsked == [t \in TopUps |-> 1]
MCBonus == [t \in TopUps |-> IF t = "plain" THEN 1 ELSE 0]
MCPrice == [o \in MCOrders |-> CASE o = "o1" -> 3 [] o = "free" -> 0 [] OTHER -> 1]

Msg(t, type, exact, id) ==
  [topup |-> t, type |-> type, exact |-> exact, id |-> id, svix |-> TRUE, token |-> TRUE]

\* Without the svix headers, and with neither of the two.
Unsigned(e) == [e EXCEPT !.svix = FALSE]
Unverified(e) == [e EXCEPT !.svix = FALSE, !.token = FALSE]

\* Overlapping, repeated, contradictory, late, wrong and unverified reports.
Crossing ==
  { Msg("plain", "completed", TRUE, 1), Unsigned(Msg("plain", "completed", TRUE, 2)),
    Msg("plain", "failed", TRUE, 3),    Msg("cart", "completed", TRUE, 4),
    Msg("cart", "completed", FALSE, 5), Unverified(Msg("cart", "completed", TRUE, 6)),
    Msg("plain", "test", TRUE, 7),      Msg("plain", "other", TRUE, 8) }

\* A cart reported with the right and with a wrong amount, and another payment.
WrongAmount ==
  { Msg("single", "completed", TRUE, 1), Msg("cart", "completed", TRUE, 4),
    Msg("cart", "completed", FALSE, 5) }

\* Every payment that completes is reported once.
Reports == { Msg("single", "completed", TRUE, 1), Msg("cart", "completed", TRUE, 4) }

Symmetry == Permutations(MCWorkers)
=============================================================================
