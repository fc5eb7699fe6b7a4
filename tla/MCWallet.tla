------------------------------ MODULE MCWallet ------------------------------
(* Two wallets, two refs and two callers whose calls collide in every way *)
(* the service guards against: same ref and wallet, same ref on another     *)
(* wallet, same ref with another type or direction, competing debits.       *)
EXTENDS Wallet

CONSTANTS w1, w2, c1, c2, none

MCWallets == {w1, w2}
MCCallers == {c1, c2}
MCTypes   == {"topup", "purchase"}

Req(op, w, a, t, r) == [op |-> op, wallet |-> w, amount |-> a, type |-> t, ref |-> r]

\* Enough refs for two competing debits after one credit.
MCRefs == {"topup:1", "order:1", "order:2"}
MCRequests ==
  { Req("credit", w1, 2, "topup", "topup:1"),
    Req("credit", w2, 1, "topup", "topup:1"),
    Req("debit",  w1, 1, "topup", "topup:1"),
    Req("debit",  w1, 2, "purchase", "order:1"),
    Req("debit",  w1, 1, "purchase", "order:2"),
    Req("credit", w1, 1, "topup", "order:2"),
    Req("credit", w1, 0, "topup", "topup:1"),
    Req("debit",  w1, 1, "gift", "order:1") }
=============================================================================
