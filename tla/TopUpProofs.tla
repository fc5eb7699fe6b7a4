----------------------------- MODULE TopUpProofs -----------------------------
(***************************************************************************)
(* TLAPS proofs about TopUp, for any number of top-ups, orders, events and *)
(* workers, any prices and any pattern of deliveries and failures.         *)
(*                                                                         *)
(* The four safety properties are proved together, since each step needs   *)
(* the others: the credit of a top-up is new on the ledger because it is   *)
(* not PAID (StatusMatchesLedger), which in turn is what keeps the books   *)
(* balanced.  StageInv says that a checkout creates its rows once, HookInv *)
(* what a worker has established about the event it handles.               *)
(***************************************************************************)
EXTENDS TopUp, AggregatesProofs

\* The rows of a checkout do not exist before the step that creates them, and
\* only a buyer who was sent to the payment page can have paid.
StageInv ==
  \A t \in TopUps :
    /\ stage[t] = "none" => \A o \in Range(Lines[t]) : orders[o].status = "absent"
    /\ stage[t] \in {"none", "ordered"} => topup[t] = "absent"
    /\ "completed" \in gateway[t] => stage[t] = "redirected"

\* A worker past the view has a verified event; past the gate it is on record,
\* and it goes on to the credit only with a completed payment of the right amount.
HookInv ==
  \A w \in Workers :
    LET e == worker[w].event  pc == worker[w].pc IN
    /\ pc # "idle" => e \in Events /\ (e.type = "completed" => "completed" \in gateway[e.topup])
    /\ pc \in {"route", "apply", "orders", "finish"} => e \in gate
    /\ pc = "apply" => e.type = "completed" /\ e.exact

IInv == /\ TypeOK /\ StageInv /\ HookInv
        /\ StatusMatchesLedger /\ FulfilledExactlyOnce
        /\ CreditOnlyWhenCollected /\ BooksBalance

-----------------------------------------------------------------------------
\* The number assign_invoice_number draws is a natural.
LEMMA InvoiceType ==
  ASSUME TypeOK, NEW o \in Orders
  PROVE  assign_invoice_number(orders) \in Nat
<1> DEFINE f == [x \in Orders |-> orders[x].invoice]
<1>1. DOMAIN orders = Orders /\ \A x \in Orders : f[x] \in Nat
  BY DEF TypeOK, OrderRow
<1>2. Max({f[x] : x \in Orders}) \in {f[x] : x \in Orders}
  <2>1. IsFiniteSet(Orders) /\ Orders # {} /\ \A x \in Orders : f[x] \in Int
    BY <1>1, TopUpAssumption
  <2> HIDE DEF f
  <2> QED BY <2>1, MaxOfRows
<1>3. {orders[x].invoice : x \in DOMAIN orders} = {f[x] : x \in Orders}
  BY <1>1
<1> QED BY <1>1, <1>2, <1>3 DEF assign_invoice_number

\* The lines of a top-up are orders.
LEMMA LinesAreOrders ==
  ASSUME NEW t \in TopUps
  PROVE  Lines[t] \in Seq(Orders) /\ Range(Lines[t]) \subseteq Orders
<1>1. Lines[t] \in Seq(Orders)
  BY TopUpAssumption
<1> QED BY <1>1 DEF Range

\* What an accepted delivery says of its payment was so when it was sent.
LEMMA VerifiedIsSent ==
  ASSUME NEW e \in Events, Sent(e), verify_webhook(e), e.type = "completed"
  PROVE  "completed" \in gateway[e.topup]
BY EventsAssumption DEF Sent, verify_webhook, verify_svix_signature, verify_webhook_token

\* A step that touches neither rows nor payments leaves the books alone.
LEMMA BooksUntouched ==
  ASSUME StatusMatchesLedger, FulfilledExactlyOnce, BooksBalance,
         topup' = topup, orders' = orders, balance' = balance, posted' = posted, others' = others,
         amount' = amount
  PROVE  StatusMatchesLedger' /\ FulfilledExactlyOnce' /\ BooksBalance'
BY DEF StatusMatchesLedger, FulfilledExactlyOnce, BooksBalance, Brought, PaidTopUps, PaidOrders

\* The sums in BooksBalance are integers.
LEMMA SumTypes ==
  ASSUME TypeOK
  PROVE  /\ IsFiniteSet(PaidTopUps) /\ IsFiniteSet(PaidOrders)
         /\ \A t \in TopUps : Brought[t] \in Int /\ Brought[t] = amount[t] + Bonus[t]
         /\ \A o \in Orders : Price[o] \in Int
         /\ SumOf(Brought, PaidTopUps) \in Int /\ SumOf(Price, PaidOrders) \in Int
<1>1. IsFiniteSet(PaidTopUps) /\ IsFiniteSet(PaidOrders)
  BY TopUpAssumption, FS_Subset DEF PaidTopUps, PaidOrders
<1>2. /\ \A t \in TopUps : Brought[t] \in Int /\ Brought[t] = amount[t] + Bonus[t]
      /\ \A o \in Orders : Price[o] \in Int
  BY TopUpAssumption DEF Brought, TypeOK
<1>3. PaidTopUps \subseteq TopUps /\ PaidOrders \subseteq Orders
  BY DEF PaidTopUps, PaidOrders
<1>4. SumOf(Brought, PaidTopUps) \in Int /\ SumOf(Price, PaidOrders) \in Int
  BY <1>1, <1>2, <1>3, SumOfType
<1> QED BY <1>1, <1>2, <1>4

\* The amount of a top-up that is not PAID does not count.
LEMMA BroughtSame ==
  ASSUME TypeOK, PaidTopUps' = PaidTopUps, \A t \in PaidTopUps : amount'[t] = amount[t]
  PROVE  SumOf(Brought', PaidTopUps') = SumOf(Brought, PaidTopUps)
<1>1. IsFiniteSet(PaidTopUps)
  BY SumTypes
<1>2. \A t \in PaidTopUps : Brought'[t] = Brought[t]
  BY DEF Brought, PaidTopUps
<1> QED BY <1>1, <1>2, SumOfSame

\* What a checkout asks for is an integer.
LEMMA ShortfallType ==
  ASSUME TypeOK, NEW t \in TopUps
  PROVE  Shortfall(t) \in Int
<1>1. IsFiniteSet(Range(Lines[t])) /\ \A o \in Range(Lines[t]) : Price[o] \in Int
  BY LinesAreOrders, TopUpAssumption, FS_Subset
<1>2. Total(t) \in Int
  BY <1>1, SumOfType DEF Total
<1> QED BY <1>2 DEF Shortfall, TypeOK

LEMMA InitIInv == Init => IInv
<1> SUFFICES ASSUME Init PROVE IInv
  OBVIOUS
<1>1. TypeOK
  BY TopUpAssumption DEF Init, TypeOK, WorkerState, Idle, NoOrder, OrderRow
<1>2. StageInv /\ HookInv
  BY LinesAreOrders DEF Init, StageInv, HookInv, Idle, NoOrder
<1>5. StatusMatchesLedger
  BY DEF Init, StatusMatchesLedger, NoOrder
<1>6. FulfilledExactlyOnce
  BY DEF Init, FulfilledExactlyOnce, NoOrder, PaidOrders
<1>3. PaidTopUps = {} /\ PaidOrders = {}
  BY DEF Init, PaidTopUps, PaidOrders, NoOrder
<1>4. BooksBalance
  BY <1>3, SumOfEmpty, TopUpAssumption DEF Init, BooksBalance
<1> QED BY <1>1, <1>2, <1>3, <1>4, <1>5, <1>6 DEF IInv, CreditOnlyWhenCollected

-----------------------------------------------------------------------------
(* Checkout with a shortfall *)

\* Creating the orders of a checkout: they did not exist before.
LEMMA NewOrders ==
  ASSUME IInv, NEW t \in TopUps, stage[t] = "none", orders' = Pending(orders, t)
  PROVE  /\ orders' \in [Orders -> OrderRow]
         /\ \A o \in Orders : orders'[o].status = "paid" <=> orders[o].status = "paid"
         /\ \A u \in TopUps \ {t} : \A o \in Range(Lines[u]) : orders'[o] = orders[o]
         /\ FulfilledExactlyOnce'
         /\ PaidOrders' = PaidOrders
<1>1. \A o \in Range(Lines[t]) : orders[o].status = "absent"
  BY DEF IInv, StageInv
<1>2. orders \in [Orders -> OrderRow] /\ FulfilledExactlyOnce
  BY DEF IInv, TypeOK
<1>3. \A o \in Orders : orders'[o] = IF o \in Range(Lines[t])
                                     THEN [orders[o] EXCEPT !.status = "pending"] ELSE orders[o]
  BY DEF Pending
<1>4. orders' \in [Orders -> OrderRow]
  BY <1>2, <1>3 DEF Pending, OrderRow
<1>5. \A o \in Orders : orders'[o].status = "paid" <=> orders[o].status = "paid"
  BY <1>1, <1>2, <1>3 DEF OrderRow
<1>6. \A u \in TopUps \ {t} : \A o \in Range(Lines[u]) : orders'[o] = orders[o]
  <2>1. \A u \in TopUps : Range(Lines[u]) \subseteq Orders
    BY LinesAreOrders
  <2>2. \A u \in TopUps \ {t} : \A o \in Range(Lines[u]) : o \notin Range(Lines[t])
    BY TopUpAssumption
  <2> QED BY <1>3, <2>1, <2>2
<1>7. FulfilledExactlyOnce'
  <2>1. ASSUME NEW o \in Orders
        PROVE  /\ orders'[o].grants = orders[o].grants /\ orders'[o].subs = orders[o].subs
               /\ orders'[o].earnings = orders[o].earnings
               /\ orders'[o].invoice = orders[o].invoice
    BY <1>2, <1>3 DEF OrderRow
  <2> QED BY <1>2, <1>5, <2>1 DEF FulfilledExactlyOnce, PaidOrders
<1>8. PaidOrders' = PaidOrders
  BY <1>5 DEF PaidOrders
<1> QED BY <1>4, <1>5, <1>6, <1>7, <1>8

\* The steps of checkout() and checkout_cart() create rows once and move no money.
LEMMA CheckoutSteps ==
  ASSUME IInv, NEW t \in TopUps, Checkout(t)
  PROVE  IInv'
<1>0. TypeOK /\ StageInv /\ HookInv /\ StatusMatchesLedger /\ FulfilledExactlyOnce
      /\ CreditOnlyWhenCollected /\ BooksBalance
  BY DEF IInv
<1>1. ASSUME CreateOrder(t) PROVE IInv'
  <2>1. /\ stage[t] = "none" /\ orders' = Pending(orders, t)
        /\ stage' = [stage EXCEPT ![t] = "ordered"]
        /\ amount' = [amount EXCEPT ![t] = Shortfall(t)]
        /\ UNCHANGED <<topup, linked, cart, balance, posted, used, gate, processed, acked,
                       worker, others, gateway, failures, drawn>>
    BY <1>1 DEF CreateOrder, hook
  <2>2. /\ orders' \in [Orders -> OrderRow]
        /\ \A o \in Orders : orders'[o].status = "paid" <=> orders[o].status = "paid"
        /\ \A u \in TopUps \ {t} : \A o \in Range(Lines[u]) : orders'[o] = orders[o]
        /\ FulfilledExactlyOnce' /\ PaidOrders' = PaidOrders
    BY <2>1, NewOrders
  <2>3. amount' \in [TopUps -> Int]
    BY <1>0, <2>1, ShortfallType DEF TypeOK
  <2>7. TypeOK'
    BY <1>0, <2>1, <2>2, <2>3 DEF TypeOK
  <2>4. StageInv'
    BY <1>0, <2>1, <2>2 DEF TypeOK, StageInv
  <2>5. HookInv' /\ CreditOnlyWhenCollected'
    BY <1>0, <2>1 DEF HookInv, CreditOnlyWhenCollected, PaidTopUps
  <2>8. PaidTopUps' = PaidTopUps /\ \A u \in PaidTopUps : amount'[u] = amount[u]
    BY <1>0, <2>1 DEF PaidTopUps, StageInv, TypeOK
  <2>6. StatusMatchesLedger' /\ BooksBalance'
    BY <1>0, <2>1, <2>2, <2>8, BroughtSame DEF StatusMatchesLedger, BooksBalance
  <2> QED BY <2>2, <2>4, <2>5, <2>6, <2>7 DEF IInv
<1>2. ASSUME CreateTopUp(t) PROVE IInv'
  <2>1. /\ stage[t] \in {"none", "ordered"} /\ topup' = [topup EXCEPT ![t] = "pending"]
        /\ amount' = amount \/ amount' = [amount EXCEPT ![t] = Asked[t]]
        /\ stage' = [stage EXCEPT ![t] = "created"]
        /\ UNCHANGED <<orders, linked, cart, balance, posted, used, gate, processed, acked,
                       worker, others, gateway, failures, drawn>>
    BY <1>2 DEF CreateTopUp, hook
  <2>2. topup[t] = "absent" /\ \A u \in TopUps : topup'[u] = "paid" <=> topup[u] = "paid"
    BY <1>0, <2>1 DEF TypeOK, StageInv
  <2>3. amount' \in [TopUps -> Int] /\ \A u \in TopUps \ {t} : amount'[u] = amount[u]
    <3>1. CASE amount' = amount
      BY <1>0, <3>1 DEF TypeOK
    <3>2. CASE amount' = [amount EXCEPT ![t] = Asked[t]]
      <4>1. Asked[t] \in Int /\ amount \in [TopUps -> Int]
        BY <1>0, TopUpAssumption DEF TypeOK
      <4> QED BY <3>2, <4>1
    <3> QED BY <2>1, <3>1, <3>2
  <2>4. TypeOK' /\ StageInv' /\ HookInv'
    BY <1>0, <2>1, <2>3 DEF TypeOK, StageInv, HookInv
  <2>5. /\ PaidTopUps' = PaidTopUps /\ PaidOrders' = PaidOrders
        /\ \A u \in PaidTopUps : amount'[u] = amount[u]
    BY <2>1, <2>2, <2>3 DEF PaidTopUps, PaidOrders
  <2>6. StatusMatchesLedger' /\ FulfilledExactlyOnce' /\ BooksBalance' /\ CreditOnlyWhenCollected'
    BY <1>0, <2>1, <2>2, <2>5, BroughtSame
       DEF StatusMatchesLedger, FulfilledExactlyOnce, BooksBalance, CreditOnlyWhenCollected
  <2> QED BY <2>4, <2>6 DEF IInv
<1>3. ASSUME CreatePayment(t) \/ CheckoutCartRolledBack(t) PROVE IInv'
  <2>1. /\ stage[t] \in {"none", "created"} /\ gateway' = [gateway EXCEPT ![t] = {"open"}]
        /\ stage' = [stage EXCEPT ![t] = IF stage[t] = "created" THEN "requested" ELSE "abandoned"]
        /\ failures' \in {failures, failures + 1}
        /\ UNCHANGED <<topup, linked, cart, orders, balance, posted, used,
                       gate, processed, acked, worker, amount, others, drawn>>
    BY <1>3 DEF CreatePayment, CheckoutCartRolledBack, create_payment, hook, rows
  <2>2. "completed" \notin gateway[t]
        /\ \A u \in TopUps : "completed" \in gateway'[u] <=> "completed" \in gateway[u]
    BY <1>0, <2>1 DEF TypeOK, StageInv
  <2>3. TypeOK' /\ StageInv'
    BY <1>0, <2>1 DEF TypeOK, StageInv
  <2>4. HookInv' /\ CreditOnlyWhenCollected'
    BY <1>0, <2>1, <2>2, EventsAssumption DEF HookInv, CreditOnlyWhenCollected, PaidTopUps
  <2>5. StatusMatchesLedger' /\ FulfilledExactlyOnce' /\ BooksBalance'
    BY <1>0, <2>1, BooksUntouched
  <2> QED BY <2>3, <2>4, <2>5 DEF IInv
<1>4. ASSUME LinkOrder(t) \/ AbandonCheckout(t) PROVE IInv'
  <2>1. /\ stage[t] \in {"ordered", "created", "requested"}
        /\ \E next \in {"redirected", "abandoned"} : stage' = [stage EXCEPT ![t] = next]
        /\ linked' \in {linked, [linked EXCEPT ![t] = ~Plain(t)]}
        /\ failures' \in {failures, failures + 1}
        /\ UNCHANGED <<topup, cart, orders, balance, posted, used,
                       gate, processed, acked, worker, amount, others, gateway, drawn>>
    BY <1>4 DEF LinkOrder, AbandonCheckout, hook, rows
  <2>2. TypeOK' /\ StageInv'
    <3>1. PICK next \in {"redirected", "abandoned"} : stage' = [stage EXCEPT ![t] = next]
      BY <2>1
    <3>2. linked' \in [TopUps -> BOOLEAN]
      <4>1. CASE linked' = linked
        BY <1>0, <4>1 DEF TypeOK
      <4>2. CASE linked' = [linked EXCEPT ![t] = ~Plain(t)]
        BY <1>0, <4>2 DEF TypeOK
      <4> QED BY <2>1, <4>1, <4>2
    <3>4. failures' \in Nat
      BY <1>0, <2>1 DEF TypeOK
    <3>3. TypeOK'
      BY <1>0, <2>1, <3>1, <3>2, <3>4 DEF TypeOK
    <3> QED BY <1>0, <2>1, <3>1, <3>3 DEF TypeOK, StageInv
  <2>3. HookInv' /\ CreditOnlyWhenCollected'
    BY <1>0, <2>1 DEF HookInv, CreditOnlyWhenCollected, PaidTopUps
  <2>4. StatusMatchesLedger' /\ FulfilledExactlyOnce' /\ BooksBalance'
    BY <1>0, <2>1, BooksUntouched
  <2> QED BY <2>2, <2>3, <2>4 DEF IInv
<1>5. ASSUME CheckoutCart(t) PROVE IInv'
  <2>1. /\ stage[t] = "none" /\ orders' = Pending(orders, t)
        /\ stage' = [stage EXCEPT ![t] = "redirected"]
        /\ cart' = [cart EXCEPT ![t] = "pending"] /\ topup' = [topup EXCEPT ![t] = "pending"]
        /\ linked' = [linked EXCEPT ![t] = TRUE] /\ gateway' = [gateway EXCEPT ![t] = {"open"}]
        /\ amount' = [amount EXCEPT ![t] = Shortfall(t)]
        /\ UNCHANGED <<balance, posted, used, gate, processed, acked, worker, others, failures, drawn>>
    BY <1>5 DEF CheckoutCart, create_payment, hook
  <2>2. /\ orders' \in [Orders -> OrderRow]
        /\ \A o \in Orders : orders'[o].status = "paid" <=> orders[o].status = "paid"
        /\ \A u \in TopUps \ {t} : \A o \in Range(Lines[u]) : orders'[o] = orders[o]
        /\ FulfilledExactlyOnce' /\ PaidOrders' = PaidOrders
    BY <2>1, NewOrders
  <2>3. /\ \A u \in TopUps : topup'[u] = "paid" <=> topup[u] = "paid"
        /\ \A u \in TopUps : "completed" \in gateway'[u] <=> "completed" \in gateway[u]
        /\ PaidTopUps' = PaidTopUps /\ \A u \in PaidTopUps : amount'[u] = amount[u]
    BY <1>0, <2>1 DEF TypeOK, StageInv, PaidTopUps
  <2>8. amount' \in [TopUps -> Int]
    BY <1>0, <2>1, ShortfallType DEF TypeOK
  <2>4. TypeOK'
    BY <1>0, <2>1, <2>2, <2>8 DEF TypeOK
  <2>5. StageInv'
    BY <1>0, <2>1, <2>2 DEF TypeOK, StageInv
  <2>6. HookInv' /\ CreditOnlyWhenCollected'
    BY <1>0, <2>1, <2>3, EventsAssumption DEF HookInv, CreditOnlyWhenCollected, PaidTopUps
  <2>7. StatusMatchesLedger' /\ BooksBalance'
    BY <1>0, <2>1, <2>2, <2>3, BroughtSame DEF StatusMatchesLedger, BooksBalance
  <2> QED BY <2>2, <2>4, <2>5, <2>6, <2>7 DEF IInv
<1> QED BY <1>1, <1>2, <1>3, <1>4, <1>5 DEF Checkout

-----------------------------------------------------------------------------
(* The gateway and the rest of the shop *)

\* What the gateway has collected stays collected.
LEMMA SettleStep ==
  ASSUME IInv, NEW t \in TopUps, NEW outcome \in {"completed", "failed", "expired"},
         Settle(t, outcome)
  PROVE  IInv'
<1>0. TypeOK /\ StageInv /\ HookInv /\ StatusMatchesLedger /\ FulfilledExactlyOnce
      /\ CreditOnlyWhenCollected /\ BooksBalance
  BY DEF IInv
<1>1. /\ outcome = "completed" => stage[t] = "redirected"
      /\ gateway' = [gateway EXCEPT ![t] = gateway[t] \cup {outcome}]
      /\ UNCHANGED <<topup, linked, cart, orders, balance, posted, used,
                     gate, processed, acked, worker, stage, amount, others, failures, drawn>>
  BY DEF Settle, hook, rows
<1>2. \A u \in TopUps : "completed" \in gateway[u] => "completed" \in gateway'[u]
  BY <1>0, <1>1 DEF TypeOK
<1>3. TypeOK' /\ StageInv'
  BY <1>0, <1>1 DEF TypeOK, StageInv
<1>4. HookInv' /\ CreditOnlyWhenCollected'
  BY <1>0, <1>1, <1>2, EventsAssumption DEF HookInv, CreditOnlyWhenCollected, PaidTopUps
<1>5. StatusMatchesLedger' /\ FulfilledExactlyOnce' /\ BooksBalance'
  BY <1>0, <1>1, BooksUntouched
<1> QED BY <1>3, <1>4, <1>5 DEF IInv

\* Another purchase takes its price from the wallet.
LEMMA OtherStep ==
  ASSUME IInv, OtherPurchase
  PROVE  IInv'
<1>0. TypeOK /\ StageInv /\ HookInv /\ StatusMatchesLedger /\ FulfilledExactlyOnce
      /\ CreditOnlyWhenCollected /\ BooksBalance
  BY DEF IInv
<1>1. /\ balance' = balance - OtherPrice /\ others' = others + 1
      /\ UNCHANGED <<topup, linked, cart, orders, posted, used, gate, processed, acked, worker,
                     stage, amount, gateway, failures>>
      /\ drawn' \subseteq drawn \cup TopUps
  BY DEF OtherPurchase, Draw, hook
<1>2. balance \in Int /\ others \in Nat /\ OtherPrice \in Nat
  BY <1>0, TopUpAssumption DEF TypeOK
<1>3. TypeOK'
  BY <1>0, <1>1, <1>2 DEF TypeOK
<1>4. StageInv' /\ HookInv' /\ StatusMatchesLedger' /\ FulfilledExactlyOnce'
      /\ CreditOnlyWhenCollected'
  BY <1>0, <1>1 DEF StageInv, HookInv, StatusMatchesLedger, FulfilledExactlyOnce,
                    CreditOnlyWhenCollected, PaidTopUps, PaidOrders
<1>5. BooksBalance'
  <2>1. PaidTopUps' = PaidTopUps /\ PaidOrders' = PaidOrders /\ Brought' = Brought
    BY <1>1 DEF PaidTopUps, PaidOrders, Brought
  <2>2. (others + 1) * OtherPrice = others * OtherPrice + OtherPrice
        /\ others * OtherPrice \in Int
    BY <1>2
  <2> QED BY <1>0, <1>1, <1>2, <2>1, <2>2, SumTypes, TopUpAssumption DEF BooksBalance
<1> QED BY <1>3, <1>4, <1>5 DEF IInv

\* Expiry and failure only replace PENDING.
LEMMA ClosePending ==
  ASSUME IInv, NEW t \in TopUps, topup[t] # "absent",
         NEW status \in {"failed", "expired"},
         topup' = [topup EXCEPT ![t] = Marked(topup[t], status)],
         orders' = orders, posted' = posted, balance' = balance, others' = others, amount' = amount,
         stage' = stage, gateway' = gateway, gate' = gate
  PROVE  /\ topup' \in [TopUps -> {"absent", "pending", "paid", "expired", "failed"}]
         /\ StageInv' /\ StatusMatchesLedger' /\ FulfilledExactlyOnce'
         /\ CreditOnlyWhenCollected' /\ BooksBalance'
<1>0. TypeOK /\ StageInv /\ StatusMatchesLedger /\ FulfilledExactlyOnce
      /\ CreditOnlyWhenCollected /\ BooksBalance
  BY DEF IInv
<1>1. /\ topup' \in [TopUps -> {"absent", "pending", "paid", "expired", "failed"}]
      /\ \A u \in TopUps : (topup'[u] = "paid" <=> topup[u] = "paid")
                           /\ (topup'[u] = "absent" <=> topup[u] = "absent")
  BY <1>0 DEF TypeOK, Marked
<1>2. PaidTopUps' = PaidTopUps /\ PaidOrders' = PaidOrders /\ Brought' = Brought
  BY <1>1 DEF PaidTopUps, PaidOrders, Brought
<1>3. StageInv'
  BY <1>0, <1>1 DEF StageInv
<1>4. StatusMatchesLedger' /\ FulfilledExactlyOnce' /\ CreditOnlyWhenCollected' /\ BooksBalance'
  BY <1>0, <1>1, <1>2 DEF StatusMatchesLedger, FulfilledExactlyOnce, CreditOnlyWhenCollected,
                          BooksBalance
<1> QED BY <1>1, <1>3, <1>4

\* The poller's conditional UPDATE.
LEMMA PollStep ==
  ASSUME IInv, NEW t \in TopUps, recheck_topup_status(t)
  PROVE  IInv'
<1>1. /\ topup[t] = "pending" /\ topup' = [topup EXCEPT ![t] = "expired"]
      /\ UNCHANGED <<linked, cart, orders, balance, posted, used, gate, processed, acked, worker,
                     stage, amount, others, gateway, failures, drawn>>
  BY DEF recheck_topup_status, hook
<1>2. /\ topup' \in [TopUps -> {"absent", "pending", "paid", "expired", "failed"}]
      /\ StageInv' /\ StatusMatchesLedger' /\ FulfilledExactlyOnce'
      /\ CreditOnlyWhenCollected' /\ BooksBalance'
  BY <1>1, ClosePending DEF Marked
<1>3. TypeOK' /\ HookInv'
  BY <1>1, <1>2 DEF IInv, TypeOK, HookInv
<1> QED BY <1>2, <1>3 DEF IInv

-----------------------------------------------------------------------------
(* The webhook *)

\* What a worker has established carries over when it answers, or moves on to
\* a point whose conditions hold, and when the records of events grow.
LEMMA WorkerMoves ==
  ASSUME HookInv, NEW w \in Workers,
         gateway' = gateway, gate \subseteq gate',
         \A v \in Workers \ {w} : worker'[v] = worker[v],
         NEW e, worker'[w].event = e,
         worker'[w].pc # "idle" =>
           e \in Events /\ (e.type = "completed" => "completed" \in gateway[e.topup]),
         worker'[w].pc \in {"route", "apply", "orders", "finish"} => e \in gate',
         worker'[w].pc = "apply" => e.type = "completed" /\ e.exact
  PROVE  HookInv'
BY DEF HookInv

\* The worker moves on, keeping its event and its orders.
LEMMA GotoForm ==
  ASSUME TypeOK, NEW w \in Workers,
         NEW point \in {"idle", "gate", "route", "apply", "orders", "finish"}, Goto(w, point)
  PROVE  /\ worker' \in [Workers -> WorkerState]
         /\ worker'[w].pc = point /\ worker'[w].event = worker[w].event
         /\ worker'[w].todo = worker[w].todo
         /\ \A v \in Workers \ {w} : worker'[v] = worker[v]
BY DEF TypeOK, WorkerState, Goto

\* The worker answers.
LEMMA RespondForm ==
  ASSUME TypeOK, NEW w \in Workers, NEW ok \in BOOLEAN, Respond(w, ok),
         ok => Ev(w) \in Events
  PROVE  /\ worker' \in [Workers -> WorkerState]
         /\ worker'[w].pc = "idle"
         /\ \A v \in Workers \ {w} : worker'[v] = worker[v]
         /\ acked' \subseteq Events
<1>1. Idle \in WorkerState /\ Idle.pc = "idle"
  BY DEF Idle, WorkerState
<1> QED BY <1>1 DEF TypeOK, Respond

\* A step that only moves a worker and records events touches no money.
LEMMA HookOnly ==
  ASSUME IInv, UNCHANGED <<rows, stage, amount, others, gateway, drawn>>,
         worker' \in [Workers -> WorkerState], HookInv',
         gate \subseteq gate', gate' \subseteq Events, processed' \subseteq gate',
         acked' \subseteq Events, failures' \in Nat
  PROVE  IInv'
<1>0. TypeOK /\ StageInv /\ StatusMatchesLedger /\ FulfilledExactlyOnce
      /\ CreditOnlyWhenCollected /\ BooksBalance
  BY DEF IInv
<1>1. UNCHANGED <<topup, linked, cart, orders, balance, posted, used, stage, amount, others, gateway, drawn>>
  BY DEF rows
<1>2. TypeOK'
  BY <1>0, <1>1 DEF TypeOK
<1>3. StageInv'
  BY <1>0, <1>1 DEF StageInv
<1>4. CreditOnlyWhenCollected'
  BY <1>0, <1>1 DEF CreditOnlyWhenCollected, PaidTopUps
<1>5. StatusMatchesLedger' /\ FulfilledExactlyOnce' /\ BooksBalance'
  BY <1>0, <1>1, BooksUntouched
<1> QED BY <1>2, <1>3, <1>4, <1>5 DEF IInv

\* A delivery that verifies was sent by the gateway.
LEMMA DeliverStep ==
  ASSUME IInv, NEW w \in Workers, NEW e \in Events, Deliver(w, e)
  PROVE  IInv'
<1>0. TypeOK /\ HookInv
  BY DEF IInv
<1>1. /\ worker' = [worker EXCEPT ![w] = [pc |-> "gate", event |-> e, todo |-> <<>>]]
      /\ UNCHANGED <<rows, gate, processed, acked, stage, amount, others, gateway, failures, drawn>>
      /\ Sent(e) /\ verify_webhook(e)
  BY DEF Deliver
<1>3. [pc |-> "gate", event |-> e, todo |-> <<>>] \in WorkerState
  BY DEF WorkerState
<1>4. /\ worker' \in [Workers -> WorkerState]
      /\ worker'[w].pc = "gate" /\ worker'[w].event = e
      /\ \A v \in Workers \ {w} : worker'[v] = worker[v]
  BY <1>0, <1>1, <1>3 DEF TypeOK
<1>5. HookInv'
  BY <1>0, <1>1, <1>4, VerifiedIsSent DEF HookInv
<1>6. gate \subseteq gate' /\ gate' \subseteq Events /\ processed' \subseteq gate'
      /\ acked' \subseteq Events /\ failures' \in Nat
  BY <1>0, <1>1 DEF TypeOK
<1> QED BY <1>1, <1>4, <1>5, <1>6, HookOnly

\* The gate records the event before it lets the worker on.
LEMMA GateStep ==
  ASSUME IInv, NEW w \in Workers, Gate(w)
  PROVE  IInv'
<1>0. TypeOK /\ HookInv
  BY DEF IInv
<1>1. /\ worker[w].pc = "gate"
      /\ UNCHANGED <<rows, processed, stage, amount, others, gateway, failures, drawn>>
  BY DEF Gate
<1>2. Ev(w) \in Events /\ (Ev(w).type = "completed" => "completed" \in gateway[Ev(w).topup])
  BY <1>0, <1>1 DEF HookInv, Ev
<1>3. CASE Respond(w, TRUE) /\ UNCHANGED gate
  <2>1. /\ worker' \in [Workers -> WorkerState] /\ worker'[w].pc = "idle"
        /\ \A v \in Workers \ {w} : worker'[v] = worker[v]
        /\ acked' \subseteq Events
    BY <1>0, <1>2, <1>3, RespondForm
  <2>2. HookInv'
    BY <1>0, <1>1, <1>3, <2>1 DEF HookInv
  <2> QED BY <1>0, <1>1, <1>3, <2>1, <2>2, HookOnly DEF TypeOK
<1>4. CASE gate' = gate \cup {Ev(w)} /\ Goto(w, "route") /\ UNCHANGED acked
  <2>1. /\ worker' \in [Workers -> WorkerState]
        /\ worker'[w].pc = "route" /\ worker'[w].event = Ev(w)
        /\ \A v \in Workers \ {w} : worker'[v] = worker[v]
    BY <1>0, <1>4, GotoForm DEF Ev
  <2>2. HookInv'
    BY <1>0, <1>1, <1>2, <1>4, <2>1, WorkerMoves
  <2> QED BY <1>0, <1>1, <1>2, <1>4, <2>1, <2>2, HookOnly DEF TypeOK
<1> QED BY <1>3, <1>4 DEF Gate

\* The end of a delivery, answered or not.
LEMMA EndSteps ==
  ASSUME IInv, NEW w \in Workers, Finish(w) \/ Fail(w)
  PROVE  IInv'
<1>0. TypeOK /\ HookInv
  BY DEF IInv
<1>1. PICK ok \in BOOLEAN : Respond(w, ok) /\ (ok => worker[w].pc = "finish")
  BY DEF Finish, Fail
<1>2. /\ UNCHANGED <<rows, gate, stage, amount, others, gateway, drawn>>
      /\ failures' \in {failures, failures + 1}
      /\ processed' = processed \/ (worker[w].pc = "finish" /\ processed' = processed \cup {Ev(w)})
  BY DEF Finish, Fail
<1>3. worker[w].pc = "finish" => Ev(w) \in gate
  BY <1>0 DEF HookInv, Ev
<1>4. /\ worker' \in [Workers -> WorkerState] /\ worker'[w].pc = "idle"
      /\ \A v \in Workers \ {w} : worker'[v] = worker[v]
      /\ acked' \subseteq Events
  BY <1>0, <1>1, <1>3, RespondForm DEF TypeOK
<1>5. HookInv'
  BY <1>0, <1>2, <1>4 DEF HookInv
<1>6. failures' \in Nat /\ processed' \subseteq gate' /\ gate' \subseteq Events
  BY <1>0, <1>2, <1>3 DEF TypeOK
<1> QED BY <1>2, <1>4, <1>5, <1>6, HookOnly

\* Test events, failures and refused events: only a PENDING top-up is closed.
LEMMA RouteStep ==
  ASSUME IInv, NEW w \in Workers, Route(w)
  PROVE  IInv'
<1>0. TypeOK /\ HookInv
  BY DEF IInv
<1> DEFINE e == Ev(w)
           t == e.topup
<1>1. /\ worker[w].pc = "route"
      /\ UNCHANGED <<linked, cart, orders, balance, posted, used, gate, processed,
                     stage, amount, others, gateway, failures, drawn>>
  BY DEF Route
<1>2. /\ e \in Events /\ e \in gate /\ t \in TopUps
      /\ e.type = "completed" => "completed" \in gateway[t]
  BY <1>0, <1>1, EventsAssumption DEF HookInv, Ev
<1>3. ASSUME NEW ok \in BOOLEAN, Respond(w, ok), UNCHANGED topup PROVE IInv'
  <2>1. /\ worker' \in [Workers -> WorkerState] /\ worker'[w].pc = "idle"
        /\ \A v \in Workers \ {w} : worker'[v] = worker[v]
        /\ acked' \subseteq Events
    BY <1>0, <1>2, <1>3, RespondForm
  <2>2. HookInv'
    BY <1>0, <1>1, <2>1 DEF HookInv
  <2> QED BY <1>0, <1>1, <1>3, <2>1, <2>2, HookOnly DEF TypeOK, rows
<1>4. ASSUME NEW point \in {"finish", "apply"}, Goto(w, point),
             point = "apply" => e.type = "completed" /\ e.exact,
             UNCHANGED <<gateway, gate>>
      PROVE  worker' \in [Workers -> WorkerState] /\ HookInv'
  <2>1. /\ worker' \in [Workers -> WorkerState]
        /\ worker'[w].pc = point /\ worker'[w].event = e
        /\ \A v \in Workers \ {w} : worker'[v] = worker[v]
    BY <1>0, <1>4, GotoForm DEF Ev
  <2> HIDE DEF e
  <2>2. HookInv'
    BY <1>0, <1>2, <1>4, <2>1, WorkerMoves
  <2> QED BY <2>1, <2>2
<1>5. ASSUME NEW point \in {"finish", "apply"}, Goto(w, point),
             point = "apply" => e.type = "completed" /\ e.exact,
             UNCHANGED <<topup, acked>>
      PROVE  IInv'
  <2>1. worker' \in [Workers -> WorkerState] /\ HookInv'
    BY <1>1, <1>4, <1>5
  <2> QED BY <1>0, <1>1, <1>5, <2>1, HookOnly DEF TypeOK, rows
<1>6. ASSUME e.type \in {"failed", "expired"}, topup[t] # "absent",
             topup' = [topup EXCEPT ![t] = Marked(topup[t], e.type)],
             Goto(w, "finish"), UNCHANGED acked
      PROVE  IInv'
  <2>1. worker' \in [Workers -> WorkerState] /\ HookInv'
    BY <1>1, <1>4, <1>6
  <2> HIDE DEF t, e
  <2>2. /\ topup' \in [TopUps -> {"absent", "pending", "paid", "expired", "failed"}]
        /\ StageInv' /\ StatusMatchesLedger' /\ FulfilledExactlyOnce'
        /\ CreditOnlyWhenCollected' /\ BooksBalance'
    BY <1>1, <1>2, <1>6, ClosePending
  <2>3. TypeOK'
    BY <1>0, <1>1, <1>6, <2>1, <2>2 DEF TypeOK
  <2> QED BY <2>1, <2>2, <2>3 DEF IInv
<1> QED BY <1>3, <1>5, <1>6 DEF Route, AmountMatches

\* The credit: a top-up that is not PAID has nothing on the ledger, so amount
\* and bonus are both new to the balance, and the event the worker holds is the
\* report that the gateway collected the payment.
LEMMA ApplyStep ==
  ASSUME IInv, NEW w \in Workers, apply_topup_success(w)
  PROVE  IInv'
<1>0. TypeOK /\ StageInv /\ HookInv /\ StatusMatchesLedger /\ FulfilledExactlyOnce
      /\ CreditOnlyWhenCollected /\ BooksBalance
  BY DEF IInv
<1> DEFINE e == Ev(w)
           t == e.topup
           refs == {<<"topup", t>>} \cup (IF Bonus[t] > 0 THEN {<<"bonus", t>>} ELSE {})
<1>1. /\ worker[w].pc = "apply"
      /\ UNCHANGED <<linked, cart, orders, used, gate, processed, acked,
                     stage, amount, others, gateway, failures, drawn>>
  BY DEF apply_topup_success
<1>2. /\ e \in Events /\ e \in gate /\ t \in TopUps
      /\ "completed" \in gateway[t] /\ e.type = "completed" /\ e.exact
  BY <1>0, <1>1, EventsAssumption DEF HookInv, Ev
<1>3. CASE topup[t] = "paid"
  <2>1. Goto(w, "finish") /\ UNCHANGED <<topup, balance, posted>>
    BY <1>3 DEF apply_topup_success, Creditable
  <2>2. /\ worker' \in [Workers -> WorkerState]
        /\ worker'[w].pc = "finish" /\ worker'[w].event = e
        /\ \A v \in Workers \ {w} : worker'[v] = worker[v]
    BY <1>0, <2>1, GotoForm DEF Ev
  <2> HIDE DEF e
  <2>3. HookInv'
    BY <1>0, <1>1, <1>2, <2>2, WorkerMoves
  <2> QED BY <1>0, <1>1, <2>1, <2>2, <2>3, HookOnly DEF TypeOK, rows
<1>4. CASE topup[t] # "paid"
  <2>1. /\ balance' = balance + Credited(<<"topup", t>>, amount[t])
                              + Credited(<<"bonus", t>>, Bonus[t])
        /\ posted' = posted \cup refs
        /\ topup' = [topup EXCEPT ![t] = "paid"]
        /\ worker' = [worker EXCEPT ![w].pc = IF linked[t] THEN "orders" ELSE "finish",
                                    ![w].todo = Funded(t)]
    BY <1>4 DEF apply_topup_success, Creditable
  <2>2. Funded(t) \in Seq(Orders)
    BY <1>2, LinesAreOrders DEF Funded
  <2>3. /\ worker' \in [Workers -> WorkerState]
        /\ worker'[w].pc \in {"orders", "finish"} /\ worker'[w].event = e
        /\ \A v \in Workers \ {w} : worker'[v] = worker[v]
    <3> DEFINE point == IF linked[t] THEN "orders" ELSE "finish"
               todo == Funded(t)
    <3>1. point \in {"orders", "finish"} /\ todo \in Seq(Orders)
      BY <2>2
    <3>2. worker' = [worker EXCEPT ![w].pc = point, ![w].todo = todo]
      BY <2>1
    <3> HIDE DEF point, todo
    <3> QED BY <1>0, <3>1, <3>2 DEF TypeOK, WorkerState, Ev
  <2> HIDE DEF e
  <2>4. HookInv'
    BY <1>0, <1>1, <1>2, <2>3, WorkerMoves
  <2>5. <<"topup", t>> \notin posted /\ <<"bonus", t>> \notin posted
    BY <1>0, <1>2, <1>4 DEF StatusMatchesLedger
  <2>6. amount[t] \in Int /\ Bonus[t] \in Nat /\ balance \in Int
    BY <1>0, <1>2, TopUpAssumption DEF TypeOK
  <2>7. balance' = balance + Brought[t] /\ balance' \in Int
    BY <1>2, <2>1, <2>5, <2>6 DEF Credited, Brought
  <2>8. \A u \in TopUps : topup'[u] = IF u = t THEN "paid" ELSE topup[u]
    BY <1>0, <2>1 DEF TypeOK
  <2>9. PaidTopUps' = PaidTopUps \cup {t} /\ PaidOrders' = PaidOrders /\ t \notin PaidTopUps
        /\ Brought' = Brought
    BY <1>1, <1>2, <1>4, <2>8 DEF PaidTopUps, PaidOrders, Brought
  <2>10. TypeOK'
    <3>1. refs \subseteq ({"topup", "bonus"} \X TopUps)
      BY <1>2
    <3>2. topup' \in [TopUps -> {"absent", "pending", "paid", "expired", "failed"}]
      BY <1>0, <2>1 DEF TypeOK
    <3> HIDE DEF refs
    <3> QED BY <1>0, <1>1, <2>1, <2>3, <2>7, <3>1, <3>2 DEF TypeOK
  <2>11. StageInv'
    <3>1. stage[t] = "redirected"
      BY <1>0, <1>2 DEF StageInv
    <3> QED BY <1>0, <1>1, <1>2, <2>8, <3>1 DEF StageInv
  <2>12. StatusMatchesLedger'
    <3>1. /\ \A u \in TopUps : <<"topup", u>> \in posted' <=> u = t \/ <<"topup", u>> \in posted
          /\ \A u \in TopUps : <<"bonus", u>> \in posted' <=>
                                 (u = t /\ Bonus[t] > 0) \/ <<"bonus", u>> \in posted
          /\ \A o \in Orders : <<"order", o>> \in posted' <=> <<"order", o>> \in posted
      BY <2>1
    <3> QED BY <1>0, <1>1, <1>2, <2>5, <2>8, <3>1 DEF StatusMatchesLedger
  <2>13. FulfilledExactlyOnce'
    BY <1>0, <1>1, <2>9 DEF FulfilledExactlyOnce
  <2>14. CreditOnlyWhenCollected'
    BY <1>0, <1>1, <1>2, <2>9 DEF CreditOnlyWhenCollected
  <2>15. BooksBalance'
    <3>1. SumOf(Brought, PaidTopUps \cup {t}) = SumOf(Brought, PaidTopUps) + Brought[t]
      <4>1. IsFiniteSet(PaidTopUps) /\ \A u \in PaidTopUps \cup {t} : Brought[u] \in Int
        BY <1>0, <1>2, SumTypes DEF PaidTopUps
      <4> HIDE DEF t
      <4> QED BY <2>9, <4>1, SumOfAdd
    <3>2. others * OtherPrice \in Int
      BY <1>0, TopUpAssumption DEF TypeOK
    <3>3. Brought[t] \in Int
      BY <1>0, <1>2, SumTypes
    <3> QED BY <1>0, <1>1, <2>6, <2>7, <2>9, <3>1, <3>2, <3>3, SumTypes, TopUpAssumption
            DEF BooksBalance
  <2> QED BY <2>4, <2>10, <2>11, <2>12, <2>13, <2>14, <2>15 DEF IInv
<1> QED BY <1>3, <1>4

\* The cart is marked and the worker moves on.
LEMMA CartStep ==
  ASSUME IInv, NEW w \in Workers, complete_cart_checkout(w)
  PROVE  IInv'
<1>0. TypeOK /\ StageInv /\ HookInv /\ StatusMatchesLedger /\ FulfilledExactlyOnce
      /\ CreditOnlyWhenCollected /\ BooksBalance
  BY DEF IInv
<1> DEFINE e == Ev(w)
           t == e.topup
<1>1. /\ worker[w].pc = "orders" /\ Goto(w, "finish")
      /\ cart' = [cart EXCEPT ![t] = IF Cart[t] THEN "completed" ELSE cart[t]]
      /\ UNCHANGED <<topup, linked, orders, balance, posted, used, gate, processed,
                     acked, stage, amount, others, gateway, failures, drawn>>
  BY DEF complete_cart_checkout
<1>2. /\ e \in Events /\ e \in gate /\ t \in TopUps
      /\ e.type = "completed" => "completed" \in gateway[t]
  BY <1>0, <1>1, EventsAssumption DEF HookInv, Ev
<1>3. /\ worker' \in [Workers -> WorkerState]
      /\ worker'[w].pc = "finish" /\ worker'[w].event = e
      /\ \A v \in Workers \ {w} : worker'[v] = worker[v]
  BY <1>0, <1>1, GotoForm DEF Ev
<1> HIDE DEF e
<1>4. HookInv'
  BY <1>0, <1>1, <1>2, <1>3, WorkerMoves
<1>5. TypeOK'
  BY <1>0, <1>1, <1>2, <1>3 DEF TypeOK
<1>6. StageInv' /\ CreditOnlyWhenCollected'
  BY <1>0, <1>1 DEF StageInv, CreditOnlyWhenCollected, PaidTopUps
<1>7. StatusMatchesLedger' /\ FulfilledExactlyOnce' /\ BooksBalance'
  BY <1>0, <1>1, BooksUntouched
<1> QED BY <1>4, <1>5, <1>6, <1>7 DEF IInv

\* The completion of one order: it was PENDING, so it is not in PaidOrders and
\* was fulfilled by nobody before.
LEMMA OrderStep ==
  ASSUME IInv, NEW w \in Workers, complete_pending_order(w)
  PROVE  IInv'
<1>0. TypeOK /\ StageInv /\ HookInv /\ StatusMatchesLedger /\ FulfilledExactlyOnce
      /\ CreditOnlyWhenCollected /\ BooksBalance
  BY DEF IInv
<1> DEFINE e == Ev(w)
           o == Head(worker[w].todo)
<1>1. /\ worker[w].pc = "orders" /\ worker[w].todo # <<>>
      /\ UNCHANGED <<topup, linked, cart, gate, processed, stage, amount, others, gateway, failures>>
  BY DEF complete_pending_order
<1>2. /\ e \in Events /\ e \in gate
      /\ e.type = "completed" => "completed" \in gateway[e.topup]
  BY <1>0, <1>1 DEF HookInv, Ev
<1>3. worker[w].todo \in Seq(Orders) /\ o \in Orders /\ Tail(worker[w].todo) \in Seq(Orders)
  BY <1>0, <1>1 DEF TypeOK, WorkerState
<1>4. ASSUME worker' = [worker EXCEPT ![w].todo = Tail(worker[w].todo)]
      PROVE  worker' \in [Workers -> WorkerState] /\ HookInv'
  <2>1. /\ worker' \in [Workers -> WorkerState]
        /\ worker'[w].pc = "orders" /\ worker'[w].event = e
        /\ \A v \in Workers \ {w} : worker'[v] = worker[v]
    BY <1>0, <1>1, <1>3, <1>4 DEF TypeOK, WorkerState, Ev
  <2> HIDE DEF e
  <2>2. HookInv'
    BY <1>0, <1>1, <1>2, <2>1, WorkerMoves
  <2> QED BY <2>1, <2>2
<1>5. ASSUME worker' = [worker EXCEPT ![w].todo = Tail(worker[w].todo)],
             UNCHANGED <<orders, balance, posted, used, acked, drawn>>
      PROVE  IInv'
  BY <1>0, <1>1, <1>4, <1>5, HookOnly DEF TypeOK, rows
<1>6. ASSUME Respond(w, FALSE), UNCHANGED <<orders, balance, posted, used, drawn>> PROVE IInv'
  <2>1. /\ worker' \in [Workers -> WorkerState] /\ worker'[w].pc = "idle"
        /\ \A v \in Workers \ {w} : worker'[v] = worker[v]
        /\ acked' \subseteq Events
    BY <1>0, <1>6, RespondForm
  <2>2. HookInv'
    BY <1>0, <1>1, <2>1 DEF HookInv
  <2> QED BY <1>0, <1>1, <1>6, <2>1, <2>2, HookOnly DEF TypeOK, rows
<1>7. ASSUME StillPending(o), Price[o] > 0, balance >= Price[o],
             balance' = balance - Price[o],
             posted' = posted \cup {<<"order", o>>},
             used' = IF o \in Discounted THEN BumpUsage(used, UsageLimit) ELSE used,
             orders' = [orders EXCEPT ![o] =
               Fulfil(orders[o], assign_invoice_number(orders), o \in Recurring, TRUE)],
             worker' = [worker EXCEPT ![w].todo = Tail(worker[w].todo)],
             Draw({e.topup}), UNCHANGED acked
      PROVE  IInv'
  <2>1. worker' \in [Workers -> WorkerState] /\ HookInv'
    BY <1>4, <1>7
  <2>2. orders \in [Orders -> OrderRow] /\ orders[o].status = "pending"
    BY <1>0, <1>7 DEF TypeOK, StillPending
  <2>3. assign_invoice_number(orders) \in Nat
    BY <1>0, <1>3, InvoiceType
  <2>4. orders[o].grants = 0 /\ orders[o].subs = 0 /\ orders[o].earnings = 0
    BY <1>0, <1>3, <2>2 DEF FulfilledExactlyOnce, PaidOrders
  <2> HIDE DEF o
  <2>5. /\ orders' \in [Orders -> OrderRow]
        /\ orders'[o].status = "paid" /\ orders'[o].grants = 1 /\ orders'[o].earnings = 1
        /\ orders'[o].subs = IF o \in Recurring THEN 1 ELSE 0
        /\ \A x \in Orders \ {o} : orders'[x] = orders[x]
    <3> DEFINE row == Fulfil(orders[o], assign_invoice_number(orders), o \in Recurring, TRUE)
    <3>1. /\ row \in OrderRow /\ row.status = "paid" /\ row.grants = 1 /\ row.earnings = 1
          /\ row.subs = IF o \in Recurring THEN 1 ELSE 0
      BY <2>3, <2>4 DEF Fulfil, OrderRow
    <3> HIDE DEF row
    <3>2. orders' = [orders EXCEPT ![o] = row]
      BY <1>7 DEF row
    <3> QED BY <1>3, <2>2, <3>1, <3>2
  <2>6. PaidOrders' = PaidOrders \cup {o} /\ o \notin PaidOrders /\ PaidTopUps' = PaidTopUps
        /\ Brought' = Brought
    BY <1>1, <1>3, <2>2, <2>5 DEF PaidOrders, PaidTopUps, Brought
  <2>7. used' \in Nat
    BY <1>0, <1>7, TopUpAssumption DEF TypeOK, BumpUsage
  <2>8. Price[o] \in Nat /\ balance \in Int /\ balance' \in Int
    <3>1. Price[o] \in Nat
      BY <1>3, TopUpAssumption
    <3>2. balance \in Int
      BY <1>0 DEF TypeOK
    <3> QED BY <1>7, <3>1, <3>2
  <2>9. TypeOK'
    <3>1. posted' \subseteq ({"topup", "bonus"} \X TopUps) \cup ({"order"} \X Orders)
      BY <1>0, <1>3, <1>7 DEF TypeOK
    <3>2. drawn' \subseteq TopUps
      BY <1>0, <1>7 DEF TypeOK, Draw
    <3> QED BY <1>0, <1>1, <1>7, <2>1, <2>5, <2>7, <2>8, <3>1, <3>2 DEF TypeOK
  <2>10. StageInv'
    BY <1>0, <1>1, <2>2, <2>5, LinesAreOrders DEF StageInv
  <2>11. StatusMatchesLedger'
    <3>1. /\ \A u \in TopUps : <<"topup", u>> \in posted' <=> <<"topup", u>> \in posted
          /\ \A u \in TopUps : <<"bonus", u>> \in posted' <=> <<"bonus", u>> \in posted
          /\ \A x \in Orders : <<"order", x>> \in posted' <=> x = o \/ <<"order", x>> \in posted
      BY <1>7
    <3> QED BY <1>0, <1>1, <1>3, <2>5, <3>1 DEF StatusMatchesLedger
  <2>12. FulfilledExactlyOnce'
    BY <1>0, <1>3, <2>5, <2>6 DEF FulfilledExactlyOnce
  <2>13. CreditOnlyWhenCollected'
    BY <1>0, <1>1, <2>6 DEF CreditOnlyWhenCollected
  <2>14. BooksBalance'
    <3>1. SumOf(Price, PaidOrders \cup {o}) = SumOf(Price, PaidOrders) + Price[o]
      <4>1. IsFiniteSet(PaidOrders) /\ \A x \in PaidOrders \cup {o} : Price[x] \in Int
        BY <1>0, <1>3, SumTypes DEF PaidOrders
      <4> QED BY <2>6, <4>1, SumOfAdd
    <3>2. others * OtherPrice \in Int
      BY <1>0, TopUpAssumption DEF TypeOK
    <3> QED BY <1>0, <1>1, <1>7, <2>6, <2>8, <3>1, <3>2, SumTypes, TopUpAssumption
            DEF BooksBalance
  <2> QED BY <2>1, <2>9, <2>10, <2>11, <2>12, <2>13, <2>14 DEF IInv
<1> QED BY <1>5, <1>6, <1>7 DEF complete_pending_order

-----------------------------------------------------------------------------
\* IInv holds throughout: no interleaving of checkouts, settlements, polling,
\* other purchases, duplicated or overlapping deliveries and failures breaks it.
THEOREM Invariance == Spec => []IInv
<1>1. Init => IInv
  BY InitIInv
<1>2. IInv /\ [Next]_vars => IInv'
  <2> SUFFICES ASSUME IInv, [Next]_vars PROVE IInv'
    OBVIOUS
  <2>1. CASE Next
    BY <2>1, EventsAssumption, CheckoutSteps, SettleStep, PollStep, OtherStep, DeliverStep, GateStep, RouteStep,
       ApplyStep, OrderStep, CartStep, EndSteps DEF Next, Handle
  <2>2. CASE UNCHANGED vars
    <3>1. UNCHANGED <<topup, linked, cart, orders, balance, posted, used, gate, processed, acked,
                      worker, stage, amount, others, gateway, failures, drawn>>
      BY <2>2 DEF vars, rows, hook
    <3> QED BY <3>1 DEF IInv, TypeOK, StageInv, HookInv, StatusMatchesLedger,
            FulfilledExactlyOnce, CreditOnlyWhenCollected, BooksBalance, Brought, PaidTopUps, PaidOrders
  <2> QED BY <2>1, <2>2
<1> QED BY <1>1, <1>2, PTL DEF Spec

\* TypeOK is an invariant.
THEOREM TypeCorrect == Spec => []TypeOK
<1>1. IInv => TypeOK
  BY DEF IInv
<1> QED BY <1>1, Invariance, PTL

\* The wallet always holds what the credited top-ups brought less what the
\* paid orders and the other purchases took, whatever deliveries are repeated,
\* overlap or die half-way.
THEOREM BooksStayBalanced == Spec => []BooksBalance
<1>1. IInv => BooksBalance
  BY DEF IInv
<1> QED BY <1>1, Invariance, PTL

\* PAID and the ledger always agree, for top-ups, their bonuses and orders.
THEOREM StatusIsTheLedger == Spec => []StatusMatchesLedger
<1>1. IInv => StatusMatchesLedger
  BY DEF IInv
<1> QED BY <1>1, Invariance, PTL

\* A credited top-up was collected by the gateway and reported with the
\* requested amount.
THEOREM OnlyCollectedIsCredited == Spec => []CreditOnlyWhenCollected
<1>1. IInv => CreditOnlyWhenCollected
  BY DEF IInv
<1> QED BY <1>1, Invariance, PTL

\* complete_pending_order fulfils an order once, however often its top-up is
\* reported.
THEOREM FulfilledOnce == Spec => []FulfilledExactlyOnce
<1>1. IInv => FulfilledExactlyOnce
  BY DEF IInv
<1> QED BY <1>1, Invariance, PTL
=============================================================================
