-------------------------------- MODULE TopUp --------------------------------
(***************************************************************************)
(* Money that comes in through the gateway: checkout() and checkout_cart() *)
(* with a balance that is too small, the wallet's own top-up page,         *)
(* initiate_topup(), the Sumopod webhook view, process_webhook_payload(),  *)
(* _apply_topup_success() with the order completion it triggers, and the   *)
(* poll_pending_topups job.                                                *)
(*                                                                         *)
(* One customer's wallet.  Every database transaction is one step (credit  *)
(* and debit are atomic by module Wallet); between two transactions of a   *)
(* worker the other workers, the poller and other purchases may run, and   *)
(* the worker may die or raise.  The gateway redelivers an event under the *)
(* same svix-id until it is answered 2xx, may overlap deliveries and may   *)
(* repeat one that was answered.                                           *)
(***************************************************************************)
EXTENDS OrderRules, Sequences, SequencesExt

CONSTANTS
  TopUps,      \* TopUp rows that may come to exist
  Lines,       \* Lines[t]: the orders t pays for, in completion order; a plain
               \* top-up of the wallet has none
  Cart,        \* Cart[t]: t funds a CartCheckout, not a single order
  DirectPay,   \* single orders the gateway is to collect in full
  Asked, Bonus, \* what the buyer of a plain top-up asks for, and TopUp.bonus
  Orders, Price, Recurring, Discounted,  \* the orders' plans and coupon use
  UsageLimit,  \* of the one coupon the discounted orders share
  Outcomes,    \* Outcomes[t]: the ways an attempt to pay t may end
  Events,      \* webhook messages, see Ev
  Configured,  \* secrets in the environment, of {"svix", "token"}
  NoEvent, Workers,  \* web workers, and the event of one that has none
  StartBalance, OtherPrice,  \* the wallet, and another purchase it can pay
  MaxFailures, \* bound on crashes and exceptions while a worker runs
  MaxOther     \* bound on other purchases

\* An order is paid for by one TopUp; the columns are non-negative integers.
\* A single free order needs no TopUp, and only a plain one brings a bonus.
ASSUME TopUpAssumption ==
  /\ IsFiniteSet(TopUps) /\ IsFiniteSet(Orders)
  /\ Asked \in [TopUps -> Nat] /\ Bonus \in [TopUps -> Nat]
  /\ Price \in [Orders -> Nat] /\ StartBalance \in Nat /\ OtherPrice \in Nat
  /\ Lines \in [TopUps -> Seq(Orders)]
  /\ \A t, u \in TopUps : t # u => Range(Lines[t]) \cap Range(Lines[u]) = {}
  /\ Cart \in [TopUps -> BOOLEAN] /\ DirectPay \subseteq TopUps
  /\ \A t \in TopUps :
       /\ Lines[t] # <<>> => Bonus[t] = 0
       /\ Lines[t] = <<>> => ~Cart[t]
       /\ ~Cart[t] => \A o \in Range(Lines[t]) : Price[o] > 0
  /\ UsageLimit \in Nat /\ MaxFailures \in Nat /\ MaxOther \in Nat

\* The payloads the view accepts, and what is in the environment.
ASSUME EventsAssumption ==
  /\ Outcomes \in [TopUps -> SUBSET {"completed", "failed", "expired"}]
  /\ \A e \in Events :
       /\ e.topup \in TopUps
       /\ e.type \in {"completed", "failed", "expired", "test", "other"}
       /\ e.exact \in BOOLEAN /\ e.svix \in BOOLEAN /\ e.token \in BOOLEAN
  /\ NoEvent \notin Events
  /\ Configured \subseteq {"svix", "token"}

VARIABLES
  stage,     \* stage[t]: how far the checkout that initiates t has come
  topup,     \* topup[t]: TopUp.status, "absent" before the row exists
  amount,    \* amount[t]: TopUp.amount, from when the checkout works it out
  linked,    \* linked[t]: TopUp.checkout_order / cart_checkout is set
  cart,      \* cart[t]: CartCheckout.status
  orders,    \* orders[o]: the Order row
  balance,   \* Wallet.balance
  posted,    \* LedgerEntry refs
  used,      \* Coupon.used_count
  others,    \* other purchases made
  gateway,   \* gateway[t]: what Sumopod has to report of the payment
  gate,      \* PaymentWebhook rows (by event)
  processed, \* those with processed_at set
  acked,     \* events answered 2xx
  worker,    \* worker[w]: program point, event and orders left to complete
  failures,
  drawn      \* auxiliary: checkouts whose wallet paid for something else since

rows == <<topup, linked, cart, orders, balance, posted, used>>
hook == <<gate, processed, acked, worker>>
vars == <<rows, hook, stage, amount, others, gateway, failures, drawn>>

Idle == [pc |-> "idle", event |-> NoEvent, todo |-> <<>>]

\* Events carry the event_type, the order_id, whether amount or net_amount equals
\* the amount requested, an id, and whether a svix-id with a fresh, valid signature
\* and a valid token come with them.
Ev(w) == worker[w].event

-----------------------------------------------------------------------------
Init ==
  /\ stage = [t \in TopUps |-> "none"]
  /\ topup = [t \in TopUps |-> "absent"]
  /\ amount = [t \in TopUps |-> 0]
  /\ linked = [t \in TopUps |-> FALSE]
  /\ cart = [t \in TopUps |-> "absent"]
  /\ orders = [o \in Orders |-> NoOrder]
  /\ balance = StartBalance
  /\ posted = {} /\ used = 0 /\ others = 0
  /\ gateway = [t \in TopUps |-> {}]
  /\ gate = {} /\ processed = {} /\ acked = {}
  /\ worker = [w \in Workers |-> Idle]
  /\ failures = 0 /\ drawn = {}

-----------------------------------------------------------------------------
(* Checkout with a shortfall *)

Pending(os, t) == [o \in Orders |-> IF o \in Range(Lines[t])
                                    THEN [os[o] EXCEPT !.status = "pending"]
                                    ELSE os[o]]

Plain(t) == Lines[t] = <<>>
Total(t) == SumOf(Price, Range(Lines[t]))

\* What the buyer is sent to the gateway for: the price, or what the balance,
\* read without a lock, leaves of it.
Shortfall(t) == Total(t) - (IF t \in DirectPay THEN 0 ELSE balance)

\* checkout(): the order is committed on its own.
CreateOrder(t) ==
  /\ ~Cart[t] /\ ~Plain(t) /\ stage[t] = "none"
  /\ t \in DirectPay \/ balance < Total(t)
  /\ amount' = [amount EXCEPT ![t] = Shortfall(t)]
  /\ orders' = Pending(orders, t)
  /\ stage' = [stage EXCEPT ![t] = "ordered"]
  /\ UNCHANGED <<topup, linked, cart, balance, posted, used, hook, others, gateway, failures, drawn>>

\* initiate_topup(), from checkout() or from the wallet's page: the TopUp row.
CreateTopUp(t) ==
  /\ \/ stage[t] = "ordered" /\ UNCHANGED amount
     \/ Plain(t) /\ stage[t] = "none" /\ amount' = [amount EXCEPT ![t] = Asked[t]]
  /\ topup' = [topup EXCEPT ![t] = "pending"]
  /\ stage' = [stage EXCEPT ![t] = "created"]
  /\ UNCHANGED <<linked, cart, orders, balance, posted, used, hook, others, gateway, failures, drawn>>

\* The client's request.  The gateway may have made the payment though the call
\* raises, after 15 seconds or on an answer without a link.
create_payment(t) == gateway' = [gateway EXCEPT ![t] = {"open"}]

CreatePayment(t) ==
  /\ stage[t] = "created"
  /\ create_payment(t)
  /\ stage' = [stage EXCEPT ![t] = "requested"]
  /\ UNCHANGED <<rows, hook, amount, others, failures, drawn>>

\* topup.checkout_order = order, where there is one; the buyer is sent to the
\* payment page.
LinkOrder(t) ==
  /\ stage[t] = "requested"
  /\ linked' = [linked EXCEPT ![t] = ~Plain(t)]
  /\ stage' = [stage EXCEPT ![t] = "redirected"]
  /\ UNCHANGED <<topup, cart, orders, balance, posted, used, hook, amount, others, gateway, failures, drawn>>

\* SumopodError or a crash on the way: what was committed stays.
AbandonCheckout(t) ==
  /\ stage[t] \in {"ordered", "created", "requested"}
  /\ failures < MaxFailures
  /\ failures' = failures + 1
  /\ stage' = [stage EXCEPT ![t] = "abandoned"]
  /\ UNCHANGED <<rows, hook, amount, others, gateway, drawn>>

\* checkout_cart(): checkout, orders, TopUp and gateway call in one
\* transaction; when the call fails nothing is left.
CheckoutCart(t) ==
  /\ Cart[t] /\ stage[t] = "none"
  /\ balance < Total(t)
  /\ amount' = [amount EXCEPT ![t] = Shortfall(t)]
  /\ orders' = Pending(orders, t)
  /\ cart' = [cart EXCEPT ![t] = "pending"]
  /\ topup' = [topup EXCEPT ![t] = "pending"]
  /\ linked' = [linked EXCEPT ![t] = TRUE]
  /\ create_payment(t)
  /\ stage' = [stage EXCEPT ![t] = "redirected"]
  /\ UNCHANGED <<balance, posted, used, hook, others, failures, drawn>>

\* The call or the commit fails once the payment is made: it exists, the row not.
CheckoutCartRolledBack(t) ==
  /\ Cart[t] /\ stage[t] = "none"
  /\ balance < Total(t)
  /\ failures < MaxFailures
  /\ failures' = failures + 1
  /\ create_payment(t)
  /\ stage' = [stage EXCEPT ![t] = "abandoned"]
  /\ UNCHANGED <<rows, hook, amount, others, drawn>>

-----------------------------------------------------------------------------
(* The gateway and the rest of the shop *)

\* The buyer pays on the page it was redirected to, or an attempt fails or
\* expires; a failed or expired payment may still be collected.  What there is
\* to report is delivered in any order.
Settle(t, outcome) ==
  /\ gateway[t] # {} /\ {"completed", outcome} \cap gateway[t] = {}
  /\ outcome = "completed" => stage[t] = "redirected"
  /\ gateway' = [gateway EXCEPT ![t] = @ \cup {outcome}]
  /\ UNCHANGED <<rows, hook, stage, amount, others, failures, drawn>>

\* The wallet paid for something that the checkouts under way, but for those in
\* spared, had not counted.
Draw(spared) ==
  drawn' = drawn \cup {t \in TopUps \ spared : ~Plain(t) /\ stage[t] # "none"}

\* Another purchase, or the renewal of a lapsed subscription, debits the same
\* wallet.
OtherPurchase ==
  /\ others < MaxOther
  /\ balance >= OtherPrice
  /\ balance' = balance - OtherPrice
  /\ others' = others + 1
  /\ Draw({})
  /\ UNCHANGED <<topup, linked, cart, orders, posted, used, hook, stage, amount, gateway, failures>>

\* poll_pending_topups / recheck_topup_status: an UPDATE conditional on
\* PENDING, once the row is older than TOPUP_EXPIRY_MINUTES.
recheck_topup_status(t) ==
  /\ topup[t] = "pending"
  /\ topup' = [topup EXCEPT ![t] = "expired"]
  /\ UNCHANGED <<linked, cart, orders, balance, posted, used, hook, stage, amount, others, gateway, failures, drawn>>

-----------------------------------------------------------------------------
(* The webhook *)

Goto(w, point) == worker' = [worker EXCEPT ![w].pc = point]

\* The view answers; only a 2xx stops the redeliveries.
Respond(w, ok) ==
  /\ worker' = [worker EXCEPT ![w] = Idle]
  /\ acked' = IF ok THEN acked \cup {Ev(w)} ELSE acked

verify_svix_signature(e) == e.svix
verify_webhook_token(e) == e.token

\* Both mechanisms are enforced when configured, and one must be.
verify_webhook(e) ==
  /\ Configured # {}
  /\ "svix" \in Configured => verify_svix_signature(e)
  /\ "token" \in Configured => verify_webhook_token(e)

\* The gateway sends what it has to report, late and repeatedly too; a message
\* with neither signature nor token may come from anyone, at any time.
Sent(e) ==
  \/ ~e.svix /\ ~e.token
  \/ (IF e.type \in {"test", "other"} THEN "open" ELSE e.type) \in gateway[e.topup]

\* The view: a delivery that does not verify is answered 401 and changes nothing.
Deliver(w, e) ==
  /\ worker[w] = Idle
  /\ Sent(e) /\ verify_webhook(e)
  /\ worker' = [worker EXCEPT ![w] = [pc |-> "gate", event |-> e, todo |-> <<>>]]
  /\ UNCHANGED <<rows, gate, processed, acked, stage, amount, others, gateway, failures, drawn>>

\* sumopod:<svix-id>, or sumopod:<payment_id>:<event_type> where none is sent.
idempotency_key(e) == IF e.svix THEN <<e.id>> ELSE <<e.topup, e.type>>

Known(e) == \E row \in gate : idempotency_key(row) = idempotency_key(e)

\* Mutant: processed_at is set when the row is created.
GateProcessed(w) ==
  /\ worker[w].pc = "gate"
  /\ IF Known(Ev(w)) THEN Respond(w, TRUE) ELSE Goto(w, "route") /\ UNCHANGED acked
  /\ gate' = gate \cup {Ev(w)} /\ processed' = processed \cup {Ev(w)}
  /\ UNCHANGED <<rows, stage, amount, others, gateway, failures, drawn>>

\* PaymentWebhook.objects.create() commits before the event is processed; a
\* second delivery with the same key ends here with 200.
Gate(w) ==
  /\ worker[w].pc = "gate"
  /\ \/ /\ Known(Ev(w))
        /\ Respond(w, TRUE)
        /\ UNCHANGED gate
     \/ /\ ~Known(Ev(w))
        /\ gate' = gate \cup {Ev(w)}
        /\ Goto(w, "route")
        /\ UNCHANGED acked
  /\ UNCHANGED <<rows, processed, stage, amount, others, gateway, failures, drawn>>

\* Mutant: no cross-check of the amount.
AnyAmount(e) == TRUE

\* M1: topup.amount in (amount, net_amount)
AmountMatches(e) == e.exact

\* Mutant: the UPDATE is not conditional on PENDING.
MarkedAlways(status, outcome) == outcome

\* A failure or expiry event closes a PENDING top-up and no other.
Marked(status, outcome) == IF status = "pending" THEN outcome ELSE status

\* Test events and failures are settled here, an unknown event type is only
\* recorded, an unknown TopUp is a 500, a wrong amount is answered but left
\* unprocessed.
Route(w) ==
  LET e == Ev(w)  t == e.topup IN
  /\ worker[w].pc = "route"
  /\ \/ /\ e.type = "test"
        /\ Goto(w, "finish")
        /\ UNCHANGED <<topup, acked>>
     \/ /\ e.type = "other"
        /\ Respond(w, TRUE)
        /\ UNCHANGED topup
     \/ /\ e.type \in {"completed", "failed", "expired"} /\ topup[t] = "absent"
        /\ Respond(w, FALSE)
        /\ UNCHANGED topup
     \/ /\ e.type \in {"failed", "expired"} /\ topup[t] # "absent"
        /\ topup' = [topup EXCEPT ![t] = Marked(@, e.type)]
        /\ Goto(w, "finish")
        /\ UNCHANGED acked
     \/ /\ e.type = "completed" /\ topup[t] # "absent" /\ ~AmountMatches(e)
        /\ Respond(w, TRUE)
        /\ UNCHANGED topup
     \/ /\ e.type = "completed" /\ topup[t] # "absent" /\ AmountMatches(e)
        /\ Goto(w, "apply")
        /\ UNCHANGED <<topup, acked>>
  /\ UNCHANGED <<linked, cart, orders, balance, posted, used, gate, processed,
                 stage, amount, others, gateway, failures, drawn>>

\* Mutant: the bonus is not credited.
CreditedNoBonus(ref, sum) == IF ref \in posted \/ ref[1] = "bonus" THEN 0 ELSE sum

\* The credit of one ref: a ref already on the ledger changes nothing.
Credited(ref, sum) == IF ref \in posted THEN 0 ELSE sum

\* Any status but PAID is credited.
Creditable(t) == topup[t] # "paid"

\* Mutant: only the first order is completed.
FundedFirst(t) == IF linked[t] THEN <<Head(Lines[t])>> ELSE <<>>

\* The orders to complete: checkout_order, or those of cart_checkout.
Funded(t) == IF linked[t] THEN Lines[t] ELSE <<>>

\* _apply_topup_success, first transaction: under the row lock amount and
\* bonus are credited together; the link is read here.
apply_topup_success(w) ==
  LET t == Ev(w).topup
      refs == {<<"topup", t>>} \cup (IF Bonus[t] > 0 THEN {<<"bonus", t>>} ELSE {})
  IN
  /\ worker[w].pc = "apply"
  /\ IF ~Creditable(t)
       THEN Goto(w, "finish") /\ UNCHANGED <<topup, balance, posted>>
       ELSE /\ balance' = balance + Credited(<<"topup", t>>, amount[t])
                                  + Credited(<<"bonus", t>>, Bonus[t])
            /\ posted' = posted \cup refs
            /\ topup' = [topup EXCEPT ![t] = "paid"]
            /\ worker' = [worker EXCEPT ![w].pc = IF linked[t] THEN "orders" ELSE "finish",
                                        ![w].todo = Funded(t)]
  /\ UNCHANGED <<linked, cart, orders, used, gate, processed, acked,
                 stage, amount, others, gateway, failures, drawn>>

\* locked.status == PENDING, under the order's row lock.
StillPending(o) == orders[o].status = "pending"

\* complete_pending_order, one transaction per order: nothing for an order
\* that is not PENDING or that the balance no longer covers; debit() refuses
\* an amount of zero with a ValueError, which ends the whole delivery.
complete_pending_order(w) ==
  LET o == Head(worker[w].todo) IN
  /\ worker[w].pc = "orders" /\ worker[w].todo # <<>>
  /\ \/ /\ ~StillPending(o) \/ (Price[o] > 0 /\ balance < Price[o])
        /\ worker' = [worker EXCEPT ![w].todo = Tail(@)]
        /\ UNCHANGED <<orders, balance, posted, used, acked, drawn>>
     \/ /\ StillPending(o) /\ Price[o] = 0
        /\ Respond(w, FALSE)
        /\ UNCHANGED <<orders, balance, posted, used, drawn>>
     \/ /\ StillPending(o) /\ Price[o] > 0 /\ balance >= Price[o]
        /\ balance' = balance - Price[o]
        /\ posted' = posted \cup {<<"order", o>>}
        /\ used' = IF o \in Discounted THEN BumpUsage(used, UsageLimit) ELSE used
        /\ orders' = [orders EXCEPT ![o] =
             Fulfil(@, assign_invoice_number(orders), o \in Recurring, TRUE)]
        /\ Draw({Ev(w).topup})
        /\ worker' = [worker EXCEPT ![w].todo = Tail(@)]
        /\ UNCHANGED acked
  /\ UNCHANGED <<topup, linked, cart, gate, processed, stage, amount, others, gateway, failures>>

\* The end of complete_cart_checkout: COMPLETED whatever became of the lines.
complete_cart_checkout(w) ==
  LET t == Ev(w).topup IN
  /\ worker[w].pc = "orders" /\ worker[w].todo = <<>>
  /\ cart' = [cart EXCEPT ![t] = IF Cart[t] THEN "completed" ELSE @]
  /\ Goto(w, "finish")
  /\ UNCHANGED <<topup, linked, orders, balance, posted, used, gate, processed,
                 acked, stage, amount, others, gateway, failures, drawn>>

\* processed_at is set and the view answers 200.
Finish(w) ==
  /\ worker[w].pc = "finish"
  /\ processed' = processed \cup {Ev(w)}
  /\ Respond(w, TRUE)
  /\ UNCHANGED <<rows, gate, stage, amount, others, gateway, failures, drawn>>

\* The process dies, or a query or provisioner raises: the transaction under
\* way is rolled back and the gateway gets no 2xx.
Fail(w) ==
  /\ worker[w] # Idle
  /\ failures < MaxFailures
  /\ failures' = failures + 1
  /\ Respond(w, FALSE)
  /\ UNCHANGED <<rows, gate, processed, stage, amount, others, gateway, drawn>>

-----------------------------------------------------------------------------
Handle(w) == \/ Gate(w) \/ Route(w) \/ apply_topup_success(w)
             \/ complete_pending_order(w) \/ complete_cart_checkout(w) \/ Finish(w)

Checkout(t) == \/ CreateOrder(t) \/ CreateTopUp(t) \/ CreatePayment(t) \/ LinkOrder(t)
               \/ AbandonCheckout(t) \/ CheckoutCart(t) \/ CheckoutCartRolledBack(t)

Next == \/ \E t \in TopUps :
             \/ Checkout(t)
             \/ \E outcome \in Outcomes[t] : Settle(t, outcome)
             \/ recheck_topup_status(t)
        \/ OtherPurchase
        \/ \E w \in Workers : \/ \E e \in Events : Deliver(w, e)
                              \/ Handle(w)
                              \/ Fail(w)

\* A worker that took a delivery goes on with it; the gateway keeps delivering
\* an event that was not answered 2xx.
Fairness ==
  /\ \A w \in Workers : WF_vars(Handle(w))
  /\ \A e \in Events : SF_vars(e \notin acked /\ \E w \in Workers : Deliver(w, e))

Spec == Init /\ [][Next]_vars /\ Fairness

-----------------------------------------------------------------------------
WorkerState == [pc : {"idle", "gate", "route", "apply", "orders", "finish"},
                event : Events \cup {NoEvent}, todo : Seq(Orders)]

TypeOK ==
  /\ stage \in [TopUps -> {"none", "ordered", "created", "requested", "redirected", "abandoned"}]
  /\ topup \in [TopUps -> {"absent", "pending", "paid", "expired", "failed"}]
  /\ linked \in [TopUps -> BOOLEAN]
  /\ cart \in [TopUps -> {"absent", "pending", "completed"}]
  /\ orders \in [Orders -> OrderRow]
  /\ balance \in Int
  /\ posted \subseteq ({"topup", "bonus"} \X TopUps) \cup ({"order"} \X Orders)
  /\ used \in Nat /\ others \in Nat /\ failures \in Nat
  /\ amount \in [TopUps -> Int] /\ drawn \subseteq TopUps
  /\ gateway \in [TopUps -> SUBSET {"open", "completed", "failed", "expired"}]
  /\ processed \subseteq gate /\ gate \subseteq Events /\ acked \subseteq Events
  /\ worker \in [Workers -> WorkerState]

\* What a top-up brings into the wallet.
Brought == [t \in TopUps |-> amount[t] + Bonus[t]]
PaidTopUps == {t \in TopUps : topup[t] = "paid"}
PaidOrders == {o \in Orders : orders[o].status = "paid"}

\* The wallet holds exactly what the paid top-ups brought in less what the
\* paid orders and other purchases took, at every point of every delivery,
\* duplicated, overlapping or cut short.
BooksBalance ==
  balance = StartBalance + SumOf(Brought, PaidTopUps) - SumOf(Price, PaidOrders)
              - others * OtherPrice

\* PAID and the ledger agree: a top-up is PAID exactly when its credit is on
\* the ledger, its bonus is there exactly when its credit is, and an order is
\* PAID exactly when its debit is.  The ledger only grows, so a failure or expiry
\* event that arrives after the payment was collected, late or repeated, and a
\* polling round never undo a PAID status.
StatusMatchesLedger ==
  /\ \A t \in TopUps : /\ topup[t] = "paid" <=> <<"topup", t>> \in posted
                       /\ <<"bonus", t>> \in posted <=>
                            <<"topup", t>> \in posted /\ Bonus[t] > 0
  /\ \A o \in Orders : orders[o].status = "paid" <=> <<"order", o>> \in posted

\* Nothing is credited that the gateway did not collect in full: a PAID top-up
\* has a recorded payment.completed event with the requested amount.
CreditOnlyWhenCollected ==
  \A t \in PaidTopUps :
    /\ "completed" \in gateway[t]
    /\ \E e \in gate : e.topup = t /\ e.type = "completed" /\ e.exact

\* A PAID order was fulfilled exactly once and any other order not at all:
\* grants, subscription, earning and invoice number all follow the status.
FulfilledExactlyOnce ==
  \A o \in Orders :
    LET row == orders[o]  times == IF o \in PaidOrders THEN 1 ELSE 0 IN
    /\ row.grants = times /\ row.earnings = times
    /\ row.subs = IF o \in Recurring THEN times ELSE 0
    /\ row.invoice > 0 => o \in PaidOrders

\* Money the gateway collected is credited.  The exceptions are a report with
\* a wrong amount and one whose worker died or raised: their webhook rows stay
\* without processed_at for good, where System Health shows them, so that
\* nothing is silently dropped.
CollectedIsCreditedOrFlagged ==
  \A e \in Events :
    e.type = "completed" /\ "completed" \in gateway[e.topup] ~>
      \/ topup[e.topup] = "paid"
      \/ (failures > 0 \/ ~e.exact) /\ [](e \in gate \ processed)

\* Documented (the webhook view): a delivery that failed is retried, so every
\* collected payment of the right amount is credited.
CollectedIsCredited ==
  \A e \in Events :
    e.type = "completed" /\ e.exact /\ "completed" \in gateway[e.topup] ~>
      topup[e.topup] = "paid"

\* The lines of a checkout before its first free one, at which completion raises.
Completable(t) ==
  {Lines[t][i] : i \in {j \in DOMAIN Lines[t] : \A k \in 1..j : Price[Lines[t][k]] > 0}}

\* What complete_cart_checkout and complete_pending_order promise of the orders a
\* credited top-up funds, with the three ways it does not come about: the worker
\* fails on the way, a free line ends the completion before the lines after it,
\* or the wallet has paid for something else since the checkout counted on its
\* balance, such as another checkout that had counted on the same balance.
FundedOrdersArePaid ==
  \A t \in TopUps :
    topup[t] = "paid" /\ linked[t] ~>
      \/ failures > 0 \/ t \in drawn
      \/ \A o \in Completable(t) : orders[o].status = "paid"
=============================================================================
