------------------------------- MODULE Refund -------------------------------
(***************************************************************************)
(* What happens to an order and its seller's earning after it was paid:    *)
(* the customer's refund_request view, the console's refund_approve and    *)
(* refund_reject, the seller's payout_request and the admin's bulk actions *)
(* on payouts.  One customer, one seller.                                  *)
(*                                                                         *)
(* The two console views run in a transaction that holds the request's row *)
(* lock from its first statement, so each is one step; the two request     *)
(* views look first and insert in a later statement, without a lock.       *)
(***************************************************************************)
EXTENDS Integers, Sequences, FiniteSets, FiniteSetsExt

CONSTANTS
  Orders, Amount,  \* the customer's orders, and Order.amount
  Rate,            \* SellerProfile.commission_rate, in percent
  Tabs,            \* concurrent requests of customer and seller
  Asked,           \* amounts a payout form may carry
  NoTab,           \* the order field of an idle tab
  MaxRequests, MaxPayouts  \* bounds on RefundRequest and SellerPayout rows

ASSUME RefundAssumption ==
  /\ IsFiniteSet(Orders) /\ IsFiniteSet(Tabs) /\ NoTab \notin Orders
  /\ Amount \in [Orders -> Nat] /\ Rate \in 0 .. 100
  /\ Asked \subseteq Nat \ {0} /\ MaxRequests \in Nat /\ MaxPayouts \in Nat

VARIABLES
  order,     \* order[o]: Order.status
  earning,   \* earning[o]: SellerEarning.status, "none" without a row
  requests,  \* RefundRequest rows, the pk being the index
  credits,   \* credits[o]: refund credits in the customer's ledger for o
  refs,      \* pks in the refs "refund:<pk>" of those entries
  payouts,   \* SellerPayout rows
  tab        \* tab[t]: program point and what the view has looked at

money == <<credits, refs>>
vars == <<order, earning, requests, money, payouts, tab>>

Idle == [pc |-> "idle", order |-> NoTab, amount |-> 0]

Request(o) == [order |-> o, status |-> "pending"]

Init ==
  /\ order = [o \in Orders |-> "pending"] /\ earning = [o \in Orders |-> "none"]
  /\ requests = <<>> /\ payouts = <<>>
  /\ credits = [o \in Orders |-> 0] /\ refs = {}
  /\ tab = [t \in Tabs |-> Idle]

-----------------------------------------------------------------------------
\* The platform's fee is rounded down.
Net(o) == Amount[o] - (Amount[o] * Rate) \div 100

\* An order is paid and its earning recorded, in one transaction; a static
\* QRIS payment earns nothing here, it went to the seller directly.
Pay(o) ==
  /\ order[o] = "pending"
  /\ order' = [order EXCEPT ![o] = "paid"]
  /\ \E kept \in {"none", "pending"} : earning' = [earning EXCEPT ![o] = kept]
  /\ UNCHANGED <<requests, money, payouts, tab>>

-----------------------------------------------------------------------------
(* Refunds *)

\* Mutant: an earlier request is not looked for.
UnknownUnchecked(o) == TRUE

\* No request for the order exists, whatever became of it.
Unknown(o) == \A r \in DOMAIN requests : requests[r].order # o

\* The customer submits the form: the order is PAID and has no request.
SubmitRequest(t, o) ==
  /\ tab[t].pc = "idle" /\ order[o] = "paid" /\ Unknown(o)
  /\ tab' = [tab EXCEPT ![t] = [pc |-> "refund", order |-> o, amount |-> 0]]
  /\ UNCHANGED <<order, earning, requests, money, payouts>>

CreateRequest(t) ==
  /\ tab[t].pc = "refund" /\ Len(requests) < MaxRequests
  /\ requests' = Append(requests, Request(tab[t].order))
  /\ tab' = [tab EXCEPT ![t] = Idle]
  /\ UNCHANGED <<order, earning, money, payouts>>

\* Mutant: decided on the page's status, not on the row's.
StillPendingUnchecked(r) == TRUE

\* The status re-checked under the row's lock.
StillPending(r) == requests[r].status = "pending"

\* Mutant: the order is not marked.
ApproveUnmarked(r) ==
  /\ StillPending(r) /\ Amount[requests[r].order] > 0
  /\ refs' = refs \cup {r}
  /\ credits' = [credits EXCEPT ![requests[r].order] = @ + 1]
  /\ requests' = [requests EXCEPT ![r].status = "approved"]
  /\ UNCHANGED <<order, earning, payouts, tab>>

\* credit() replays a ref it knows; the order becomes REFUNDED whatever it
\* was; its earning stays as it is.
refund_approve(r) ==
  LET o == requests[r].order IN
  /\ StillPending(r) /\ Amount[o] > 0
  /\ refs' = refs \cup {r}
  /\ credits' = IF r \in refs THEN credits ELSE [credits EXCEPT ![o] = @ + 1]
  /\ order' = [order EXCEPT ![o] = "refunded"]
  /\ requests' = [requests EXCEPT ![r].status = "approved"]
  /\ UNCHANGED <<earning, payouts, tab>>

refund_reject(r) ==
  /\ StillPending(r)
  /\ requests' = [requests EXCEPT ![r].status = "rejected"]
  /\ UNCHANGED <<order, earning, money, payouts, tab>>

-----------------------------------------------------------------------------
(* Earnings and payouts *)

Earned(S) == MapThenSumSet(Net, S)

\* The sum of the PENDING earnings; requested payouts are not deducted.
Available == Earned({o \in Orders : earning[o] = "pending"})

payout_request(t, amount) ==
  /\ tab[t].pc = "idle" /\ amount <= Available
  /\ tab' = [tab EXCEPT ![t] = [pc |-> "payout", order |-> NoTab, amount |-> amount]]
  /\ UNCHANGED <<order, earning, requests, money, payouts>>

CreatePayout(t) ==
  /\ tab[t].pc = "payout" /\ Len(payouts) < MaxPayouts
  /\ payouts' = Append(payouts, [amount |-> tab[t].amount, status |-> "pending"])
  /\ tab' = [tab EXCEPT ![t] = Idle]
  /\ UNCHANGED <<order, earning, requests, money>>

\* Statuses the bulk action that leads to a status applies to.
From(to) == CASE to = "approved" -> {"pending"}
              [] to = "completed" -> {"approved"}
              [] to = "rejected" -> {"pending", "approved"}

\* approve_payouts, complete_payouts, reject_payouts: one conditional UPDATE
\* of the selected rows.
MarkPayouts(S, to) ==
  /\ \E p \in S : payouts[p].status \in From(to)
  /\ payouts' = [p \in DOMAIN payouts |->
       IF p \in S /\ payouts[p].status \in From(to)
       THEN [amount |-> payouts[p].amount, status |-> to] ELSE payouts[p]]
  /\ UNCHANGED <<order, earning, requests, money, tab>>

\* SellerEarningAdmin's form, of which only the status can be edited.
EditEarning(o, status) ==
  /\ earning[o] # "none" /\ earning[o] # status
  /\ earning' = [earning EXCEPT ![o] = status]
  /\ UNCHANGED <<order, requests, money, payouts, tab>>

\* The process dies before the insert.
Crash(t) ==
  /\ tab[t].pc # "idle"
  /\ tab' = [tab EXCEPT ![t] = Idle]
  /\ UNCHANGED <<order, earning, requests, money, payouts>>

-----------------------------------------------------------------------------
Next ==
  \/ \E o \in Orders : Pay(o) \/ \E t \in Tabs : SubmitRequest(t, o)
  \/ \E t \in Tabs : CreateRequest(t) \/ CreatePayout(t) \/ Crash(t)
  \/ \E r \in DOMAIN requests : refund_approve(r) \/ refund_reject(r)
  \/ \E t \in Tabs, a \in Asked : payout_request(t, a)
  \/ \E S \in SUBSET DOMAIN payouts, to \in {"approved", "completed", "rejected"} :
       MarkPayouts(S, to)
  \/ \E o \in Orders, s \in {"pending", "paid_out", "voided"} : EditEarning(o, s)

Spec == Init /\ [][Next]_vars

-----------------------------------------------------------------------------
(* Properties *)

RequestsFor(o) == {r \in DOMAIN requests : requests[r].order = o}
Approved(o) == {r \in RequestsFor(o) : requests[r].status = "approved"}

RequestRow == [order : Orders, status : {"pending", "approved", "rejected"}]
PayoutRow == [amount : Nat, status : {"pending", "approved", "completed", "rejected"}]
TabRow == [pc : {"idle", "refund", "payout"}, order : Orders \cup {NoTab}, amount : Nat]

TypeOK ==
  /\ order \in [Orders -> {"pending", "paid", "refunded"}]
  /\ earning \in [Orders -> {"none", "pending", "paid_out", "voided"}]
  /\ requests \in Seq(RequestRow)
  /\ credits \in [Orders -> Nat] /\ refs \subseteq DOMAIN requests
  /\ payouts \in Seq(PayoutRow)
  /\ tab \in [Tabs -> TabRow]

\* The customer's wallet was credited for an order once per APPROVED request
\* for it and for no other, and the order is REFUNDED exactly when it was:
\* approvals and rejections submitted twice, at once or after each other
\* neither pay twice nor leave a paid request REJECTED (console/views.py H3, M3).
CreditedIffApproved ==
  \A o \in Orders :
    /\ credits[o] = Cardinality(Approved(o))
    /\ order[o] = "refunded" <=> credits[o] > 0

\* An order gets a second refund only from requests submitted while the first
\* submission was still being stored: however often the customer tries again,
\* there are never more requests for an order than submissions overlapped.
RequestsBoundedByOverlap ==
  \A o \in Orders :
    /\ Cardinality(RequestsFor(o)) <= Cardinality(Tabs)
    /\ credits[o] <= Cardinality(Tabs)

KeepsDecisions ==
  /\ \A r \in DOMAIN requests : requests[r].status # "pending" => requests'[r] = requests[r]
  /\ \A p \in DOMAIN payouts :
       /\ payouts[p].status \in {"completed", "rejected"} => payouts'[p] = payouts[p]
       /\ payouts'[p].status = "completed" => payouts[p].status \in {"approved", "completed"}

\* Decisions are final and a payout is completed only after its approval: a
\* later or repeated action of the console or the admin changes nothing.
DecisionsAreFinal == [][KeepsDecisions]_vars
=============================================================================
