---------------------------- MODULE RefundProofs ----------------------------
(***************************************************************************)
(* TLAPS proofs about Refund, for any orders, tabs, requests and payouts.  *)
(*                                                                         *)
(* The second part is about the shop the orders come from (Sales and       *)
(* Catalog).  A request executes its statements one by one, so the         *)
(* invariants speak of the statements that are still to come: AimInv of    *)
(* the rows they are about, RowsInv of the rows they will insert, StockInv *)
(* of the buyers past the stock check, VoucherInv of the count a pending   *)
(* edit will write, WizardInv of what lies between a request of the wizard *)
(* and the statement that records its next step.                           *)
(***************************************************************************)
EXTENDS Refund, Catalog, FiniteSetTheorems, SequenceTheorems, TLAPS

\* Tabs between the look for a request and the insert of one.
Submitting(o) == {t \in Tabs : tab[t].pc = "refund" /\ tab[t].order = o}

TabsInv == \A t \in Tabs : tab[t].pc = "refund" => tab[t].order \in Orders

\* A ledger entry's request is decided: no pending request is a replay.
RefsInv == \A r \in refs : requests[r].status = "approved"

\* Who is still submitting looked before the first request was stored.
OverlapInv ==
  \A o \in Orders : Cardinality(RequestsFor(o)) + Cardinality(Submitting(o)) <= Cardinality(Tabs)

IInv == TypeOK /\ TabsInv /\ RefsInv /\ CreditedIffApproved /\ OverlapInv

-----------------------------------------------------------------------------
(* Counting *)

\* Requests and tabs can be counted.
LEMMA Counts ==
  ASSUME TypeOK, NEW o
  PROVE  /\ IsFiniteSet(RequestsFor(o)) /\ Cardinality(RequestsFor(o)) \in Nat
         /\ IsFiniteSet(Approved(o)) /\ Cardinality(Approved(o)) \in Nat
         /\ Cardinality(Approved(o)) <= Cardinality(RequestsFor(o))
         /\ IsFiniteSet(Submitting(o)) /\ Cardinality(Submitting(o)) \in Nat
         /\ Cardinality(Submitting(o)) <= Cardinality(Tabs) /\ Cardinality(Tabs) \in Nat
<1>1. IsFiniteSet(DOMAIN requests)
  <2>1. DOMAIN requests = 1 .. Len(requests) /\ Len(requests) \in Int /\ 1 \in Int
    BY LenProperties DEF TypeOK
  <2> QED BY <2>1, FS_Interval
<1>2. IsFiniteSet(RequestsFor(o))
  BY <1>1, FS_Subset DEF RequestsFor
<1>3. IsFiniteSet(Approved(o)) /\ Cardinality(Approved(o)) <= Cardinality(RequestsFor(o))
  BY <1>2, FS_Subset DEF Approved
<1>4. IsFiniteSet(Submitting(o)) /\ Cardinality(Submitting(o)) <= Cardinality(Tabs)
  BY RefundAssumption, FS_Subset DEF Submitting
<1> QED BY <1>2, <1>3, <1>4, RefundAssumption, FS_CardinalityType

\* A step that neither stores nor decides a request, nor refunds an order,
\* keeps the invariant if only tabs that saw no request start to submit.
LEMMA QuietStep ==
  ASSUME IInv, UNCHANGED <<requests, money>>, TypeOK', TabsInv',
         \A o \in Orders : order'[o] = "refunded" <=> order[o] = "refunded",
         \A o \in Orders : Submitting(o)' \subseteq Submitting(o) \/ RequestsFor(o) = {}
  PROVE  IInv'
<1>1. UNCHANGED <<requests, credits, refs>> /\ TypeOK
  BY DEF money, IInv
<1>2. \A o : RequestsFor(o)' = RequestsFor(o) /\ Approved(o)' = Approved(o)
  BY <1>1 DEF RequestsFor, Approved
<1>3. RefsInv' /\ CreditedIffApproved'
  BY <1>1, <1>2 DEF IInv, RefsInv, CreditedIffApproved
<1>4. OverlapInv'
  <2> SUFFICES ASSUME NEW o \in Orders
               PROVE  Cardinality(RequestsFor(o)) + Cardinality(Submitting(o)') <= Cardinality(Tabs)
    BY <1>2 DEF OverlapInv
  <2>1. /\ Cardinality(RequestsFor(o)) \in Nat /\ IsFiniteSet(Submitting(o))
        /\ Cardinality(Submitting(o)) \in Nat /\ Cardinality(Tabs) \in Nat
    BY <1>1, Counts
  <2>2. Submitting(o)' \subseteq Tabs
    BY DEF Submitting
  <2>3. /\ IsFiniteSet(Submitting(o)') /\ Cardinality(Submitting(o)') \in Nat
        /\ Cardinality(Submitting(o)') <= Cardinality(Tabs)
    BY <2>2, RefundAssumption, FS_Subset, FS_CardinalityType
  <2>4. CASE RequestsFor(o) = {}
    <3>1. Cardinality(RequestsFor(o)) = 0
      BY <2>4, FS_EmptySet
    <3> QED BY <2>1, <2>3, <3>1
  <2>5. CASE Submitting(o)' \subseteq Submitting(o)
    <3>1. Cardinality(Submitting(o)') <= Cardinality(Submitting(o))
      BY <2>1, <2>5, FS_Subset
    <3>2. Cardinality(RequestsFor(o)) + Cardinality(Submitting(o)) <= Cardinality(Tabs)
      BY DEF IInv, OverlapInv
    <3> QED BY <2>1, <2>3, <3>1, <3>2
  <2> QED BY <2>4, <2>5
<1> QED BY <1>3, <1>4 DEF IInv

-----------------------------------------------------------------------------
(* The steps *)

\* An order is paid, or its earning edited.
LEMMA OrderSteps ==
  ASSUME IInv, NEW o \in Orders,
         Pay(o) \/ \E s \in {"pending", "paid_out", "voided"} : EditEarning(o, s)
  PROVE  IInv'
<1>0. TypeOK /\ TabsInv
  BY DEF IInv
<1>1. UNCHANGED <<requests, money, payouts, tab>>
  BY DEF Pay, EditEarning
<1>2. /\ order' \in [Orders -> {"pending", "paid", "refunded"}]
      /\ earning' \in [Orders -> {"none", "pending", "paid_out", "voided"}]
      /\ \A x \in Orders : order'[x] = "refunded" <=> order[x] = "refunded"
  BY <1>0 DEF TypeOK, Pay, EditEarning
<1>3. TypeOK' /\ TabsInv'
  BY <1>0, <1>1, <1>2 DEF TypeOK, TabsInv, money
<1>4. \A x \in Orders : Submitting(x)' = Submitting(x)
  BY <1>1 DEF Submitting
<1> QED BY <1>1, <1>2, <1>3, <1>4, QuietStep

\* A tab that looks, or that leaves without having stored a request.
LEMMA TabStep ==
  ASSUME IInv, NEW t \in Tabs, NEW new \in TabRow, tab' = [tab EXCEPT ![t] = new],
         new.pc = "refund" => new.order \in Orders /\ RequestsFor(new.order) = {},
         UNCHANGED <<order, earning, requests, money>>, payouts' \in Seq(PayoutRow)
  PROVE  IInv'
<1>0. TypeOK /\ TabsInv
  BY DEF IInv
<1>1. tab' \in [Tabs -> TabRow] /\ tab'[t] = new /\ \A x \in Tabs \ {t} : tab'[x] = tab[x]
  BY <1>0 DEF TypeOK
<1>2. TypeOK' /\ TabsInv'
  BY <1>0, <1>1 DEF TypeOK, TabsInv, money
<1>3. \A o \in Orders : Submitting(o)' \subseteq Submitting(o) \/ RequestsFor(o) = {}
  <2> SUFFICES ASSUME NEW o \in Orders, RequestsFor(o) # {}
               PROVE  Submitting(o)' \subseteq Submitting(o)
    OBVIOUS
  <2>1. ~(tab'[t].pc = "refund" /\ tab'[t].order = o)
    BY <1>1
  <2> QED BY <1>1, <2>1 DEF Submitting
<1> QED BY <1>2, <1>3, QuietStep

\* The request and payout views, up to the insert of a payout.
LEMMA TabSteps ==
  ASSUME IInv, NEW t \in Tabs,
         \/ \E o \in Orders : SubmitRequest(t, o)
         \/ \E a \in Asked : payout_request(t, a)
         \/ CreatePayout(t) \/ Crash(t)
  PROVE  IInv'
<1>0. TypeOK
  BY DEF IInv
<1>1. Idle \in TabRow /\ Idle.pc = "idle"
  BY DEF Idle, TabRow
<1>2. ASSUME NEW o \in Orders, SubmitRequest(t, o) PROVE IInv'
  <2> DEFINE new == [pc |-> "refund", order |-> o, amount |-> 0]
  <2>1. new \in TabRow /\ new.order = o
    BY DEF TabRow
  <2>2. RequestsFor(o) = {}
    BY <1>2 DEF SubmitRequest, Unknown, RequestsFor
  <2>3. /\ tab' = [tab EXCEPT ![t] = new] /\ payouts' \in Seq(PayoutRow)
        /\ UNCHANGED <<order, earning, requests, money>>
    BY <1>0, <1>2 DEF SubmitRequest, TypeOK
  <2> HIDE DEF new
  <2> QED BY <2>1, <2>2, <2>3, TabStep
<1>3. ASSUME NEW a \in Asked, payout_request(t, a) PROVE IInv'
  <2> DEFINE new == [pc |-> "payout", order |-> NoTab, amount |-> a]
  <2>1. new \in TabRow /\ new.pc = "payout"
    BY RefundAssumption DEF TabRow
  <2>2. /\ tab' = [tab EXCEPT ![t] = new] /\ payouts' \in Seq(PayoutRow)
        /\ UNCHANGED <<order, earning, requests, money>>
    BY <1>0, <1>3 DEF payout_request, TypeOK
  <2> HIDE DEF new
  <2> QED BY <2>1, <2>2, TabStep
<1>4. CASE CreatePayout(t)
  <2> DEFINE row == [amount |-> tab[t].amount, status |-> "pending"]
  <2>1. row \in PayoutRow
    BY <1>0 DEF TypeOK, TabRow, PayoutRow
  <2>2. /\ tab' = [tab EXCEPT ![t] = Idle] /\ payouts' = Append(payouts, row)
        /\ UNCHANGED <<order, earning, requests, money>>
    BY <1>4 DEF CreatePayout
  <2> HIDE DEF row
  <2>3. payouts' \in Seq(PayoutRow)
    BY <1>0, <2>1, <2>2, AppendProperties DEF TypeOK
  <2> QED BY <1>1, <2>2, <2>3, TabStep
<1>5. CASE Crash(t)
  <2>1. /\ tab' = [tab EXCEPT ![t] = Idle] /\ payouts' \in Seq(PayoutRow)
        /\ UNCHANGED <<order, earning, requests, money>>
    BY <1>0, <1>5 DEF Crash, TypeOK
  <2> QED BY <1>1, <2>1, TabStep
<1> QED BY <1>2, <1>3, <1>4, <1>5

\* The admin's bulk actions.
LEMMA MarkStep ==
  ASSUME IInv, NEW S, NEW to \in {"approved", "completed", "rejected"}, MarkPayouts(S, to)
  PROVE  IInv'
<1>0. TypeOK /\ TabsInv
  BY DEF IInv
<1>1. UNCHANGED <<order, earning, requests, money, tab>>
  BY DEF MarkPayouts
<1>2. payouts' \in Seq(PayoutRow)
  <2>1. /\ payouts \in [1 .. Len(payouts) -> PayoutRow] /\ Len(payouts) \in Nat
        /\ DOMAIN payouts = 1 .. Len(payouts)
    BY <1>0, LenProperties DEF TypeOK
  <2>2. ASSUME NEW p \in 1 .. Len(payouts)
        PROVE  [amount |-> payouts[p].amount, status |-> to] \in PayoutRow
    BY <2>1 DEF PayoutRow
  <2>3. payouts' \in [1 .. Len(payouts) -> PayoutRow]
    BY <2>1, <2>2 DEF MarkPayouts
  <2> QED BY <2>1, <2>3, SeqDef
<1>3. TypeOK' /\ TabsInv'
  BY <1>0, <1>1, <1>2 DEF TypeOK, TabsInv, money
<1>4. \A o \in Orders : Submitting(o)' = Submitting(o)
  BY <1>1 DEF Submitting
<1> QED BY <1>1, <1>3, <1>4, QuietStep

\* A request is stored: one tab fewer is submitting, one request more exists.
LEMMA CreateStep ==
  ASSUME IInv, NEW t \in Tabs, CreateRequest(t)
  PROVE  IInv'
<1>0. TypeOK /\ TabsInv /\ RefsInv /\ CreditedIffApproved /\ OverlapInv
  BY DEF IInv
<1> DEFINE o == tab[t].order
           n == Len(requests)
<1>1. /\ tab[t].pc = "refund" /\ requests' = Append(requests, Request(o))
      /\ tab' = [tab EXCEPT ![t] = Idle] /\ UNCHANGED <<order, earning, credits, refs, payouts>>
  BY DEF CreateRequest, money
<1>2. o \in Orders
  BY <1>0, <1>1 DEF TabsInv
<1> HIDE DEF o
<1>3. Request(o) \in RequestRow /\ Request(o).order = o /\ Request(o).status = "pending"
  BY <1>2 DEF Request, RequestRow
<1>4. n \in Nat /\ DOMAIN requests = 1 .. n
  BY <1>0, LenProperties DEF TypeOK
<1>5. /\ requests' \in Seq(RequestRow) /\ DOMAIN requests' = 1 .. n + 1
      /\ requests'[n + 1] = Request(o) /\ \A r \in 1 .. n : requests'[r] = requests[r]
  <2>1. /\ requests' \in Seq(RequestRow) /\ Len(requests') = n + 1
        /\ requests'[n + 1] = Request(o) /\ \A r \in 1 .. n : requests'[r] = requests[r]
    BY <1>0, <1>1, <1>3, AppendProperties DEF TypeOK
  <2> QED BY <2>1, LenProperties
<1> HIDE DEF n
<1>6. /\ tab' \in [Tabs -> TabRow] /\ tab'[t].pc = "idle"
      /\ \A x \in Tabs \ {t} : tab'[x] = tab[x]
  <2>1. Idle \in TabRow /\ Idle.pc = "idle"
    BY DEF Idle, TabRow
  <2> QED BY <1>0, <1>1, <2>1 DEF TypeOK
<1>7. TypeOK' /\ TabsInv'
  <2>1. refs \subseteq 1 .. n + 1
    BY <1>0, <1>4 DEF TypeOK
  <2> QED BY <1>0, <1>1, <1>5, <1>6, <2>1 DEF TypeOK, TabsInv
<1>8. RefsInv'
  BY <1>0, <1>1, <1>4, <1>5 DEF RefsInv, TypeOK
<1>9. /\ n + 1 \notin RequestsFor(o)
      /\ \A x \in Orders : /\ RequestsFor(x)' = RequestsFor(x) \cup (IF x = o THEN {n + 1} ELSE {})
                           /\ Approved(x)' = Approved(x)
  <2>1. n + 1 \notin 1 .. n /\ 1 .. n + 1 = (1 .. n) \cup {n + 1}
    BY <1>4
  <2>2. \A x \in Orders : RequestsFor(x)' = RequestsFor(x) \cup (IF x = o THEN {n + 1} ELSE {})
    BY <1>3, <1>4, <1>5, <2>1 DEF RequestsFor
  <2>3. \A x \in Orders : Approved(x)' = Approved(x)
    BY <1>3, <1>4, <1>5, <2>1 DEF Approved, RequestsFor
  <2> QED BY <1>4, <2>1, <2>2, <2>3 DEF RequestsFor
<1>10. CreditedIffApproved'
  BY <1>0, <1>1, <1>9 DEF CreditedIffApproved
<1>11. OverlapInv'
  <2> SUFFICES ASSUME NEW x \in Orders
               PROVE  Cardinality(RequestsFor(x)') + Cardinality(Submitting(x)') <= Cardinality(Tabs)
    BY DEF OverlapInv
  <2>1. Cardinality(RequestsFor(x)) + Cardinality(Submitting(x)) <= Cardinality(Tabs)
    BY <1>0 DEF OverlapInv
  <2>2. /\ IsFiniteSet(RequestsFor(x)) /\ Cardinality(RequestsFor(x)) \in Nat
        /\ IsFiniteSet(Submitting(x)) /\ Cardinality(Submitting(x)) \in Nat /\ Cardinality(Tabs) \in Nat
    BY <1>0, Counts
  <2>3. CASE x = o
    <3>1. t \in Submitting(x) /\ Submitting(x)' = Submitting(x) \ {t}
      BY <1>1, <1>6, <2>3 DEF Submitting, o
    <3>2. RequestsFor(x)' = RequestsFor(x) \cup {n + 1} /\ n + 1 \notin RequestsFor(x)
      BY <1>9, <2>3
    <3>3. Cardinality(Submitting(x)') = Cardinality(Submitting(x)) - 1
      BY <2>2, <3>1, FS_RemoveElement
    <3>4. Cardinality(RequestsFor(x)') = Cardinality(RequestsFor(x)) + 1
      BY <2>2, <3>2, FS_AddElement
    <3> QED BY <2>1, <2>2, <3>3, <3>4
  <2>4. CASE x # o
    <3>1. Submitting(x)' = Submitting(x)
      BY <1>1, <1>6, <2>4 DEF Submitting, o
    <3>2. RequestsFor(x)' = RequestsFor(x)
      BY <1>9, <2>4
    <3> QED BY <2>1, <3>1, <3>2
  <2> QED BY <2>3, <2>4
<1> QED BY <1>7, <1>8, <1>10, <1>11 DEF IInv

\* The status of one pending request is set.
LEMMA DecideForm ==
  ASSUME TypeOK, NEW r \in DOMAIN requests, NEW to \in {"approved", "rejected"}, StillPending(r),
         requests' = [requests EXCEPT ![r].status = to]
  PROVE  /\ requests' \in Seq(RequestRow) /\ DOMAIN requests' = DOMAIN requests
         /\ requests[r].order \in Orders
         /\ requests'[r].status = to /\ requests'[r].order = requests[r].order
         /\ \A x \in DOMAIN requests \ {r} : requests'[x] = requests[x]
         /\ \A o : RequestsFor(o)' = RequestsFor(o)
         /\ \A o : Approved(o)' = Approved(o) \cup
                     (IF to = "approved" /\ o = requests[r].order THEN {r} ELSE {})
         /\ \A o : r \notin Approved(o)
<1>1. /\ requests \in [1 .. Len(requests) -> RequestRow] /\ Len(requests) \in Nat
      /\ DOMAIN requests = 1 .. Len(requests)
  BY LenProperties DEF TypeOK
<1>2. /\ requests' \in [1 .. Len(requests) -> RequestRow]
      /\ requests'[r].status = to /\ requests'[r].order = requests[r].order
      /\ \A x \in DOMAIN requests \ {r} : requests'[x] = requests[x]
  BY <1>1 DEF RequestRow
<1>3. requests' \in Seq(RequestRow) /\ DOMAIN requests' = DOMAIN requests
  BY <1>1, <1>2, SeqDef
<1>4. requests[r].status = "pending" /\ requests[r].order \in Orders
  BY <1>1 DEF StillPending, RequestRow
<1>5. \A o : RequestsFor(o)' = RequestsFor(o)
  BY <1>2, <1>3 DEF RequestsFor
<1>6. \A o : Approved(o)' = Approved(o) \cup
               (IF to = "approved" /\ o = requests[r].order THEN {r} ELSE {})
  BY <1>2, <1>3, <1>4, <1>5 DEF Approved, RequestsFor
<1>7. \A o : r \notin Approved(o)
  BY <1>4 DEF Approved
<1> QED BY <1>2, <1>3, <1>4, <1>5, <1>6, <1>7

\* The console decides a request; only a first approval credits the wallet.
LEMMA DecideSteps ==
  ASSUME IInv, NEW r \in DOMAIN requests, refund_approve(r) \/ refund_reject(r)
  PROVE  IInv'
<1>0. TypeOK /\ TabsInv /\ RefsInv /\ CreditedIffApproved /\ OverlapInv
  BY DEF IInv
<1> DEFINE o == requests[r].order
<1>1. StillPending(r) /\ UNCHANGED <<earning, payouts, tab>>
  BY DEF refund_approve, refund_reject
<1>2. r \notin refs
  BY <1>0, <1>1 DEF RefsInv, StillPending
<1>3. \A x \in Orders : Submitting(x)' = Submitting(x)
  BY <1>1 DEF Submitting
<1>4. CASE refund_reject(r)
  <2>1. UNCHANGED <<order, credits, refs>> /\ requests' = [requests EXCEPT ![r].status = "rejected"]
    BY <1>4 DEF refund_reject, money
  <2> DEFINE to == "rejected"
  <2>2. to \in {"approved", "rejected"} /\ to # "approved"
        /\ requests' = [requests EXCEPT ![r].status = to]
    BY <2>1
  <2> HIDE DEF to
  <2>3. /\ requests' \in Seq(RequestRow) /\ DOMAIN requests' = DOMAIN requests
        /\ \A x \in DOMAIN requests \ {r} : requests'[x] = requests[x]
        /\ \A x : RequestsFor(x)' = RequestsFor(x)
        /\ \A x : Approved(x)' = Approved(x)
    <3>1. /\ requests' \in Seq(RequestRow) /\ DOMAIN requests' = DOMAIN requests
          /\ \A x \in DOMAIN requests \ {r} : requests'[x] = requests[x]
          /\ \A x : RequestsFor(x)' = RequestsFor(x)
          /\ \A x : Approved(x)' = Approved(x) \cup (IF to = "approved" /\ x = o THEN {r} ELSE {})
      BY <1>0, <1>1, <2>2, DecideForm
    <3> QED BY <2>2, <3>1
  <2>4. TypeOK' /\ TabsInv' /\ RefsInv'
    BY <1>0, <1>1, <1>2, <2>1, <2>3 DEF TypeOK, TabsInv, RefsInv
  <2>5. CreditedIffApproved'
    BY <1>0, <2>1, <2>3 DEF CreditedIffApproved
  <2>6. OverlapInv'
    BY <1>0, <1>3, <2>3 DEF OverlapInv
  <2> QED BY <2>4, <2>5, <2>6 DEF IInv
<1>5. CASE refund_approve(r)
  <2>1. /\ refs' = refs \cup {r} /\ credits' = [credits EXCEPT ![o] = @ + 1]
        /\ order' = [order EXCEPT ![o] = "refunded"]
        /\ requests' = [requests EXCEPT ![r].status = "approved"]
    BY <1>2, <1>5 DEF refund_approve
  <2> DEFINE to == "approved"
  <2>2. to \in {"approved", "rejected"} /\ to = "approved"
        /\ requests' = [requests EXCEPT ![r].status = to]
    BY <2>1
  <2> HIDE DEF to
  <2>3. /\ requests' \in Seq(RequestRow) /\ DOMAIN requests' = DOMAIN requests
        /\ o \in Orders /\ requests'[r].status = "approved"
        /\ \A x \in DOMAIN requests \ {r} : requests'[x] = requests[x]
        /\ \A x : RequestsFor(x)' = RequestsFor(x) /\ r \notin Approved(x)
        /\ \A x : Approved(x)' = Approved(x) \cup (IF x = o THEN {r} ELSE {})
    BY <1>0, <1>1, <2>2, DecideForm
  <2> HIDE DEF o
  <2>4. /\ credits' \in [Orders -> Nat] /\ credits'[o] = credits[o] + 1
        /\ order' \in [Orders -> {"pending", "paid", "refunded"}] /\ order'[o] = "refunded"
        /\ \A x \in Orders \ {o} : credits'[x] = credits[x] /\ order'[x] = order[x]
    BY <1>0, <2>1, <2>3 DEF TypeOK
  <2>5. TypeOK' /\ TabsInv' /\ RefsInv'
    BY <1>0, <1>1, <2>1, <2>3, <2>4 DEF TypeOK, TabsInv, RefsInv
  <2>6. CreditedIffApproved'
    <3> SUFFICES ASSUME NEW x \in Orders
                 PROVE  /\ credits'[x] = Cardinality(Approved(x)')
                        /\ order'[x] = "refunded" <=> credits'[x] > 0
      BY DEF CreditedIffApproved
    <3>1. /\ credits[x] = Cardinality(Approved(x)) /\ credits[x] \in Nat
          /\ order[x] = "refunded" <=> credits[x] > 0
      BY <1>0 DEF CreditedIffApproved, TypeOK
    <3>2. CASE x # o
      BY <2>3, <2>4, <3>1, <3>2
    <3>3. CASE x = o
      <4>1. Approved(x)' = Approved(x) \cup {r} /\ r \notin Approved(x) /\ IsFiniteSet(Approved(x))
        BY <1>0, <2>3, <3>3, Counts
      <4>2. Cardinality(Approved(x)') = Cardinality(Approved(x)) + 1
        BY <4>1, FS_AddElement
      <4> QED BY <2>4, <3>1, <3>3, <4>2
    <3> QED BY <3>2, <3>3
  <2>7. OverlapInv'
    BY <1>0, <1>3, <2>3 DEF OverlapInv
  <2> QED BY <2>5, <2>6, <2>7 DEF IInv
<1> QED BY <1>4, <1>5

-----------------------------------------------------------------------------
(* The invariant *)

\* At the start there is no request.
LEMMA InitIInv == Init => IInv
<1> SUFFICES ASSUME Init PROVE IInv
  OBVIOUS
<1>1. Idle \in TabRow /\ Idle.pc = "idle"
  BY DEF Idle, TabRow
<1>2. requests = <<>> /\ DOMAIN requests = {} /\ refs = {} /\ \A t \in Tabs : tab[t].pc = "idle"
  BY <1>1 DEF Init
<1>3. TypeOK
  BY <1>1, <1>2, EmptySeq DEF Init, TypeOK
<1>4. \A o : RequestsFor(o) = {} /\ Approved(o) = {} /\ Submitting(o) = {}
  BY <1>2 DEF RequestsFor, Approved, Submitting
<1>5. TabsInv /\ RefsInv
  BY <1>2 DEF TabsInv, RefsInv
<1>6. \A o \in Orders : /\ Cardinality(RequestsFor(o)) = 0 /\ Cardinality(Approved(o)) = 0
                        /\ Cardinality(Submitting(o)) = 0
  BY <1>4, FS_EmptySet
<1>7. CreditedIffApproved
  BY <1>6 DEF Init, CreditedIffApproved
<1>8. OverlapInv
  <2>1. Cardinality(Tabs) \in Nat
    BY FS_CardinalityType, RefundAssumption
  <2> QED BY <1>6, <2>1 DEF OverlapInv
<1> QED BY <1>3, <1>5, <1>7, <1>8 DEF IInv

\* Credits, decisions and submissions stay in step, whatever requests overlap.
THEOREM Invariance == Spec => []IInv
<1>1. IInv /\ [Next]_vars => IInv'
  <2> SUFFICES ASSUME IInv, [Next]_vars PROVE IInv'
    OBVIOUS
  <2>1. CASE UNCHANGED vars
    <3>1. UNCHANGED <<order, earning, requests, money, payouts, tab>>
      BY <2>1 DEF vars
    <3>2. TypeOK' /\ TabsInv' /\ \A o \in Orders : Submitting(o)' = Submitting(o)
      BY <3>1 DEF IInv, TypeOK, TabsInv, Submitting, money
    <3> QED BY <3>1, <3>2, QuietStep
  <2>2. CASE \E o \in Orders : Pay(o) \/ \E t \in Tabs : SubmitRequest(t, o)
    BY <2>2, OrderSteps, TabSteps
  <2>3. CASE \E t \in Tabs : CreateRequest(t) \/ CreatePayout(t) \/ Crash(t)
    BY <2>3, CreateStep, TabSteps
  <2>4. CASE \E r \in DOMAIN requests : refund_approve(r) \/ refund_reject(r)
    BY <2>4, DecideSteps
  <2>5. CASE \E t \in Tabs, a \in Asked : payout_request(t, a)
    BY <2>5, TabSteps
  <2>6. CASE \E S \in SUBSET DOMAIN payouts, to \in {"approved", "completed", "rejected"} :
               MarkPayouts(S, to)
    BY <2>6, MarkStep
  <2>7. CASE \E o \in Orders, s \in {"pending", "paid_out", "voided"} : EditEarning(o, s)
    BY <2>7, OrderSteps
  <2> QED BY <2>1, <2>2, <2>3, <2>4, <2>5, <2>6, <2>7 DEF Next
<1> QED BY <1>1, InitIInv, PTL DEF Spec

\* Every reachable state is well typed.
THEOREM TypeCorrect == Spec => []TypeOK
<1>1. IInv => TypeOK
  BY DEF IInv
<1> QED BY <1>1, Invariance, PTL

\* The wallet is credited once per APPROVED request, and an order is REFUNDED
\* exactly when it was credited: refund_approve and refund_reject may be
\* submitted any number of times, in any order.
THEOREM CreditedOnce == Spec => []CreditedIffApproved
<1>1. IInv => CreditedIffApproved
  BY DEF IInv
<1> QED BY <1>1, Invariance, PTL

\* refund_request stores at most as many requests for an order as tabs
\* submitted at the same time, and no more refunds are paid.
THEOREM RequestsBounded == Spec => []RequestsBoundedByOverlap
<1>1. IInv => RequestsBoundedByOverlap
  <2> SUFFICES ASSUME IInv, NEW o \in Orders
               PROVE  /\ Cardinality(RequestsFor(o)) <= Cardinality(Tabs)
                      /\ credits[o] <= Cardinality(Tabs)
    BY DEF RequestsBoundedByOverlap
  <2>1. /\ Cardinality(RequestsFor(o)) + Cardinality(Submitting(o)) <= Cardinality(Tabs)
        /\ credits[o] = Cardinality(Approved(o))
    BY DEF IInv, OverlapInv, CreditedIffApproved
  <2>2. /\ Cardinality(RequestsFor(o)) \in Nat /\ Cardinality(Submitting(o)) \in Nat
        /\ Cardinality(Tabs) \in Nat /\ Cardinality(Approved(o)) \in Nat
        /\ Cardinality(Approved(o)) <= Cardinality(RequestsFor(o))
    BY Counts DEF IInv
  <2> QED BY <2>1, <2>2
<1> QED BY <1>1, Invariance, PTL

\* No step changes a decided request or a closed payout, and none completes a
\* payout that was not approved.
THEOREM DecisionsKept == Spec => DecisionsAreFinal
<1>1. TypeOK /\ [Next]_vars => [KeepsDecisions]_vars
  <2> SUFFICES ASSUME TypeOK, Next PROVE KeepsDecisions
    OBVIOUS
  <2>1. /\ Len(requests) \in Nat /\ DOMAIN requests = 1 .. Len(requests)
        /\ requests \in [1 .. Len(requests) -> RequestRow]
        /\ Len(payouts) \in Nat /\ DOMAIN payouts = 1 .. Len(payouts)
        /\ payouts \in [1 .. Len(payouts) -> PayoutRow]
    BY LenProperties DEF TypeOK
  <2>2. \A r \in DOMAIN requests : requests[r].status # "pending" => requests'[r] = requests[r]
    <3>1. CASE requests' = requests
      BY <3>1
    <3>2. CASE \E row : requests' = Append(requests, row)
      BY <2>1, <3>2
    <3>3. CASE \E r \in DOMAIN requests : \E s :
                 StillPending(r) /\ requests' = [requests EXCEPT ![r].status = s]
      BY <3>3 DEF StillPending
    <3> QED BY <3>1, <3>2, <3>3 DEF Next, Pay, SubmitRequest, CreateRequest, CreatePayout, Crash,
              refund_approve, refund_reject, payout_request, MarkPayouts, EditEarning
  <2>3. \A p \in DOMAIN payouts :
          /\ payouts[p].status \in {"completed", "rejected"} => payouts'[p] = payouts[p]
          /\ payouts'[p].status = "completed" => payouts[p].status \in {"approved", "completed"}
    <3>1. CASE payouts' = payouts
      BY <3>1
    <3>2. CASE \E row : payouts' = Append(payouts, row)
      BY <2>1, <3>2
    <3>3. ASSUME NEW S \in SUBSET DOMAIN payouts, NEW to \in {"approved", "completed", "rejected"},
                 MarkPayouts(S, to), NEW p \in DOMAIN payouts
          PROVE  /\ payouts[p].status \in {"completed", "rejected"} => payouts'[p] = payouts[p]
                 /\ payouts'[p].status = "completed" => payouts[p].status \in {"approved", "completed"}
      BY <3>3 DEF MarkPayouts, From
    <3> QED BY <3>1, <3>2, <3>3 DEF Next, Pay, SubmitRequest, CreateRequest, CreatePayout, Crash,
              refund_approve, refund_reject, payout_request, EditEarning
  <2> QED BY <2>2, <2>3 DEF KeepsDecisions
<1> QED BY <1>1, TypeCorrect, PTL DEF Spec, DecisionsAreFinal

-----------------------------------------------------------------------------
(* The seller's shop while buyers buy (modules Sales and Catalog) *)

PlanSet == UNION {s.plans : s \in Sessions}
AllTypes == UNION {s.types : s \in Sessions}
AllNames == {"first"} \cup (UNION {s.names : s \in Sessions})
Questions == [id : Nat, required : BOOLEAN]
PlanInfo == [deliverables : Nat, entitlements : SUBSET Nat]
ProductRows == [type : AllTypes, visibility : {"draft", "public"}, slug : AllNames,
                questions : SUBSET Questions, plans : Seq(PlanInfo)]
NewRows == {r \in ProductRows : r.plans = <<>>}
Profiles == [exists : BOOLEAN, is_approved : BOOLEAN, completed : BOOLEAN,
             step : {"identity", "product", "publish"}]
OrderRows(S) == [paid : BOOLEAN, redeemed : S, checked : BOOLEAN]
BlockRows == [product : Nat, is_visible : BOOLEAN, deleted : BOOLEAN]

Statements ==
  [op : {"create_profile", "completed", "plan", "block", "product_draft", "deliverable", "entitlement"}]
  \cup [op : {"step"}, step : {"product", "publish"}]
  \cup [op : {"page"}, is_published : BOOLEAN]
  \cup [op : {"profile"}, row : Profiles]
  \cup [op : {"product"}, row : NewRows]
  \cup [op : {"block_delete"}, block : Nat]
  \cup [op : {"block_show"}, block : Nat, is_visible : BOOLEAN]
  \cup [op : {"product_row"}, type : AllTypes, visibility : {"draft", "public"}]
  \cup [op : {"plan_row"}, row : PlanSet]
  \cup [op : {"attach", "detach"}, ent : Nat]
  \cup [op : {"ask", "unask"}, question : Questions]
  \cup [op : {"coupon"}, row : CouponRows]
  \cup [op : {"coupon_active"}, is_active : BOOLEAN]

RequestRows == [todo : Seq(Statements), product : Nat, plan : Nat]

SalesType ==
  /\ session \in Sessions /\ plan \in PlanSet /\ coupon \in CouponRows
  /\ tops \in [stock : Nat, limit : Nat, lost : Nat]
  /\ DOMAIN buyer = Buyers /\ \E S : orders \in Seq(OrderRows(S))
ShopType ==
  /\ products \in Seq(ProductRows) /\ blocks \in Seq(BlockRows)
  /\ profile \in Profiles /\ page \in BOOLEAN /\ ents \in Nat /\ begun \in Nat
RequestType == request \in [Windows -> RequestRows]

\* Request t still has to execute the statement op.
Pending(t, op) == \E k \in 1 .. Len(request[t].todo) : request[t].todo[k].op = op

ProductOps == {"plan", "block", "product_row", "product_draft", "deliverable", "attach", "detach",
               "ask", "unask", "entitlement", "plan_row"}
PlanOps == {"deliverable", "attach", "detach", "entitlement"}

\* The rows a request is about exist, or its next statement inserts them.
Aimed(t) ==
  LET w == request[t] IN
  /\ w.product \in 0 .. Len(products)
  /\ IF w.product = 0 THEN w.plan = 0 ELSE w.plan \in 0 .. Len(products[w.product].plans)
  /\ \A k, l \in 1 .. Len(w.todo) : w.todo[k].op = w.todo[l].op => k = l
  /\ \A op \in ProductOps : Pending(t, op) => w.product # 0 \/ w.todo[1].op = "product"
  /\ \A op \in PlanOps : Pending(t, op) => w.plan # 0 \/ w.todo[1].op = "plan"
  /\ Pending(t, "product") => w.product = 0 /\ \A op \in PlanOps : ~Pending(t, op)
AimInv == \A t \in Windows : Aimed(t)

Adding(op, i, j) == {t \in Windows : Pending(t, op) /\ request[t].product = i /\ request[t].plan = j}
AddingTo(op, i) == {t \in Windows : Pending(t, op) /\ request[t].product = i}
Inserting(op) == {t \in Windows : Pending(t, op)}

\* With the rows that are about to be inserted.
EntsInv == ents + Cardinality(Inserting("entitlement")) <= Cardinality(Windows)
BlocksInv ==
  /\ \A k \in 1 .. Len(blocks) : blocks[k].product \in 1 .. Len(products)
  /\ \A i \in 1 .. Len(products) :
       Cardinality(OnPage(i)) + Cardinality(AddingTo("block", i)) <= Cardinality(Windows)
DeliverablesInv ==
  \A i \in 1 .. Len(products) : \A j \in 1 .. Len(products[i].plans) :
    products[i].plans[j].deliverables + Cardinality(Adding("deliverable", i, j)) <= Cardinality(Windows)

\* Buyers past the stock check may still add to what was sold.
Deciding == {b \in Buyers : buyer[b].pc = "checkout"}
OrdersInv ==
  /\ Len(orders) <= session.orders
  /\ \A o \in 1 .. Len(orders) : orders[o].checked => orders[o].paid
StockInv ==
  /\ tops.stock >= StockTop(plan)
  /\ \/ tops.stock >= Unlimited
     \/ Cardinality(CheckedSales) + Cardinality(Deciding) <= tops.stock + Cardinality(Buyers) - 1

\* The count in the row, what edits took from it, and what a pending edit writes.
Redeemed == {o \in CheckedSales : orders[o].redeemed}
VoucherInv ==
  /\ tops.limit >= LimitTop(coupon)
  /\ \/ tops.limit >= Unlimited
     \/ /\ Cardinality(Redeemed) <= coupon.used_count + tops.lost
        /\ coupon.used_count <= tops.limit
        /\ \A t \in Windows : \A k \in 1 .. Len(request[t].todo) :
             request[t].todo[k].op = "coupon" => request[t].todo[k].row.used_count <= tops.limit
  /\ \A b \in Deciding : buyer[b].limit \in Nat /\ (buyer[b].limit = 0 => tops.limit >= Unlimited)

\* The quote is that of the terms it was made for, and the charge for the same terms
\* is the quote.
Quoted(v) ==
  /\ v.pc = "page" => /\ v.quote = quote(v.terms.plan, v.asked, v.terms.coupon)
                      /\ v.asked \in Nat /\ v.terms.coupon \in CouponRows \cup {NoCoupon}
  /\ v.pc = "cart" => v.quote = compute_cart_line(v.terms.plan, v.asked, NoCoupon).amount
  /\ v.pc \in {"checkout", "checkout_cart"} /\ v.now = v.terms =>
       \/ v.due.amount = v.quote
       \/ v.terms.plan.pwyw
       \/ v.terms.type = "free" /\ v.due.amount = 0
QuoteInv == \A b \in Buyers : Quoted(buyer[b])

Sellable ==
  \E i \in 1 .. Len(products) :
    /\ products[i].visibility = "public" /\ Len(products[i].plans) # 0
    /\ \E k \in 1 .. Len(blocks) : blocks[k].product = i /\ blocks[k].is_visible /\ ~blocks[k].deleted
Publishes(x) == x.op = "step" /\ x.step = "publish"
\* What lies between a request of the wizard and its statement number k, which records
\* that the step "publish" comes next.
Way(t, k) ==
  LET q == request[t].todo
      i == request[t].product
  IN  \/ k = 4 /\ q[1].op = "product" /\ q[1].row.visibility = "public" /\ q[2].op = "plan" /\ q[3].op = "block"
      \/ k = 3 /\ q[1].op = "plan" /\ q[2].op = "block" /\ i # 0 /\ products[i].visibility = "public"
      \/ k = 2 /\ q[1].op = "block" /\ i # 0 /\ products[i].visibility = "public" /\ Len(products[i].plans) # 0
      \/ k = 1 /\ Sellable
WizardOps == {"create_profile", "product", "plan", "block", "step", "page", "completed"}
Wizard(t) ==
  /\ \A k \in 1 .. Len(request[t].todo) : request[t].todo[k].op \in WizardOps
  /\ Pending(t, "completed") => Sellable /\ profile.exists
  /\ \A k \in 1 .. Len(request[t].todo) : Publishes(request[t].todo[k]) => k = Len(request[t].todo) /\ Way(t, k)
\* Until the wizard is finished only applications and the wizard run.
WizardInv ==
  /\ \A t \in Windows : \A k \in 1 .. Len(request[t].todo) :
       request[t].todo[k].op = "profile" => request[t].todo[k].row.completed /\ request[t].todo[k].row.exists
  /\ profile.completed => profile.exists
  /\ ~profile.completed => (profile.step = "publish" => Sellable) /\ \A t \in Windows : Wizard(t)
-----------------------------------------------------------------------------
(* Operators, and lists of statements *)

LEMMA MostOf ==
  ASSUME NEW a \in Int, NEW b \in Int
  PROVE  Most(a, b) = IF a >= b THEN a ELSE b
<1>1. Max({a, b}) = CHOOSE x \in {a, b} : \A y \in {a, b} : x >= y
  BY DEF Max
<1> QED BY <1>1 DEF Most

LEMMA LeastOf ==
  ASSUME NEW a \in Int, NEW b \in Int
  PROVE  Least(a, b) = IF a <= b THEN a ELSE b
<1>1. Min({a, b}) = CHOOSE x \in {a, b} : \A y \in {a, b} : x <= y
  BY DEF Min
<1> QED BY <1>1 DEF Least

LEMMA Lists ==
  ASSUME NEW S
  PROVE  /\ <<>> \in Seq(S) /\ Len(<<>>) = 0
         /\ \A a \in S : <<a>> \in Seq(S) /\ Len(<<a>>) = 1 /\ <<a>>[1] = a
         /\ \A a, b \in S : <<a, b>> \in Seq(S) /\ Len(<<a, b>>) = 2 /\ <<a, b>>[1] = a /\ <<a, b>>[2] = b
         /\ \A a, b, c, d \in S :
              /\ <<a, b, c, d>> \in Seq(S) /\ Len(<<a, b, c, d>>) = 4
              /\ <<a, b, c, d>>[1] = a /\ <<a, b, c, d>>[2] = b
              /\ <<a, b, c, d>>[3] = c /\ <<a, b, c, d>>[4] = d
<1>1. <<>> \in Seq(S) /\ Len(<<>>) = 0
  OBVIOUS
<1>2. ASSUME NEW a \in S PROVE <<a>> \in Seq(S) /\ Len(<<a>>) = 1 /\ <<a>>[1] = a
  OBVIOUS
<1>3. ASSUME NEW a \in S, NEW b \in S
      PROVE  <<a, b>> \in Seq(S) /\ Len(<<a, b>>) = 2 /\ <<a, b>>[1] = a /\ <<a, b>>[2] = b
  OBVIOUS
<1>4. ASSUME NEW a \in S, NEW b \in S, NEW c \in S, NEW d \in S
      PROVE  /\ <<a, b, c, d>> \in Seq(S) /\ Len(<<a, b, c, d>>) = 4
             /\ <<a, b, c, d>>[1] = a /\ <<a, b, c, d>>[2] = b
             /\ <<a, b, c, d>>[3] = c /\ <<a, b, c, d>>[4] = d
  OBVIOUS
<1> QED BY <1>1, <1>2, <1>3, <1>4

LEMMA Rest ==
  ASSUME NEW S, NEW q \in Seq(S), q # <<>>
  PROVE  /\ Len(q) \in Nat \ {0} /\ Head(q) = q[1] /\ q[1] \in S
         /\ Tail(q) \in Seq(S) /\ Len(Tail(q)) = Len(q) - 1
         /\ \A k \in 1 .. Len(Tail(q)) : Tail(q)[k] = q[k + 1]
         /\ \A k \in 1 .. Len(q) : q[k] \in S
BY HeadTailProperties, ElementOfSeq

\* What a statement carries.
LEMMA StatementFields ==
  ASSUME NEW x \in Statements
  PROVE  /\ x.op = "step" => x.step \in {"product", "publish"}
         /\ x.op = "page" => x.is_published \in BOOLEAN
         /\ x.op = "profile" => x.row \in Profiles
         /\ x.op = "product" => x.row \in ProductRows /\ x.row.plans = <<>>
         /\ x.op \in {"block_delete", "block_show"} => x.block \in Nat
         /\ x.op = "block_show" => x.is_visible \in BOOLEAN
         /\ x.op = "product_row" => x.type \in AllTypes /\ x.visibility \in {"draft", "public"}
         /\ x.op = "plan_row" => x.row \in PlanSet
         /\ x.op \in {"attach", "detach"} => x.ent \in Nat
         /\ x.op \in {"ask", "unask"} => x.question \in Questions
         /\ x.op = "coupon" => x.row \in CouponRows
         /\ x.op = "coupon_active" => x.is_active \in BOOLEAN
BY DEF Statements, NewRows

\* What the statements of a request are when it begins, about product i and plan j.
Suits(q, i, j, k) ==
  LET x == q[k] IN
  /\ x.op \in ProductOps => i # 0 \/ q[1].op = "product"
  /\ x.op \in PlanOps => j # 0 \/ q[1].op = "plan"
  /\ x.op = "product" => i = 0 /\ k = 1 /\ \A l \in 1 .. Len(q) : q[l].op \notin PlanOps
  /\ x.op = "plan" => j = 0
  /\ x.op = "coupon" => x.row.used_count = coupon.used_count
  /\ x.op = "block" => q[1].op = "product" \/ OnPage(i) = {}
  /\ x.op = "deliverable" => q[1].op = "plan" \/ products[i].plans[j].deliverables = 0
  /\ x.op = "entitlement" => ents = 0
  /\ x.op = "profile" => x.row = profile /\ profile.completed /\ profile.exists
Legal(q, i, j) ==
  /\ q \in Seq(Statements)
  /\ i \in 0 .. Len(products) /\ j \in Nat
  /\ IF i = 0 THEN j = 0 ELSE j \in 0 .. Len(products[i].plans)
  /\ \A k, l \in 1 .. Len(q) : q[k].op = q[l].op => k = l
  /\ \A k \in 1 .. Len(q) : Suits(q, i, j, k)

LEMMA LegalNone == Legal(<<>>, 0, 0)
<1>1. <<>> \in Seq(Statements) /\ Len(<<>>) = 0
  BY Lists
<1>2. 0 \in 0 .. Len(products)
  OBVIOUS
<1> QED BY <1>1, <1>2 DEF Legal

LEMMA LegalOne ==
  ASSUME ShopType, NEW i \in 0 .. Len(products), NEW j \in Nat,
         IF i = 0 THEN j = 0 ELSE j \in 0 .. Len(products[i].plans),
         NEW x \in Statements, x.op \in ProductOps => i # 0, x.op \in PlanOps => j # 0,
         x.op = "product" => i = 0, x.op = "plan" => j = 0,
         x.op = "coupon" => x.row.used_count = coupon.used_count,
         x.op = "block" => OnPage(i) = {},
         x.op = "deliverable" => products[i].plans[j].deliverables = 0,
         x.op = "entitlement" => ents = 0,
         x.op = "profile" => x.row = profile /\ profile.completed /\ profile.exists
  PROVE  Legal(<<x>>, i, j)
<1> DEFINE q == <<x>>
<1>1. q \in Seq(Statements) /\ Len(q) = 1 /\ q[1] = x
  BY Lists
<1> HIDE DEF q
<1>2. \A k \in 1 .. Len(q) : k = 1
  BY <1>1
<1>3. x.op = "product" => x.op \notin PlanOps
  BY DEF PlanOps
<1>4. Suits(q, i, j, 1)
  BY <1>1, <1>2, <1>3 DEF Suits
<1>5. Legal(q, i, j)
  BY <1>1, <1>2, <1>4 DEF Legal
<1> QED BY <1>5 DEF q

\* Two statements, neither of which inserts a product.
LEMMA LegalTwo ==
  ASSUME ShopType, NEW i \in 0 .. Len(products), NEW j \in Nat,
         IF i = 0 THEN j = 0 ELSE j \in 0 .. Len(products[i].plans),
         NEW x \in Statements, NEW y \in Statements, x.op # y.op,
         x.op \notin PlanOps \cup {"product", "coupon", "block", "profile"},
         y.op \notin {"product", "plan", "coupon", "block", "profile", "entitlement"},
         x.op = "plan" => j = 0,
         x.op \in ProductOps \/ y.op \in ProductOps => i # 0,
         y.op \in PlanOps => j # 0 \/ x.op = "plan",
         y.op = "deliverable" => x.op = "plan" \/ products[i].plans[j].deliverables = 0
  PROVE  Legal(<<x, y>>, i, j)
<1> DEFINE q == <<x, y>>
<1>1. q \in Seq(Statements) /\ Len(q) = 2 /\ q[1] = x /\ q[2] = y
  BY Lists
<1> HIDE DEF q
<1>2. \A k \in 1 .. Len(q) : k = 1 \/ k = 2
  BY <1>1
<1>3. x.op # "deliverable" /\ x.op # "entitlement"
  BY DEF PlanOps
<1>4. Suits(q, i, j, 1)
  BY <1>1, <1>3 DEF Suits
<1>5. Suits(q, i, j, 2)
  BY <1>1 DEF Suits
<1>6. Legal(q, i, j)
  <2>1. \A k, l \in 1 .. Len(q) : q[k].op = q[l].op => k = l
    BY <1>1, <1>2
  <2>2. \A k \in 1 .. Len(q) : Suits(q, i, j, k)
    BY <1>2, <1>4, <1>5
  <2> QED BY <1>1, <2>1, <2>2 DEF Legal
<1> QED BY <1>6 DEF q

\* The second step of the wizard.
LEMMA LegalProductStep ==
  ASSUME ShopType, NEW type \in AllTypes, NEW name \in AllNames
  PROVE  Legal(ProductStep(type, name), 0, 0)
<1> DEFINE a == [op |-> "product", row |-> NewProduct(type, "public", name)]
           b == [op |-> "plan"]
           c == [op |-> "block"]
           d == [op |-> "step", step |-> "publish"]
           q == <<a, b, c, d>>
<1>1. a \in Statements /\ a.op = "product"
  <2>1. <<>> \in Seq(PlanInfo)
    BY Lists
  <2>2. NewProduct(type, "public", name) \in NewRows
    BY <2>1 DEF NewProduct, ProductRows, NewRows
  <2> HIDE DEF a
  <2>3. a \in [op : {"product"}, row : NewRows]
    BY <2>2 DEF a
  <2> QED BY <2>3 DEF Statements
<1>2. b \in Statements /\ b.op = "plan" /\ c \in Statements /\ c.op = "block" /\ d \in Statements /\ d.op = "step"
  BY DEF Statements
<1>3. ProductStep(type, name) = q
  BY DEF ProductStep
<1> HIDE DEF a, b, c, d
<1>4. q \in Seq(Statements) /\ Len(q) = 4 /\ q[1] = a /\ q[2] = b /\ q[3] = c /\ q[4] = d
  BY <1>1, <1>2, Lists
<1> HIDE DEF q
<1>5. \A k \in 1 .. Len(q) : k = 1 \/ k = 2 \/ k = 3 \/ k = 4
  BY <1>4
<1>6. \A l \in 1 .. Len(q) : q[l].op \notin PlanOps
  BY <1>1, <1>2, <1>4, <1>5 DEF PlanOps
<1>7. Suits(q, 0, 0, 1)
  BY <1>1, <1>4, <1>6 DEF Suits
<1>8. Suits(q, 0, 0, 2) /\ Suits(q, 0, 0, 3) /\ Suits(q, 0, 0, 4)
  BY <1>1, <1>2, <1>4, <1>6 DEF Suits
<1>9. \A k, l \in 1 .. Len(q) : q[k].op = q[l].op => k = l
  BY <1>1, <1>2, <1>4, <1>5
<1>10. 0 \in 0 .. Len(products)
  BY DEF ShopType
<1>11. \A k \in 1 .. Len(q) : Suits(q, 0, 0, k)
  BY <1>5, <1>7, <1>8
<1>12. Legal(q, 0, 0)
  BY <1>4, <1>9, <1>10, <1>11 DEF Legal
<1> QED BY <1>3, <1>12

\* A request begins with a legal list of statements and does nothing else yet.
Begins(t, q, i, j) ==
  /\ request' = [request EXCEPT ![t] = IF q = <<>> THEN NoRequest ELSE [todo |-> q, product |-> i, plan |-> j]]
  /\ UNCHANGED <<session, products, plan, coupon, orders, buyer, tops, profile, page, blocks, ents, crashes>>
  /\ begun' = begun + 1 /\ request[t] = NoRequest

LEMMA BeginForm ==
  ASSUME NEW t, NEW kind, NEW i, NEW j, NEW q, Begin(t, kind, i, j, q)
  PROVE  Begins(t, q, i, j)
BY DEF Begin, Begins, salesvars

LEMMA RequestForm ==
  ASSUME CatalogOK, SalesType, ShopType, NEW t \in Windows, Serve(t)
  PROVE  \E q, i, j : Begins(t, q, i, j) /\ Legal(q, i, j)
<1>1. ASSUME NEW q, NEW i, NEW j, Begins(t, q, i, j), Legal(q, i, j)
      PROVE  \E q1, i1, j1 : Begins(t, q1, i1, j1) /\ Legal(q1, i1, j1)
  BY <1>1
<1> USE <1>1
<1> DEFINE G == \E q, i, j : Begins(t, q, i, j) /\ Legal(q, i, j)
<1>2. DOMAIN products = 1 .. Len(products) /\ DOMAIN blocks = 1 .. Len(blocks) /\ Len(products) \in Nat
  BY DEF ShopType
<1>3. \A i \in 1 .. Len(products) : /\ products[i] \in ProductRows
                                    /\ products[i].plans \in Seq(PlanInfo)
                                    /\ products[i].questions \subseteq Questions
                                    /\ DOMAIN products[i].plans = 1 .. Len(products[i].plans)
                                    /\ Len(products[i].plans) \in Nat
  <2>1. ASSUME NEW i \in 1 .. Len(products) PROVE products[i] \in ProductRows
    BY <2>1 DEF ShopType
  <2>2. ASSUME NEW i \in 1 .. Len(products)
        PROVE products[i].plans \in Seq(PlanInfo) /\ products[i].questions \subseteq Questions
    BY <2>1, <2>2 DEF ProductRows
  <2> QED BY <2>1, <2>2
<1>4. session.types \subseteq AllTypes /\ session.names \subseteq AllNames /\ session.plans \subseteq PlanSet
      /\ session.coupons \subseteq CouponRows /\ session \in Sessions
  BY DEF SalesType, AllTypes, AllNames, PlanSet, CatalogOK, SalesOK
<1>5. ASSUME NEW x \in Statements, x.op \notin ProductOps \cup PlanOps \cup {"coupon", "profile"},
             NEW kind, Begin(t, kind, 0, 0, <<x>>)
      PROVE  G
  <2>1. Legal(<<x>>, 0, 0)
    BY <1>2, <1>5, LegalOne DEF ProductOps, PlanOps
  <2> QED BY <1>5, <2>1, BeginForm
<1>6. ASSUME NEW x \in Statements, x.op \notin PlanOps \cup {"product", "coupon", "block", "profile"},
             NEW i \in 1 .. Len(products), NEW kind, Begin(t, kind, i, 0, <<x>>)
      PROVE  G
  <2>1. Legal(<<x>>, i, 0)
    BY <1>2, <1>3, <1>6, LegalOne DEF PlanOps
  <2> QED BY <1>6, <2>1, BeginForm
<1>7. ASSUME apply(t) PROVE G
  <2> DEFINE x == [op |-> "create_profile"]
  <2>1. x \in Statements /\ x.op \notin ProductOps \cup PlanOps \cup {"coupon", "profile"}
    BY DEF Statements, ProductOps, PlanOps
  <2>2. Begin(t, "apply", 0, 0, <<x>>)
    BY <1>7 DEF apply
  <2> HIDE DEF x
  <2> QED BY <1>5, <2>1, <2>2
<1>8. ASSUME settings(t) PROVE G
  <2> DEFINE x == [op |-> "profile", row |-> profile]
  <2>1. x \in Statements /\ x.op = "profile" /\ x.row = profile
    BY DEF Statements, ShopType
  <2>2. Begin(t, "settings", 0, 0, <<x>>) /\ profile.completed /\ profile.exists
    BY <1>8 DEF settings, Admitted
  <2> HIDE DEF x
  <2>3. Legal(<<x>>, 0, 0)
    BY <1>2, <2>1, <2>2, LegalOne DEF ProductOps, PlanOps
  <2> QED BY <2>2, <2>3, BeginForm
<1>9. ASSUME store(t) PROVE G
  <2> DEFINE x == [op |-> "page", is_published |-> page]
  <2>1. x \in Statements /\ x.op \notin ProductOps \cup PlanOps \cup {"coupon", "profile"}
    BY DEF Statements, ProductOps, PlanOps, ShopType
  <2>2. Begin(t, "store", 0, 0, <<x>>)
    BY <1>9 DEF store
  <2> HIDE DEF x
  <2> QED BY <1>5, <2>1, <2>2
<1>10. ASSUME store_publish_toggle(t) PROVE G
  <2> DEFINE v == ~page
             x == [op |-> "page", is_published |-> v]
  <2>1. v \in BOOLEAN
    OBVIOUS
  <2>2. Begin(t, "store_publish_toggle", 0, 0, <<x>>)
    BY <1>10 DEF store_publish_toggle
  <2> HIDE DEF v
  <2>3. x \in Statements /\ x.op \notin ProductOps \cup PlanOps \cup {"coupon", "profile"}
    BY <2>1 DEF Statements, ProductOps, PlanOps
  <2> HIDE DEF x
  <2> QED BY <1>5, <2>2, <2>3
<1>11. ASSUME NEW k \in 1 .. Len(blocks), block_remove(t, k) PROVE G
  <2> DEFINE x == [op |-> "block_delete", block |-> k]
  <2>1. x \in Statements /\ x.op \notin ProductOps \cup PlanOps \cup {"coupon", "profile"}
    BY DEF Statements, ProductOps, PlanOps
  <2>2. Begin(t, "block_remove", 0, 0, <<x>>)
    BY <1>11 DEF block_remove
  <2> HIDE DEF x
  <2> QED BY <1>5, <2>1, <2>2
<1>12. ASSUME NEW k \in 1 .. Len(blocks), block_toggle_visibility(t, k) PROVE G
  <2> DEFINE v == ~blocks[k].is_visible
             x == [op |-> "block_show", block |-> k, is_visible |-> v]
  <2>1. v \in BOOLEAN
    OBVIOUS
  <2>2. Begin(t, "block_toggle_visibility", 0, 0, <<x>>)
    BY <1>12 DEF block_toggle_visibility
  <2> HIDE DEF v
  <2>3. x \in Statements /\ x.op \notin ProductOps \cup PlanOps \cup {"coupon", "profile"}
    BY <2>1 DEF Statements, ProductOps, PlanOps
  <2> HIDE DEF x
  <2> QED BY <1>5, <2>2, <2>3
<1>13. ASSUME NEW type \in session.types, NEW visibility \in {"draft", "public"}, NEW name \in session.names,
              product_create(t, type, visibility, name) PROVE G
  <2> DEFINE r == NewProduct(type, visibility, name)
             x == [op |-> "product", row |-> r]
  <2>1. <<>> \in Seq(PlanInfo)
    BY Lists
  <2>2. r \in NewRows
    BY <1>4, <2>1 DEF NewProduct, ProductRows, NewRows
  <2>3. Begin(t, "product_create", 0, 0, <<x>>)
    BY <1>13 DEF product_create
  <2> HIDE DEF r
  <2>4. x \in Statements /\ x.op \notin ProductOps \cup PlanOps \cup {"coupon", "profile"}
    BY <2>2 DEF Statements, ProductOps, PlanOps
  <2> HIDE DEF x
  <2> QED BY <1>5, <2>3, <2>4
<1>14. ASSUME NEW type \in session.types, NEW visibility \in {"draft", "public"}, NEW i \in 1 .. Len(products),
              product_edit(t, i, type, visibility) PROVE G
  <2> DEFINE x == [op |-> "product_row", type |-> type, visibility |-> visibility]
  <2>1. x \in Statements /\ x.op \notin PlanOps \cup {"product", "coupon", "block", "profile"}
    BY <1>4 DEF Statements, PlanOps
  <2>2. Begin(t, "product_edit", i, 0, <<x>>)
    BY <1>14 DEF product_edit
  <2> HIDE DEF x
  <2> QED BY <1>6, <2>1, <2>2
<1>15. ASSUME NEW i \in 1 .. Len(products), product_delete(t, i) PROVE G
  <2> DEFINE x == [op |-> "product_draft"]
  <2>1. x \in Statements /\ x.op \notin PlanOps \cup {"product", "coupon", "block", "profile"}
    BY DEF Statements, PlanOps
  <2>2. Begin(t, "product_delete", i, 0, <<x>>)
    BY <1>15 DEF product_delete
  <2> HIDE DEF x
  <2> QED BY <1>6, <2>1, <2>2
<1>16. ASSUME NEW i \in 1 .. Len(products), NEW required \in BOOLEAN, question_add(t, i, required) PROVE G
  <2> DEFINE x == [op |-> "ask", question |-> [id |-> begun, required |-> required]]
  <2>1. [id |-> begun, required |-> required] \in Questions
    BY DEF ShopType, Questions
  <2>2. x \in Statements /\ x.op \notin PlanOps \cup {"product", "coupon", "block", "profile"}
    BY <2>1 DEF Statements, PlanOps
  <2>3. Begin(t, "question_add", i, 0, <<x>>)
    BY <1>16 DEF question_add
  <2> HIDE DEF x
  <2> QED BY <1>6, <2>2, <2>3
<1>17. ASSUME NEW i \in 1 .. Len(products), NEW q \in products[i].questions, question_remove(t, i, q) PROVE G
  <2> DEFINE x == [op |-> "unask", question |-> q]
  <2>1. x \in Statements /\ x.op \notin PlanOps \cup {"product", "coupon", "block", "profile"}
    BY <1>3 DEF Statements, PlanOps
  <2>2. Begin(t, "question_remove", i, 0, <<x>>)
    BY <1>17 DEF question_remove
  <2> HIDE DEF x
  <2> QED BY <1>6, <2>1, <2>2
<1>18. ASSUME voucher_toggle(t) PROVE G
  <2> DEFINE v == ~coupon.is_active
             x == [op |-> "coupon_active", is_active |-> v]
  <2>1. v \in BOOLEAN
    OBVIOUS
  <2>2. Begin(t, "voucher_toggle", 0, 0, <<x>>)
    BY <1>18 DEF voucher_toggle
  <2> HIDE DEF v
  <2>3. x \in Statements /\ x.op \notin ProductOps \cup PlanOps \cup {"coupon", "profile"}
    BY <2>1 DEF Statements, ProductOps, PlanOps
  <2> HIDE DEF x
  <2> QED BY <1>5, <2>2, <2>3
<1>19. ASSUME NEW row \in session.coupons, voucher_edit(t, row) PROVE G
  <2> DEFINE r == [row EXCEPT !.used_count = coupon.used_count]
             x == [op |-> "coupon", row |-> r]
  <2>1. row \in CouponRows /\ coupon.used_count \in Nat
    BY <1>4 DEF SalesType, CouponRows
  <2>2. r \in CouponRows /\ r.used_count = coupon.used_count
    BY <2>1 DEF CouponRows
  <2>3. Begin(t, "voucher_edit", 0, 0, <<x>>)
    BY <1>19 DEF voucher_edit
  <2> HIDE DEF r
  <2>4. x \in Statements /\ x.op = "coupon" /\ x.row = r
    BY <2>2 DEF Statements
  <2> HIDE DEF x
  <2>5. 0 \in 0 .. Len(products) /\ 0 \in Nat /\ x.op \notin ProductOps \cup PlanOps
    BY <1>2, <2>4 DEF ProductOps, PlanOps
  <2>6. Legal(<<x>>, 0, 0)
    BY <2>2, <2>4, <2>5, LegalOne
  <2> QED BY <2>3, <2>6, BeginForm
<1>20. ASSUME NEW i \in 1 .. Len(products), block_add(t, i) PROVE G
  <2> DEFINE x == [op |-> "block"]
  <2>1. x \in Statements /\ x.op = "block"
    BY DEF Statements
  <2>2. CASE Missing(i)
    <3>1. Begin(t, "block_add", i, 0, <<x>>)
      BY <1>20, <2>2 DEF block_add
    <3> HIDE DEF x
    <3>2. Legal(<<x>>, i, 0)
      BY <1>2, <1>3, <1>20, <2>1, <2>2, LegalOne DEF Missing, PlanOps
    <3> QED BY <3>1, <3>2, BeginForm
  <2>3. CASE ~Missing(i)
    <3>1. Begin(t, "block_add", i, 0, <<>>)
      BY <1>20, <2>3 DEF block_add
    <3>2. Begins(t, <<>>, i, 0)
      BY <3>1, BeginForm
    <3>3. Begins(t, <<>>, 0, 0)
      BY <3>2 DEF Begins
    <3> QED BY <3>3, LegalNone
  <2> QED BY <2>2, <2>3
<1>21. ASSUME NEW i \in 1 .. Len(products), plan_create(t, i) PROVE G
  <2> DEFINE x == [op |-> "plan"]
             y == [op |-> "deliverable"]
  <2>1. x \in Statements /\ x.op = "plan" /\ y \in Statements /\ y.op = "deliverable"
    BY DEF Statements
  <2>2. Begin(t, "plan_create", i, 0, <<x, y>>)
    BY <1>21 DEF plan_create
  <2> HIDE DEF x, y
  <2>3. Legal(<<x, y>>, i, 0)
    BY <1>2, <1>3, <1>21, <2>1, LegalTwo DEF PlanOps
  <2> QED BY <2>2, <2>3, BeginForm
<1>22. ASSUME NEW i \in 1 .. Len(products), NEW j \in 1 .. Len(products[i].plans), NEW row \in session.plans,
              plan_edit(t, i, j, row) PROVE G
  <2> DEFINE x == [op |-> "plan_row", row |-> row]
             y == [op |-> "deliverable"]
  <2>1. x \in Statements /\ x.op = "plan_row" /\ y \in Statements /\ y.op = "deliverable"
    BY <1>4 DEF Statements
  <2>2. <<x>> \o <<>> = <<x>> /\ <<x>> \o <<y>> = <<x, y>>
    <3> HIDE DEF x, y
    <3>1. <<x>> \in Seq(Statements) /\ <<y>> \in Seq(Statements)
      BY <2>1, Lists
    <3>2. <<x>> \o <<>> = <<x>>
      BY <3>1, ConcatEmptySeq
    <3> DEFINE u == <<x>> \o <<y>>
               v == <<x, y>>
    <3>3. u \in Seq(Statements) /\ Len(u) = 2 /\ u[1] = x /\ u[2] = y
      <4> DEFINE a == <<x>>
                 b == <<y>>
      <4>1. a \in Seq(Statements) /\ b \in Seq(Statements) /\ Len(a) = 1 /\ Len(b) = 1 /\ a[1] = x /\ b[1] = y
        BY <2>1, Lists
      <4>2. u = a \o b
        OBVIOUS
      <4> HIDE DEF a, b, u
      <4>3. /\ u \in Seq(Statements) /\ Len(u) = Len(a) + Len(b)
            /\ \A n \in 1 .. Len(a) + Len(b) : u[n] = IF n <= Len(a) THEN a[n] ELSE b[n - Len(a)]
        BY <4>1, <4>2, ConcatProperties
      <4>4. u[1] = a[1] /\ u[2] = b[2 - 1] /\ Len(u) = 2
        BY <4>1, <4>3
      <4> QED BY <4>1, <4>3, <4>4
    <3>4. v \in Seq(Statements) /\ Len(v) = 2 /\ v[1] = x /\ v[2] = y
      BY <2>1, Lists
    <3> HIDE DEF u, v
    <3>5. u = v
      BY <3>3, <3>4, SeqEqual
    <3> QED BY <3>2, <3>5 DEF u, v
  <2>3. j \in Nat /\ j \in 0 .. Len(products[i].plans) /\ i \in 0 .. Len(products) /\ i # 0 /\ j # 0
    BY <1>2, <1>3, <1>22
  <2>4. CASE products[i].plans[j].deliverables = 0
    <3>1. Begin(t, "plan_edit", i, j, <<x, y>>)
      BY <1>22, <2>2, <2>4 DEF plan_edit
    <3> HIDE DEF x, y
    <3>2. Legal(<<x, y>>, i, j)
      BY <2>1, <2>3, <2>4, LegalTwo DEF PlanOps
    <3> QED BY <3>1, <3>2, BeginForm
  <2>5. CASE products[i].plans[j].deliverables # 0
    <3>1. Begin(t, "plan_edit", i, j, <<x>>)
      BY <1>22, <2>2, <2>5 DEF plan_edit
    <3> HIDE DEF x, y
    <3>2. Legal(<<x>>, i, j)
      BY <2>1, <2>3, LegalOne DEF PlanOps
    <3> QED BY <3>1, <3>2, BeginForm
  <2> QED BY <2>4, <2>5
<1>23. ASSUME NEW i \in 1 .. Len(products), NEW j \in 1 .. Len(products[i].plans),
              entitlement_add(t, i, j) PROVE G
  <2> DEFINE x == [op |-> "entitlement"]
             y == [op |-> "attach", ent |-> 1]
  <2>1. x \in Statements /\ x.op = "entitlement" /\ y \in Statements /\ y.op = "attach"
    BY DEF Statements
  <2>2. j \in Nat /\ j \in 0 .. Len(products[i].plans) /\ i \in 0 .. Len(products) /\ i # 0 /\ j # 0
    BY <1>2, <1>3, <1>23
  <2>3. CASE ents = 0
    <3>1. Begin(t, "entitlement_add", i, j, <<x>>)
      BY <1>23, <2>3 DEF entitlement_add
    <3> HIDE DEF x, y
    <3>2. Legal(<<x>>, i, j)
      BY <2>1, <2>2, <2>3, LegalOne
    <3> QED BY <3>1, <3>2, BeginForm
  <2>4. CASE ents # 0
    <3>1. Begin(t, "entitlement_add", i, j, <<y>>)
      BY <1>23, <2>4 DEF entitlement_add
    <3> HIDE DEF x, y
    <3>2. Legal(<<y>>, i, j)
      BY <2>1, <2>2, LegalOne
    <3> QED BY <3>1, <3>2, BeginForm
  <2> QED BY <2>3, <2>4
<1>24. ASSUME NEW i \in 1 .. Len(products), NEW j \in 1 .. Len(products[i].plans), NEW e \in 1 .. ents,
              entitlement_remove(t, i, j, e) PROVE G
  <2> DEFINE y == [op |-> "detach", ent |-> e]
  <2>1. y \in Statements /\ y.op = "detach"
    BY DEF Statements
  <2>2. j \in Nat /\ j \in 0 .. Len(products[i].plans) /\ i \in 0 .. Len(products) /\ i # 0 /\ j # 0
    BY <1>2, <1>3, <1>24
  <2>3. Begin(t, "entitlement_remove", i, j, <<y>>)
    BY <1>24 DEF entitlement_remove
  <2> HIDE DEF y
  <2>4. Legal(<<y>>, i, j)
    BY <2>1, <2>2, LegalOne
  <2> QED BY <2>3, <2>4, BeginForm
<1>25. ASSUME NEW type \in session.types, NEW name \in session.names, onboarding(t, type, name) PROVE G
  <2>1. profile.step \in {"identity", "product", "publish"}
    BY DEF ShopType, Profiles
  <2>2. CASE profile.step = "identity"
    <3> DEFINE x == [op |-> "page", is_published |-> page]
               y == [op |-> "step", step |-> "product"]
    <3>1. x \in Statements /\ x.op = "page" /\ y \in Statements /\ y.op = "step"
      BY DEF Statements, ShopType
    <3>2. Begin(t, "onboarding", 0, 0, <<x, y>>)
      BY <1>25, <2>2 DEF onboarding
    <3> HIDE DEF x, y
    <3>3. /\ x.op \notin ProductOps \cup PlanOps \cup {"product", "coupon", "block", "profile"}
          /\ y.op \notin ProductOps \cup PlanOps \cup {"product", "coupon", "block", "profile", "entitlement", "deliverable"}
          /\ x.op # y.op
      BY <3>1 DEF ProductOps, PlanOps
    <3>4. Legal(<<x, y>>, 0, 0)
      BY <1>2, <3>1, <3>3, LegalTwo
    <3> QED BY <3>2, <3>4, BeginForm
  <2>3. CASE profile.step = "product"
    <3>1. Begin(t, "onboarding", 0, 0, ProductStep(type, name))
      BY <1>25, <2>3 DEF onboarding
    <3>2. Legal(ProductStep(type, name), 0, 0)
      BY <1>4, <1>25, LegalProductStep
    <3> QED BY <3>1, <3>2, BeginForm
  <2>4. CASE profile.step = "publish"
    <3> DEFINE x == [op |-> "page", is_published |-> TRUE]
               y == [op |-> "completed"]
    <3>1. x \in Statements /\ x.op = "page" /\ y \in Statements /\ y.op = "completed"
      BY DEF Statements
    <3>2. Begin(t, "onboarding", 0, 0, <<x, y>>)
      BY <1>25, <2>4 DEF onboarding
    <3> HIDE DEF x, y
    <3>3. /\ x.op \notin ProductOps \cup PlanOps \cup {"product", "coupon", "block", "profile"}
          /\ y.op \notin ProductOps \cup PlanOps \cup {"product", "coupon", "block", "profile", "entitlement", "deliverable"}
          /\ x.op # y.op
      BY <3>1 DEF ProductOps, PlanOps
    <3>4. Legal(<<x, y>>, 0, 0)
      BY <1>2, <3>1, <3>3, LegalTwo
    <3> QED BY <3>2, <3>4, BeginForm
  <2> QED BY <2>1, <2>2, <2>3, <2>4
<1> HIDE DEF G
<1>26. G
  BY <1>2, <1>3, <1>7, <1>8, <1>9, <1>10, <1>11, <1>12, <1>13, <1>14, <1>15, <1>16, <1>17, <1>18, <1>19, <1>20,
     <1>21, <1>22, <1>23, <1>24, <1>25 DEF Serve
<1> QED BY <1>26 DEF G

-----------------------------------------------------------------------------
(* Types, and the rows requests are about *)

LEMMA IdleRequest ==
  /\ NoRequest \in RequestRows /\ NoRequest.todo = <<>> /\ Len(NoRequest.todo) = 0
  /\ NoRequest.product = 0 /\ NoRequest.plan = 0
<1>1. <<>> \in Seq(Statements) /\ Len(<<>>) = 0
  BY Lists
<1> QED BY <1>1 DEF NoRequest, RequestRows

LEMMA NextStatement ==
  ASSUME RequestType, NEW t \in Windows, NEW op, Now(t, op)
  PROVE  /\ request[t].todo \in Seq(Statements) /\ Len(request[t].todo) \in Nat \ {0}
         /\ request[t].todo # <<>>
         /\ request[t].todo[1] \in Statements /\ request[t].todo[1].op = op
         /\ Arg(t) = request[t].todo[1]
<1> DEFINE q == request[t].todo
<1>1. q \in Seq(Statements) /\ q # <<>>
  BY DEF RequestType, RequestRows, Now
<1> HIDE DEF q
<1>2. Len(q) \in Nat \ {0} /\ Head(q) = q[1] /\ q[1] \in Statements
  BY <1>1, Rest
<1>3. Head(q).op = op /\ Arg(t) = Head(q)
  BY DEF Now, Arg, q
<1> QED BY <1>1, <1>2, <1>3 DEF q

\* One request moves on to its next statement.
MovesOn(t, i, j) ==
  /\ request' \in [Windows -> RequestRows]
  /\ \A u \in Windows \ {t} : request'[u] = request[u]
  /\ Len(request'[t].todo) = Len(request[t].todo) - 1
  /\ \A k \in 1 .. Len(request'[t].todo) :
       k + 1 \in 1 .. Len(request[t].todo) /\ request'[t].todo[k] = request[t].todo[k + 1]
  /\ \/ request'[t] = NoRequest
     \/ request'[t].product = i /\ request'[t].plan = j

LEMMA ProceedForm ==
  ASSUME RequestType, NEW t \in Windows, request[t].todo # <<>>,
         NEW i \in Nat, NEW j \in Nat, Proceed(t, i, j)
  PROVE  MovesOn(t, i, j)
<1> DEFINE q == request[t].todo
<1>1. q \in Seq(Statements) /\ q # <<>>
  BY DEF RequestType, RequestRows
<1>2. request' = [request EXCEPT ![t] = IF Len(q) = 1 THEN NoRequest ELSE [todo |-> Tail(q), product |-> i, plan |-> j]]
  BY DEF Proceed
<1> HIDE DEF q
<1>3. /\ Len(q) \in Nat \ {0} /\ Tail(q) \in Seq(Statements) /\ Len(Tail(q)) = Len(q) - 1
      /\ \A k \in 1 .. Len(Tail(q)) : Tail(q)[k] = q[k + 1]
  BY <1>1, Rest
<1>4. CASE Len(q) = 1
  <2>1. request' = [request EXCEPT ![t] = NoRequest]
    BY <1>2, <1>4
  <2>2. request' \in [Windows -> RequestRows] /\ request'[t] = NoRequest /\ \A u \in Windows \ {t} : request'[u] = request[u]
    BY <2>1, IdleRequest DEF RequestType
  <2> QED BY <1>4, <2>2, IdleRequest DEF MovesOn, q
<1>5. CASE Len(q) # 1
  <2> DEFINE r == [todo |-> Tail(q), product |-> i, plan |-> j]
  <2>1. request' = [request EXCEPT ![t] = r]
    BY <1>2, <1>5
  <2>2. r \in RequestRows /\ r.todo = Tail(q) /\ r.product = i /\ r.plan = j
    BY <1>3 DEF RequestRows
  <2> HIDE DEF r
  <2>3. request' \in [Windows -> RequestRows] /\ request'[t] = r /\ \A u \in Windows \ {t} : request'[u] = request[u]
    BY <2>1, <2>2 DEF RequestType
  <2>4. \A k \in 1 .. Len(Tail(q)) : k + 1 \in 1 .. Len(q)
    BY <1>3
  <2> QED BY <1>3, <2>2, <2>3, <2>4 DEF MovesOn, q
<1> QED BY <1>4, <1>5

\* The request ends.
Ends(t) ==
  /\ request' \in [Windows -> RequestRows]
  /\ \A u \in Windows \ {t} : request'[u] = request[u]
  /\ request'[t] = NoRequest

LEMMA AbortForm ==
  ASSUME RequestType, NEW t \in Windows, Abort(t)
  PROVE  Ends(t)
BY IdleRequest DEF RequestType, Abort, Ends

\* Product rows and their plans are never deleted.
Grown ==
  /\ Len(products') \in Nat /\ Len(products) <= Len(products')
  /\ \A i \in 1 .. Len(products) : /\ Len(products'[i].plans) \in Nat
                                   /\ Len(products[i].plans) <= Len(products'[i].plans)

LEMMA PlansTyped ==
  ASSUME ShopType
  PROVE  /\ Len(products) \in Nat
         /\ \A i \in 1 .. Len(products) : /\ products[i] \in ProductRows
                                          /\ products[i].plans \in Seq(PlanInfo)
                                          /\ Len(products[i].plans) \in Nat
<1>1. Len(products) \in Nat
  BY DEF ShopType
<1>2. ASSUME NEW i \in 1 .. Len(products)
      PROVE  products[i] \in ProductRows
  BY <1>2, ElementOfSeq DEF ShopType
<1>3. ASSUME NEW i \in 1 .. Len(products)
      PROVE  products[i].plans \in Seq(PlanInfo)
  BY <1>2, <1>3 DEF ProductRows
<1> QED BY <1>1, <1>2, <1>3

LEMMA AimedIdle ==
  ASSUME ShopType, NEW t \in Windows, request'[t] = NoRequest, Len(products') \in Nat
  PROVE  Aimed(t)'
<1>1. \A op : ~Pending(t, op)'
  BY IdleRequest DEF Pending
<1> QED BY <1>1, IdleRequest DEF Aimed

LEMMA AimedKept ==
  ASSUME ShopType, Grown, NEW u \in Windows, request'[u] = request[u], Aimed(u)
  PROVE  Aimed(u)'
<1>1. \A op : Pending(u, op)' <=> Pending(u, op)
  BY DEF Pending
<1>2. request[u].product \in 0 .. Len(products')
  BY PlansTyped DEF Aimed, Grown
<1>3. request[u].product # 0 => request[u].plan \in 0 .. Len(products'[request[u].product].plans)
  <2> DEFINE i == request[u].product
  <2>1. i # 0 => i \in 1 .. Len(products) /\ request[u].plan \in 0 .. Len(products[i].plans)
    BY PlansTyped DEF Aimed
  <2>2. i \in 1 .. Len(products) => /\ Len(products[i].plans) <= Len(products'[i].plans)
                                    /\ Len(products[i].plans) \in Nat /\ Len(products'[i].plans) \in Nat
    BY PlansTyped DEF Grown
  <2> HIDE DEF i
  <2>3. i # 0 => request[u].plan \in 0 .. Len(products'[i].plans)
    BY <2>1, <2>2
  <2> QED BY <2>3 DEF i
<1>4. request[u].product = 0 => request[u].plan = 0
  BY DEF Aimed
<1> QED BY <1>1, <1>2, <1>3, <1>4 DEF Aimed

\* What is pending after a statement was pending before it.
LEMMA PendingLater ==
  ASSUME NEW t \in Windows, NEW i, NEW j, MovesOn(t, i, j), Aimed(t), request[t].todo \in Seq(Statements),
         Len(request[t].todo) \in Nat \ {0}, NEW op, Pending(t, op)'
  PROVE  /\ Pending(t, op) /\ op # request[t].todo[1].op
         /\ request'[t] # NoRequest /\ request'[t].product = i /\ request'[t].plan = j
<1>1. PICK k \in 1 .. Len(request'[t].todo) : request'[t].todo[k].op = op
  BY DEF Pending
<1>2. k + 1 \in 1 .. Len(request[t].todo) /\ request'[t].todo[k] = request[t].todo[k + 1]
  BY <1>1 DEF MovesOn
<1>3. Pending(t, op)
  BY <1>1, <1>2 DEF Pending
<1>4. request[t].todo[1].op = request[t].todo[k + 1].op => 1 = k + 1
  BY <1>2 DEF Aimed
<1>5. op # request[t].todo[1].op
  BY <1>1, <1>2, <1>4
<1>6. request'[t] # NoRequest
  BY <1>1, IdleRequest
<1> QED BY <1>3, <1>5, <1>6 DEF MovesOn

\* A request that is past its statement is about rows that exist.
LEMMA AimedOn ==
  ASSUME ShopType, RequestType, NEW t \in Windows, Aimed(t), Len(request[t].todo) \in Nat \ {0},
         NEW i \in 0 .. Len(products'), NEW j \in Nat, MovesOn(t, i, j), Len(products') \in Nat,
         IF i = 0 THEN j = 0 ELSE j \in 0 .. Len(products'[i].plans),
         \A op \in ProductOps : Pending(t, op) /\ op # request[t].todo[1].op => i # 0,
         \A op \in PlanOps : Pending(t, op) /\ op # request[t].todo[1].op => j # 0,
         Pending(t, "product") /\ request[t].todo[1].op # "product" => i = 0
  PROVE  Aimed(t)'
<1>0. request[t].todo \in Seq(Statements)
  BY DEF RequestType, RequestRows
<1>1. CASE request'[t] = NoRequest
  BY <1>1, AimedIdle
<1>2. CASE request'[t].product = i /\ request'[t].plan = j /\ request'[t] # NoRequest
  <2>1. \A op : Pending(t, op)' => Pending(t, op) /\ op # request[t].todo[1].op
    BY <1>0, PendingLater
  <2>2. \A k, l \in 1 .. Len(request'[t].todo) : request'[t].todo[k].op = request'[t].todo[l].op => k = l
    <3>1. SUFFICES ASSUME NEW k \in 1 .. Len(request'[t].todo), NEW l \in 1 .. Len(request'[t].todo),
                          request'[t].todo[k].op = request'[t].todo[l].op
                   PROVE  k = l
      OBVIOUS
    <3>2. /\ k + 1 \in 1 .. Len(request[t].todo) /\ request'[t].todo[k] = request[t].todo[k + 1]
          /\ l + 1 \in 1 .. Len(request[t].todo) /\ request'[t].todo[l] = request[t].todo[l + 1]
      BY DEF MovesOn
    <3>3. k + 1 = l + 1
      BY <3>1, <3>2 DEF Aimed
    <3> QED BY <3>3
  <2>3. \A op \in ProductOps : Pending(t, op)' => i # 0
    BY <2>1
  <2>4. \A op \in PlanOps : Pending(t, op)' => j # 0
    BY <2>1
  <2>5. Pending(t, "product")' => i = 0 /\ \A op \in PlanOps : ~Pending(t, op)'
    <3>1. ASSUME Pending(t, "product")' PROVE i = 0 /\ \A op \in PlanOps : ~Pending(t, op)'
      <4>1. Pending(t, "product") /\ request[t].todo[1].op # "product"
        BY <2>1, <3>1
      <4>2. \A op \in PlanOps : ~Pending(t, op)
        BY <4>1 DEF Aimed
      <4> QED BY <2>1, <4>1, <4>2
    <3> QED BY <3>1
  <2> QED BY <1>2, <2>2, <2>3, <2>4, <2>5 DEF Aimed
<1> QED BY <1>1, <1>2 DEF MovesOn

LEMMA GoForm ==
  ASSUME ShopType, RequestType, AimInv, NEW t \in Windows, NEW op, Now(t, op), op \notin {"product", "plan"},
         Go(t), Grown
  PROVE  MovesOn(t, request[t].product, request[t].plan) /\ AimInv'
<1>1. PICK i, j : i = request[t].product /\ j = request[t].plan
  OBVIOUS
<1>2. i \in Nat /\ j \in Nat /\ request[t].todo # <<>> /\ Len(request[t].todo) \in Nat \ {0} /\ request[t].todo[1].op = op
  BY <1>1, NextStatement DEF RequestType, RequestRows
<1>3. MovesOn(t, i, j)
  BY <1>1, <1>2, ProceedForm DEF Go
<1>4. Aimed(t)
  BY DEF AimInv
<1>5. i \in 0 .. Len(products') /\ Len(products') \in Nat
  BY <1>1, <1>4, PlansTyped DEF Aimed, Grown
<1>6. IF i = 0 THEN j = 0 ELSE j \in 0 .. Len(products'[i].plans)
  <2>1. i = 0 => j = 0
    BY <1>1, <1>4 DEF Aimed
  <2>2. i # 0 => i \in 1 .. Len(products) /\ j \in 0 .. Len(products[i].plans)
    BY <1>1, <1>4, PlansTyped DEF Aimed
  <2>3. i \in 1 .. Len(products) => /\ Len(products[i].plans) <= Len(products'[i].plans)
                                    /\ Len(products[i].plans) \in Nat /\ Len(products'[i].plans) \in Nat
    BY PlansTyped DEF Grown
  <2> QED BY <2>1, <2>2, <2>3
<1>7. \A p \in ProductOps : Pending(t, p) => i # 0
  BY <1>1, <1>2, <1>4 DEF Aimed
<1>8. \A p \in PlanOps : Pending(t, p) => j # 0
  BY <1>1, <1>2, <1>4 DEF Aimed
<1>9. Pending(t, "product") => i = 0
  BY <1>1, <1>4 DEF Aimed
<1>10. Aimed(t)'
  BY <1>2, <1>3, <1>4, <1>5, <1>6, <1>7, <1>8, <1>9, AimedOn
<1>11. ASSUME NEW u \in Windows, u # t PROVE Aimed(u)'
  BY <1>3, <1>11, AimedKept DEF MovesOn, AimInv
<1> QED BY <1>1, <1>3, <1>10, <1>11 DEF AimInv

\* The next statement is about a product, or a plan, that exists.
LEMMA AimedAt ==
  ASSUME ShopType, RequestType, AimInv, NEW t \in Windows, NEW op, Now(t, op)
  PROVE  /\ op \in ProductOps => request[t].product \in 1 .. Len(products)
         /\ op \in PlanOps => /\ request[t].product \in 1 .. Len(products)
                              /\ request[t].plan \in 1 .. Len(products[request[t].product].plans)
<1>1. request[t].todo[1].op = op /\ Len(request[t].todo) \in Nat \ {0}
  BY NextStatement
<1>2. Pending(t, op)
  BY <1>1 DEF Pending
<1>3. Aimed(t)
  BY DEF AimInv
<1>4. op \in ProductOps => request[t].product \in 1 .. Len(products)
  <2>1. op \in ProductOps => request[t].product # 0
    BY <1>1, <1>2, <1>3 DEF Aimed, ProductOps
  <2> QED BY <1>3, <2>1, PlansTyped DEF Aimed
<1>5. op \in PlanOps => op \in ProductOps
  BY DEF PlanOps, ProductOps
<1>6. op \in PlanOps => request[t].plan \in 1 .. Len(products[request[t].product].plans)
  <2>1. op \in PlanOps => request[t].plan # 0
    BY <1>1, <1>2, <1>3 DEF Aimed, PlanOps
  <2>2. op \in PlanOps => request[t].plan \in 0 .. Len(products[request[t].product].plans)
    BY <1>3, <1>4, <1>5 DEF Aimed
  <2> QED BY <1>4, <1>5, <2>1, <2>2, PlansTyped
<1> QED BY <1>4, <1>5, <1>6

Bit(b) == IF b THEN 1 ELSE 0

\* A product row is saved.
LEMMA ProductSaved ==
  ASSUME ShopType, NEW i \in 1 .. Len(products), NEW r \in ProductRows, products' = [products EXCEPT ![i] = r]
  PROVE  /\ products' \in Seq(ProductRows) /\ Len(products') = Len(products) /\ products'[i] = r
         /\ \A k \in 1 .. Len(products) : k # i => products'[k] = products[k]
BY ExceptSeq DEF ShopType

\* One of its plans is saved.
LEMMA PlanSaved ==
  ASSUME ShopType, NEW i \in 1 .. Len(products), NEW j \in 1 .. Len(products[i].plans), NEW p \in PlanInfo,
         products' = [products EXCEPT ![i].plans[j] = p]
  PROVE  /\ products' \in Seq(ProductRows) /\ Len(products') = Len(products)
         /\ Len(products'[i].plans) = Len(products[i].plans) /\ products'[i].plans[j] = p
         /\ \A l \in 1 .. Len(products[i].plans) : l # j => products'[i].plans[l] = products[i].plans[l]
         /\ \A k \in 1 .. Len(products) : k # i => products'[k] = products[k]
<1> DEFINE s == [products[i].plans EXCEPT ![j] = p]
           r == [products[i] EXCEPT !.plans = s]
<1>1. products[i] \in ProductRows /\ products[i].plans \in Seq(PlanInfo)
  BY PlansTyped
<1>2. /\ s \in Seq(PlanInfo) /\ Len(s) = Len(products[i].plans)
      /\ \A l \in 1 .. Len(products[i].plans) : s[l] = IF l = j THEN p ELSE products[i].plans[l]
  BY <1>1, ExceptSeq
<1>3. products' = [products EXCEPT ![i] = r]
  BY <1>1 DEF ProductRows
<1> HIDE DEF s
<1>4. r \in ProductRows /\ r.plans = s
  BY <1>1, <1>2 DEF ProductRows
<1> HIDE DEF r
<1>5. /\ products' \in Seq(ProductRows) /\ Len(products') = Len(products) /\ products'[i] = r
      /\ \A k \in 1 .. Len(products) : k # i => products'[k] = products[k]
  BY <1>3, <1>4, ProductSaved
<1> QED BY <1>2, <1>4, <1>5

\* Save a product: no row is added, and one deliverable at most.
SavedAs(t, op) ==
  /\ products' \in Seq(ProductRows) /\ Len(products') = Len(products)
  /\ \A k \in 1 .. Len(products) :
       /\ Len(products'[k].plans) = Len(products[k].plans)
       /\ \A l \in 1 .. Len(products[k].plans) :
            products'[k].plans[l].deliverables =
              products[k].plans[l].deliverables
                + Bit(op = "deliverable" /\ k = request[t].product /\ l = request[t].plan)

LEMMA SaveProductForm ==
  ASSUME ShopType, RequestType, AimInv, NEW t \in Windows, SaveProduct(t)
  PROVE  \E op : Now(t, op) /\ op \notin {"product", "plan", "block", "entitlement", "coupon", "profile"} /\ SavedAs(t, op)
<1>1. PICK i, j : i = request[t].product /\ j = request[t].plan
  OBVIOUS
<1>2. ASSUME NEW op, Now(t, op), op \in ProductOps, op # "deliverable", NEW r \in ProductRows,
             products' = [products EXCEPT ![i] = r], r.plans = products[i].plans
      PROVE  SavedAs(t, op)
  <2>1. i \in 1 .. Len(products)
    BY <1>1, <1>2, AimedAt
  <2>2. /\ products' \in Seq(ProductRows) /\ Len(products') = Len(products) /\ products'[i] = r
        /\ \A k \in 1 .. Len(products) : k # i => products'[k] = products[k]
    BY <1>2, <2>1, ProductSaved
  <2>3. \A k \in 1 .. Len(products) : products'[k].plans = products[k].plans
    BY <1>2, <2>2
  <2>4. \A k \in 1 .. Len(products) : \A l \in 1 .. Len(products[k].plans) : products[k].plans[l].deliverables \in Nat
    <3>1. ASSUME NEW k \in 1 .. Len(products), NEW l \in 1 .. Len(products[k].plans)
          PROVE  products[k].plans[l] \in PlanInfo
      BY <3>1, PlansTyped, ElementOfSeq
    <3> QED BY <3>1 DEF PlanInfo
  <2> QED BY <1>2, <2>2, <2>3, <2>4 DEF SavedAs, Bit
<1>3. ASSUME NEW op, Now(t, op), op \in PlanOps, NEW p \in PlanInfo,
             products' = [products EXCEPT ![i].plans[j] = p],
             p.deliverables = products[i].plans[j].deliverables + Bit(op = "deliverable")
      PROVE  SavedAs(t, op)
  <2>1. i \in 1 .. Len(products) /\ j \in 1 .. Len(products[i].plans)
    BY <1>1, <1>3, AimedAt
  <2>2. /\ products' \in Seq(ProductRows) /\ Len(products') = Len(products)
        /\ Len(products'[i].plans) = Len(products[i].plans) /\ products'[i].plans[j] = p
        /\ \A l \in 1 .. Len(products[i].plans) : l # j => products'[i].plans[l] = products[i].plans[l]
        /\ \A k \in 1 .. Len(products) : k # i => products'[k] = products[k]
    BY <1>3, <2>1, PlanSaved
  <2>3. \A k \in 1 .. Len(products) : \A l \in 1 .. Len(products[k].plans) : products[k].plans[l].deliverables \in Nat
    <3>1. ASSUME NEW k \in 1 .. Len(products), NEW l \in 1 .. Len(products[k].plans)
          PROVE  products[k].plans[l] \in PlanInfo
      BY <3>1, PlansTyped, ElementOfSeq
    <3> QED BY <3>1 DEF PlanInfo
  <2>4. ASSUME NEW k \in 1 .. Len(products)
        PROVE  /\ Len(products'[k].plans) = Len(products[k].plans)
               /\ \A l \in 1 .. Len(products[k].plans) :
                    products'[k].plans[l].deliverables =
                      products[k].plans[l].deliverables + Bit(op = "deliverable" /\ k = i /\ l = j)
    <3>1. CASE k # i
      BY <2>2, <2>3, <2>4, <3>1 DEF Bit
    <3>2. CASE k = i
      <4>1. ASSUME NEW l \in 1 .. Len(products[k].plans), l # j
            PROVE  products'[k].plans[l].deliverables = products[k].plans[l].deliverables + Bit(op = "deliverable" /\ k = i /\ l = j)
        BY <2>2, <2>3, <2>4, <3>2, <4>1 DEF Bit
      <4>2. products'[k].plans[j].deliverables = products[k].plans[j].deliverables + Bit(op = "deliverable")
        BY <1>3, <2>2, <3>2
      <4> QED BY <2>2, <3>2, <4>1, <4>2 DEF Bit
    <3> QED BY <3>1, <3>2
  <2> QED BY <1>1, <2>2, <2>4 DEF SavedAs
<1>4. ASSUME NEW op, Now(t, op) PROVE Arg(t) \in Statements /\ Arg(t).op = op
  BY <1>4, NextStatement
<1>5. i \in 1 .. Len(products) => products[i] \in ProductRows
  BY PlansTyped
<1>6. i \in 1 .. Len(products) /\ j \in 1 .. Len(products[i].plans) => products[i].plans[j] \in PlanInfo
  BY PlansTyped, ElementOfSeq
<1>7. CASE Now(t, "product_row")
           /\ products' = [products EXCEPT ![i].type = Arg(t).type, ![i].visibility = Arg(t).visibility]
  <2> DEFINE op == "product_row"
             r == [products[i] EXCEPT !.type = Arg(t).type, !.visibility = Arg(t).visibility]
  <2>1. Arg(t).type \in AllTypes /\ Arg(t).visibility \in {"draft", "public"}
    BY <1>4, <1>7, StatementFields
  <2>2. i \in 1 .. Len(products)
    BY <1>1, <1>7, AimedAt DEF ProductOps
  <2>3. r \in ProductRows /\ r.plans = products[i].plans
    BY <1>5, <2>1, <2>2 DEF ProductRows
  <2>4. products' = [products EXCEPT ![i] = r]
    BY <1>5, <1>7, <2>2 DEF ProductRows
  <2>5. Now(t, op) /\ op \in ProductOps /\ op # "deliverable" /\ op \notin {"product", "plan", "block", "entitlement", "coupon", "profile"}
    BY <1>7 DEF ProductOps
  <2> HIDE DEF op, r
  <2> QED BY <1>2, <2>3, <2>4, <2>5
<1>8. CASE Now(t, "product_draft") /\ products' = [products EXCEPT ![i].visibility = "draft"]
  <2> DEFINE op == "product_draft"
             r == [products[i] EXCEPT !.visibility = "draft"]
  <2>2. i \in 1 .. Len(products)
    BY <1>1, <1>8, AimedAt DEF ProductOps
  <2>3. r \in ProductRows /\ r.plans = products[i].plans
    BY <1>5, <2>2 DEF ProductRows
  <2>4. products' = [products EXCEPT ![i] = r]
    BY <1>5, <1>8, <2>2 DEF ProductRows
  <2>5. Now(t, op) /\ op \in ProductOps /\ op # "deliverable" /\ op \notin {"product", "plan", "block", "entitlement", "coupon", "profile"}
    BY <1>8 DEF ProductOps
  <2> HIDE DEF op, r
  <2> QED BY <1>2, <2>3, <2>4, <2>5
<1>9. CASE Now(t, "ask") /\ products' = [products EXCEPT ![i].questions = @ \cup {Arg(t).question}]
  <2> DEFINE op == "ask"
             r == [products[i] EXCEPT !.questions = products[i].questions \cup {Arg(t).question}]
  <2>1. Arg(t).question \in Questions
    BY <1>4, <1>9, StatementFields
  <2>2. i \in 1 .. Len(products)
    BY <1>1, <1>9, AimedAt DEF ProductOps
  <2>3. r \in ProductRows /\ r.plans = products[i].plans
    BY <1>5, <2>1, <2>2 DEF ProductRows
  <2>4. products' = [products EXCEPT ![i] = r]
    BY <1>5, <1>9, <2>2 DEF ProductRows
  <2>5. Now(t, op) /\ op \in ProductOps /\ op # "deliverable" /\ op \notin {"product", "plan", "block", "entitlement", "coupon", "profile"}
    BY <1>9 DEF ProductOps
  <2> HIDE DEF op, r
  <2> QED BY <1>2, <2>3, <2>4, <2>5
<1>10. CASE Now(t, "unask") /\ products' = [products EXCEPT ![i].questions = @ \ {Arg(t).question}]
  <2> DEFINE op == "unask"
             r == [products[i] EXCEPT !.questions = products[i].questions \ {Arg(t).question}]
  <2>2. i \in 1 .. Len(products)
    BY <1>1, <1>10, AimedAt DEF ProductOps
  <2>3. r \in ProductRows /\ r.plans = products[i].plans
    BY <1>5, <2>2 DEF ProductRows
  <2>4. products' = [products EXCEPT ![i] = r]
    BY <1>5, <1>10, <2>2 DEF ProductRows
  <2>5. Now(t, op) /\ op \in ProductOps /\ op # "deliverable" /\ op \notin {"product", "plan", "block", "entitlement", "coupon", "profile"}
    BY <1>10 DEF ProductOps
  <2> HIDE DEF op, r
  <2> QED BY <1>2, <2>3, <2>4, <2>5
<1>11. CASE Now(t, "deliverable") /\ products' = [products EXCEPT ![i].plans[j].deliverables = @ + 1]
  <2> DEFINE op == "deliverable"
             p == [products[i].plans[j] EXCEPT !.deliverables = products[i].plans[j].deliverables + 1]
  <2>2. i \in 1 .. Len(products) /\ j \in 1 .. Len(products[i].plans)
    BY <1>1, <1>11, AimedAt DEF PlanOps
  <2>3. p \in PlanInfo /\ p.deliverables = products[i].plans[j].deliverables + Bit(op = "deliverable")
    BY <1>6, <2>2 DEF PlanInfo, Bit
  <2>4. products' = [products EXCEPT ![i].plans[j] = p]
    BY <1>11
  <2>5. Now(t, op) /\ op \in PlanOps /\ op \notin {"product", "plan", "block", "entitlement", "coupon", "profile"}
    BY <1>11 DEF PlanOps
  <2> HIDE DEF op, p
  <2> QED BY <1>3, <2>3, <2>4, <2>5
<1>12. CASE Now(t, "attach") /\ products' = [products EXCEPT ![i].plans[j].entitlements = @ \cup {Arg(t).ent}]
  <2> DEFINE op == "attach"
             p == [products[i].plans[j] EXCEPT !.entitlements = products[i].plans[j].entitlements \cup {Arg(t).ent}]
  <2>1. Arg(t).ent \in Nat
    BY <1>4, <1>12, StatementFields
  <2>2. i \in 1 .. Len(products) /\ j \in 1 .. Len(products[i].plans)
    BY <1>1, <1>12, AimedAt DEF PlanOps
  <2>3. p \in PlanInfo /\ p.deliverables = products[i].plans[j].deliverables + Bit(op = "deliverable")
    BY <1>6, <2>1, <2>2 DEF PlanInfo, Bit
  <2>4. products' = [products EXCEPT ![i].plans[j] = p]
    BY <1>12
  <2>5. Now(t, op) /\ op \in PlanOps /\ op \notin {"product", "plan", "block", "entitlement", "coupon", "profile"}
    BY <1>12 DEF PlanOps
  <2> HIDE DEF op, p
  <2> QED BY <1>3, <2>3, <2>4, <2>5
<1>13. CASE Now(t, "detach") /\ products' = [products EXCEPT ![i].plans[j].entitlements = @ \ {Arg(t).ent}]
  <2> DEFINE op == "detach"
             p == [products[i].plans[j] EXCEPT !.entitlements = products[i].plans[j].entitlements \ {Arg(t).ent}]
  <2>2. i \in 1 .. Len(products) /\ j \in 1 .. Len(products[i].plans)
    BY <1>1, <1>13, AimedAt DEF PlanOps
  <2>3. p \in PlanInfo /\ p.deliverables = products[i].plans[j].deliverables + Bit(op = "deliverable")
    BY <1>6, <2>2 DEF PlanInfo, Bit
  <2>4. products' = [products EXCEPT ![i].plans[j] = p]
    BY <1>13
  <2>5. Now(t, op) /\ op \in PlanOps /\ op \notin {"product", "plan", "block", "entitlement", "coupon", "profile"}
    BY <1>13 DEF PlanOps
  <2> HIDE DEF op, p
  <2> QED BY <1>3, <2>3, <2>4, <2>5
<1> QED BY <1>1, <1>7, <1>8, <1>9, <1>10, <1>11, <1>12, <1>13 DEF SaveProduct

\* What every step keeps.
ShopBase == SalesType /\ ShopType /\ RequestType /\ AimInv

LEMMA ProductsKept ==
  ASSUME ShopType, products' = products
  PROVE  Grown
BY PlansTyped DEF Grown

\* Statement op of request t is executed, about the rows the request is about.
Executes(t, op) ==
  /\ Now(t, op) /\ op \notin {"product", "plan", "entitlement"}
  /\ MovesOn(t, request[t].product, request[t].plan)

LEMMA ProfileStep ==
  ASSUME ShopBase, NEW t \in Windows, SaveProfile(t)
  PROVE  /\ ShopBase' /\ UNCHANGED <<session, products, plan, coupon, orders, buyer, tops, page, blocks, ents>>
         /\ \E op \in {"create_profile", "profile", "step", "completed"} : Executes(t, op)
<1> USE DEF ShopBase
<1>1. UNCHANGED <<session, products, plan, coupon, orders, buyer, tops, page, blocks, ents, begun>> /\ Go(t)
  BY DEF SaveProfile, salesvars
<1>2. Grown
  BY <1>1, ProductsKept
<1>3. PICK op \in {"create_profile", "profile", "step", "completed"} : Now(t, op)
  BY DEF SaveProfile
<1>4. MovesOn(t, request[t].product, request[t].plan) /\ AimInv'
  BY <1>1, <1>2, <1>3, GoForm
<1>5. profile' \in Profiles
  <2>1. profile \in Profiles /\ NoProfile \in Profiles
    BY DEF ShopType, Profiles, NoProfile
  <2>2. CASE profile' = IF profile.exists THEN profile ELSE [NoProfile EXCEPT !.exists = TRUE]
    BY <2>1, <2>2 DEF Profiles
  <2>3. CASE Now(t, "profile") /\ profile' = Arg(t).row
    BY <2>3, NextStatement, StatementFields
  <2>4. CASE Now(t, "step") /\ profile' = [profile EXCEPT !.step = Arg(t).step]
    <3>1. Arg(t).step \in {"product", "publish"}
      BY <2>4, NextStatement, StatementFields
    <3> QED BY <2>1, <2>4, <3>1 DEF Profiles
  <2>5. CASE profile' = [profile EXCEPT !.completed = TRUE]
    BY <2>1, <2>5 DEF Profiles
  <2> QED BY <2>2, <2>3, <2>4, <2>5 DEF SaveProfile
<1>6. ShopType' /\ SalesType' /\ RequestType'
  BY <1>1, <1>4, <1>5 DEF ShopType, SalesType, RequestType, MovesOn
<1> QED BY <1>1, <1>3, <1>4, <1>6 DEF Executes

LEMMA PageStep ==
  ASSUME ShopBase, NEW t \in Windows, SavePage(t)
  PROVE  /\ ShopBase' /\ UNCHANGED <<session, products, plan, coupon, orders, buyer, tops, profile, blocks, ents>>
         /\ Executes(t, "page")
<1> USE DEF ShopBase
<1> DEFINE op == "page"
<1>1. UNCHANGED <<session, products, plan, coupon, orders, buyer, tops, profile, blocks, ents, begun>> /\ Go(t)
  BY DEF SavePage, salesvars
<1>2. Grown
  BY <1>1, ProductsKept
<1>3. Now(t, op) /\ op \notin {"product", "plan", "entitlement"}
  BY DEF SavePage
<1>4. page' \in BOOLEAN
  <2>1. page' = Arg(t).is_published
    BY DEF SavePage
  <2> QED BY <1>3, <2>1, NextStatement, StatementFields
<1> HIDE DEF op
<1>5. MovesOn(t, request[t].product, request[t].plan) /\ AimInv'
  BY <1>1, <1>2, <1>3, GoForm
<1>6. ShopType' /\ SalesType' /\ RequestType'
  BY <1>1, <1>4, <1>5 DEF ShopType, SalesType, RequestType, MovesOn
<1>7. Executes(t, op)
  BY <1>3, <1>5 DEF Executes
<1> QED BY <1>1, <1>5, <1>6, <1>7 DEF op

\* No block comes back or changes its product; one is added by the statement "block".
BlocksAfter(t, op) ==
  \A k \in 1 .. Len(blocks') :
    \/ /\ k \in 1 .. Len(blocks) /\ blocks'[k].product = blocks[k].product
       /\ ~blocks'[k].deleted => ~blocks[k].deleted
    \/ op = "block" /\ k = Len(blocks) + 1 /\ blocks'[k].product = request[t].product

LEMMA BlockSaved ==
  ASSUME ShopType, NEW k \in Nat, NEW r \in BlockRows,
         blocks' = [blocks EXCEPT ![k] = r], 
         k \in 1 .. Len(blocks) => r.product = blocks[k].product /\ (~r.deleted => ~blocks[k].deleted),
         NEW t, NEW op
  PROVE  blocks' \in Seq(BlockRows) /\ BlocksAfter(t, op)
<1>0. blocks \in Seq(BlockRows) /\ Len(blocks) \in Nat /\ DOMAIN blocks = 1 .. Len(blocks)
  BY DEF ShopType
<1>1. CASE k \in 1 .. Len(blocks)
  <2>1. /\ blocks' \in Seq(BlockRows) /\ Len(blocks') = Len(blocks)
        /\ \A l \in 1 .. Len(blocks) : blocks'[l] = IF l = k THEN r ELSE blocks[l]
    BY <1>0, <1>1, ExceptSeq
  <2> QED BY <2>1, <1>1 DEF BlocksAfter
<1>2. CASE k \notin 1 .. Len(blocks)
  <2>1. blocks' = blocks
    BY <1>0, <1>2
  <2> QED BY <1>0, <2>1 DEF BlocksAfter
<1> QED BY <1>1, <1>2

LEMMA BlockStep ==
  ASSUME ShopBase, NEW t \in Windows, SaveBlock(t)
  PROVE  /\ ShopBase' /\ UNCHANGED <<session, products, plan, coupon, orders, buyer, tops, profile, page, ents>>
         /\ \E op \in {"block", "block_delete", "block_show"} : Executes(t, op) /\ BlocksAfter(t, op)
<1> USE DEF ShopBase
<1>1. UNCHANGED <<session, products, plan, coupon, orders, buyer, tops, profile, page, ents, begun>> /\ Go(t)
  BY DEF SaveBlock, salesvars
<1>2. Grown
  BY <1>1, ProductsKept
<1>3. ASSUME NEW op \in {"block", "block_delete", "block_show"}, Now(t, op), BlocksAfter(t, op),
             blocks' \in Seq(BlockRows)
      PROVE  /\ ShopBase'
             /\ \E p \in {"block", "block_delete", "block_show"} : Executes(t, p) /\ BlocksAfter(t, p)
  <2>1. MovesOn(t, request[t].product, request[t].plan) /\ AimInv'
    BY <1>1, <1>2, <1>3, GoForm
  <2>2. ShopType' /\ SalesType' /\ RequestType'
    BY <1>1, <1>3, <2>1 DEF ShopType, SalesType, RequestType, MovesOn
  <2>3. Executes(t, op)
    BY <1>3, <2>1 DEF Executes
  <2> QED BY <1>3, <2>1, <2>2, <2>3
<1>4. blocks \in Seq(BlockRows) /\ Len(blocks) \in Nat
  BY DEF ShopType
<1>5. \A k \in 1 .. Len(blocks) : blocks[k] \in BlockRows
  BY <1>4, ElementOfSeq
<1>6. CASE Now(t, "block") /\ blocks' = Append(blocks, [product |-> request[t].product, is_visible |-> TRUE,
                                                        deleted |-> FALSE])
  <2> DEFINE op == "block"
             r == [product |-> request[t].product, is_visible |-> TRUE, deleted |-> FALSE]
  <2>1. r \in BlockRows /\ r.product = request[t].product
    BY DEF BlockRows, RequestType, RequestRows
  <2>2. op \in {"block", "block_delete", "block_show"} /\ Now(t, op) /\ op = "block"
    BY <1>6
  <2>3. blocks' = Append(blocks, r)
    BY <1>6
  <2> HIDE DEF r, op
  <2>4. /\ blocks' \in Seq(BlockRows) /\ Len(blocks') = Len(blocks) + 1 /\ blocks'[Len(blocks) + 1] = r
        /\ \A k \in 1 .. Len(blocks) : blocks'[k] = blocks[k]
    BY <1>4, <2>1, <2>3, AppendProperties
  <2>5. BlocksAfter(t, op)
    BY <1>4, <2>1, <2>2, <2>4 DEF BlocksAfter
  <2> QED BY <1>1, <1>3, <2>2, <2>4, <2>5
<1>7. CASE Now(t, "block_delete") /\ blocks' = [blocks EXCEPT ![Arg(t).block].deleted = TRUE]
  <2> DEFINE op == "block_delete"
             k == Arg(t).block
  <2>1. op \in {"block", "block_delete", "block_show"} /\ Now(t, op)
    BY <1>7
  <2>2. k \in Nat
    BY <1>7, NextStatement, StatementFields
  <2>3. blocks' = [blocks EXCEPT ![k].deleted = TRUE]
    BY <1>7
  <2> HIDE DEF op, k
  <2>4. CASE k \in 1 .. Len(blocks)
    <3> DEFINE r == [blocks[k] EXCEPT !.deleted = TRUE]
    <3>1. r \in BlockRows /\ r.product = blocks[k].product /\ r.deleted
      BY <1>5, <2>4 DEF BlockRows
    <3>2. blocks' = [blocks EXCEPT ![k] = r]
      BY <2>3
    <3> HIDE DEF r
    <3> QED BY <1>1, <1>3, <2>1, <2>2, <3>1, <3>2, BlockSaved
  <2>5. CASE k \notin 1 .. Len(blocks)
    <3>1. blocks' = blocks
      BY <1>4, <2>3, <2>5
    <3> QED BY <1>1, <1>3, <1>4, <2>1, <3>1 DEF BlocksAfter
  <2> QED BY <2>4, <2>5
<1>8. CASE /\ Now(t, "block_show")
           /\ blocks' = IF blocks[Arg(t).block].deleted THEN blocks
                        ELSE [blocks EXCEPT ![Arg(t).block].is_visible = Arg(t).is_visible]
  <2> DEFINE op == "block_show"
             k == Arg(t).block
             v == Arg(t).is_visible
  <2>1. op \in {"block", "block_delete", "block_show"} /\ Now(t, op)
    BY <1>8
  <2>2. k \in Nat /\ v \in BOOLEAN
    BY <1>8, NextStatement, StatementFields
  <2>3. blocks' = blocks \/ blocks' = [blocks EXCEPT ![k].is_visible = v]
    BY <1>8
  <2> HIDE DEF op, k, v
  <2>4. CASE k \in 1 .. Len(blocks) /\ blocks' = [blocks EXCEPT ![k].is_visible = v]
    <3> DEFINE r == [blocks[k] EXCEPT !.is_visible = v]
    <3>1. r \in BlockRows /\ r.product = blocks[k].product /\ r.deleted = blocks[k].deleted
      BY <1>5, <2>2, <2>4 DEF BlockRows
    <3>2. blocks' = [blocks EXCEPT ![k] = r]
      BY <2>4
    <3> HIDE DEF r
    <3> QED BY <1>1, <1>3, <2>1, <2>2, <3>1, <3>2, BlockSaved
  <2>5. CASE k \notin 1 .. Len(blocks) \/ blocks' = blocks
    <3>1. blocks' = blocks
      BY <1>4, <2>3, <2>5
    <3> QED BY <1>1, <1>3, <1>4, <2>1, <3>1 DEF BlocksAfter
  <2> QED BY <2>3, <2>4, <2>5
<1> QED BY <1>1, <1>6, <1>7, <1>8 DEF SaveBlock

LEMMA SaveProductStep ==
  ASSUME ShopBase, NEW t \in Windows, SaveProduct(t)
  PROVE  /\ ShopBase' /\ UNCHANGED <<session, plan, coupon, orders, buyer, tops, profile, page, blocks, ents>>
         /\ \E op : op \notin {"block", "coupon", "profile"} /\ Executes(t, op) /\ SavedAs(t, op)
<1> USE DEF ShopBase
<1>1. UNCHANGED <<session, plan, coupon, orders, buyer, tops, profile, page, blocks, ents, begun>> /\ Go(t)
  BY DEF SaveProduct
<1>2. PICK op : /\ Now(t, op) /\ op \notin {"product", "plan", "block", "entitlement", "coupon", "profile"}
                /\ SavedAs(t, op)
  BY SaveProductForm
<1>3. Grown
  BY <1>2, PlansTyped DEF Grown, SavedAs
<1>4. MovesOn(t, request[t].product, request[t].plan) /\ AimInv'
  BY <1>1, <1>2, <1>3, GoForm
<1>5. ShopType' /\ SalesType' /\ RequestType'
  BY <1>1, <1>2, <1>4 DEF ShopType, SalesType, RequestType, MovesOn, SavedAs
<1> QED BY <1>1, <1>2, <1>4, <1>5 DEF Executes

\* A product is inserted, or the request ends because its slug is taken.
ProductAdded ==
  /\ Len(products') = Len(products) + 1 /\ products'[Len(products) + 1].plans = <<>>
  /\ \A k \in 1 .. Len(products) : products'[k] = products[k]

LEMMA InsertProductStep ==
  ASSUME ShopBase, NEW t \in Windows, InsertProduct(t)
  PROVE  /\ ShopBase' /\ UNCHANGED <<session, plan, coupon, orders, buyer, tops, profile, page, blocks, ents>>
         /\ Now(t, "product")
         /\ \/ Ends(t) /\ UNCHANGED products
            \/ /\ ProductAdded /\ MovesOn(t, Len(products) + 1, 0)
               /\ products'[Len(products) + 1] = request[t].todo[1].row
<1> USE DEF ShopBase
<1> DEFINE op == "product"
<1>1. UNCHANGED <<session, plan, coupon, orders, buyer, tops, profile, page, blocks, ents, begun>>
  BY DEF InsertProduct
<1>2. Now(t, op) /\ op = "product"
  BY DEF InsertProduct
<1>3. \/ Abort(t) /\ UNCHANGED products
      \/ Proceed(t, Len(products) + 1, 0) /\ products' = Append(products, Arg(t).row)
  BY DEF InsertProduct
<1> HIDE DEF op
<1>4. CASE Abort(t) /\ UNCHANGED products
  <2>1. Ends(t)
    BY <1>4, AbortForm
  <2>2. Grown /\ Len(products') \in Nat
    BY <1>4, ProductsKept, PlansTyped
  <2>3. Aimed(t)'
    BY <2>1, <2>2, AimedIdle DEF Ends
  <2>4. ASSUME NEW u \in Windows, u # t PROVE Aimed(u)'
    BY <2>1, <2>2, <2>4, AimedKept DEF Ends, AimInv
  <2>5. AimInv'
    BY <2>3, <2>4 DEF AimInv
  <2>6. ShopType' /\ SalesType' /\ RequestType'
    BY <1>1, <1>4, <2>1 DEF ShopType, SalesType, RequestType, Ends
  <2> QED BY <1>1, <1>2, <1>4, <2>1, <2>5, <2>6
<1>5. CASE Proceed(t, Len(products) + 1, 0) /\ products' = Append(products, Arg(t).row)
  <2>1. PICK i, j : i = Len(products) + 1 /\ j = 0
    OBVIOUS
  <2>2. /\ Arg(t).row \in ProductRows /\ Arg(t).row.plans = <<>> /\ Arg(t) = request[t].todo[1]
        /\ request[t].todo # <<>> /\ request[t].todo[1].op = "product" /\ Len(request[t].todo) \in Nat \ {0}
    BY <1>2, NextStatement, StatementFields
  <2>3. products \in Seq(ProductRows) /\ Len(products) \in Nat
    BY DEF ShopType
  <2>4. /\ products' \in Seq(ProductRows) /\ Len(products') = Len(products) + 1
        /\ products'[Len(products) + 1] = Arg(t).row
        /\ \A k \in 1 .. Len(products) : products'[k] = products[k]
    BY <1>5, <2>2, <2>3, AppendProperties
  <2>5. ProductAdded
    BY <2>2, <2>4 DEF ProductAdded
  <2>6. Grown
    BY <2>3, <2>4, PlansTyped DEF Grown
  <2>7. MovesOn(t, i, j)
    BY <1>5, <2>1, <2>2, <2>3, ProceedForm
  <2>8. Aimed(t)
    BY DEF AimInv
  <2>9. Pending(t, "product")
    BY <2>2 DEF Pending
  <2>10. \A p \in PlanOps : ~Pending(t, p)
    BY <2>8, <2>9 DEF Aimed
  <2>11. products'[i].plans = <<>> /\ Len(products'[i].plans) = 0
    BY <2>1, <2>5, Lists DEF ProductAdded
  <2>12. /\ i \in 0 .. Len(products') /\ j \in Nat /\ i # 0 /\ Len(products') \in Nat
         /\ IF i = 0 THEN j = 0 ELSE j \in 0 .. Len(products'[i].plans)
    BY <2>1, <2>3, <2>4, <2>11
  <2>13. Aimed(t)'
    BY <2>2, <2>7, <2>8, <2>10, <2>12, AimedOn
  <2>14. ASSUME NEW u \in Windows, u # t PROVE Aimed(u)'
    BY <2>6, <2>7, <2>14, AimedKept DEF MovesOn, AimInv
  <2>15. AimInv'
    BY <2>13, <2>14 DEF AimInv
  <2>16. ShopType' /\ SalesType' /\ RequestType'
    BY <1>1, <2>4, <2>7 DEF ShopType, SalesType, RequestType, MovesOn
  <2> QED BY <1>1, <1>2, <2>1, <2>2, <2>4, <2>5, <2>7, <2>15, <2>16
<1> QED BY <1>3, <1>4, <1>5

\* A plan is added to product i.
PlanAdded(i) ==
  /\ Len(products') = Len(products)
  /\ \A k \in 1 .. Len(products) : k # i => products'[k] = products[k]
  /\ products'[i].visibility = products[i].visibility
  /\ Len(products'[i].plans) = Len(products[i].plans) + 1
  /\ products'[i].plans[Len(products[i].plans) + 1].deliverables = 0
  /\ \A l \in 1 .. Len(products[i].plans) : products'[i].plans[l] = products[i].plans[l]

LEMMA InsertPlanStep ==
  ASSUME ShopBase, NEW t \in Windows, InsertPlan(t)
  PROVE  /\ ShopBase' /\ UNCHANGED <<session, plan, coupon, orders, buyer, tops, profile, page, blocks, ents>>
         /\ Now(t, "plan") /\ request[t].product \in 1 .. Len(products) /\ PlanAdded(request[t].product)
         /\ MovesOn(t, request[t].product, Len(products[request[t].product].plans) + 1)
<1> USE DEF ShopBase
<1> DEFINE op == "plan"
<1>1. UNCHANGED <<session, plan, coupon, orders, buyer, tops, profile, page, blocks, ents, begun>>
  BY DEF InsertPlan
<1>2. Now(t, op) /\ op = "plan"
  BY DEF InsertPlan
<1>3. PICK i, j : i = request[t].product /\ j = Len(products[i].plans) + 1
  OBVIOUS
<1>4. products' = [products EXCEPT ![i].plans = Append(@, NewPlan)] /\ Proceed(t, i, j)
  BY <1>3 DEF InsertPlan
<1>5. i \in 1 .. Len(products)
  BY <1>2, <1>3, AimedAt DEF ProductOps
<1> HIDE DEF op
<1>6. products[i] \in ProductRows /\ products[i].plans \in Seq(PlanInfo) /\ Len(products[i].plans) \in Nat /\ j \in Nat
  BY <1>3, <1>5, PlansTyped
<1> DEFINE s == Append(products[i].plans, NewPlan)
           r == [products[i] EXCEPT !.plans = s]
<1>7. NewPlan \in PlanInfo /\ NewPlan.deliverables = 0
  BY DEF NewPlan, PlanInfo
<1>8. /\ s \in Seq(PlanInfo) /\ Len(s) = Len(products[i].plans) + 1 /\ s[Len(products[i].plans) + 1] = NewPlan
      /\ \A l \in 1 .. Len(products[i].plans) : s[l] = products[i].plans[l]
  BY <1>6, <1>7, AppendProperties
<1>9. products' = [products EXCEPT ![i] = r]
  BY <1>4, <1>6 DEF ProductRows
<1> HIDE DEF s
<1>10. r \in ProductRows /\ r.plans = s /\ r.visibility = products[i].visibility
  BY <1>6, <1>8 DEF ProductRows
<1> HIDE DEF r
<1>11. /\ products' \in Seq(ProductRows) /\ Len(products') = Len(products) /\ products'[i] = r
       /\ \A k \in 1 .. Len(products) : k # i => products'[k] = products[k]
  BY <1>5, <1>9, <1>10, ProductSaved
<1>12. PlanAdded(i)
  BY <1>7, <1>8, <1>10, <1>11 DEF PlanAdded
<1>13. Grown
  <2>1. ASSUME NEW k \in 1 .. Len(products)
        PROVE  Len(products'[k].plans) \in Nat /\ Len(products[k].plans) <= Len(products'[k].plans)
    BY <1>6, <1>12, <2>1, PlansTyped DEF PlanAdded
  <2> QED BY <1>11, <2>1, PlansTyped DEF Grown
<1>14. request[t].todo # <<>> /\ request[t].todo[1].op = "plan" /\ Len(request[t].todo) \in Nat \ {0}
  BY <1>2, NextStatement
<1>15. MovesOn(t, i, j)
  BY <1>4, <1>5, <1>6, <1>14, ProceedForm
<1>16. Aimed(t)
  BY DEF AimInv
<1>17. Pending(t, "product") => FALSE
  BY <1>3, <1>5, <1>16 DEF Aimed
<1>18. /\ i \in 0 .. Len(products') /\ i # 0 /\ j # 0 /\ Len(products') \in Nat
       /\ IF i = 0 THEN j = 0 ELSE j \in 0 .. Len(products'[i].plans)
  BY <1>3, <1>5, <1>6, <1>11, <1>12, PlansTyped DEF PlanAdded
<1>19. Aimed(t)'
  BY <1>6, <1>14, <1>15, <1>16, <1>17, <1>18, AimedOn
<1>20. ASSUME NEW u \in Windows, u # t PROVE Aimed(u)'
  BY <1>13, <1>15, <1>20, AimedKept DEF MovesOn, AimInv
<1>21. AimInv'
  BY <1>19, <1>20 DEF AimInv
<1>22. ShopType' /\ SalesType' /\ RequestType'
  BY <1>1, <1>11, <1>15 DEF ShopType, SalesType, RequestType, MovesOn
<1> QED BY <1>1, <1>2, <1>3, <1>5, <1>12, <1>15, <1>21, <1>22

\* An entitlement is inserted; attaching it is what is left to do.
LEMMA InsertEntitlementStep ==
  ASSUME ShopBase, NEW t \in Windows, InsertEntitlement(t)
  PROVE  /\ ShopBase' /\ UNCHANGED <<session, products, plan, coupon, orders, buyer, tops, profile, page, blocks>>
         /\ Now(t, "entitlement") /\ ents' = ents + 1
         /\ \A u \in Windows \ {t} : request'[u] = request[u]
         /\ Len(request'[t].todo) = 1 /\ request'[t].todo[1].op = "attach"
<1> USE DEF ShopBase
<1> DEFINE op == "entitlement"
           x == [op |-> "attach", ent |-> ents + 1]
<1>1. UNCHANGED <<session, products, plan, coupon, orders, buyer, tops, profile, page, blocks, begun>>
  BY DEF InsertEntitlement, salesvars
<1>2. Now(t, op) /\ op = "entitlement" /\ ents' = ents + 1
  BY DEF InsertEntitlement
<1>3. request' = [request EXCEPT ![t].todo = <<x>>]
  BY DEF InsertEntitlement
<1>4. x \in Statements /\ x.op = "attach"
  BY DEF Statements, ShopType
<1>5. PICK i, j : i = request[t].product /\ j = request[t].plan
  OBVIOUS
<1>6. i \in 1 .. Len(products) /\ j \in 1 .. Len(products[i].plans)
  BY <1>2, <1>5, AimedAt DEF PlanOps
<1> HIDE DEF op, x
<1> DEFINE q == <<x>>
           r == [todo |-> q, product |-> i, plan |-> j]
<1>7. q \in Seq(Statements) /\ Len(q) = 1 /\ q[1] = x
  BY <1>4, Lists
<1>8. request[t] \in RequestRows /\ request \in [Windows -> RequestRows]
  BY DEF RequestType
<1> HIDE DEF q
<1>9. request' = [request EXCEPT ![t] = r]
  <2>1. request' = [request EXCEPT ![t].todo = q]
    BY <1>3 DEF q
  <2>2. [request[t] EXCEPT !.todo = q] = r
    BY <1>5, <1>8 DEF RequestRows
  <2> QED BY <1>8, <2>1, <2>2
<1>10. i \in Nat /\ j \in Nat
  BY <1>5, <1>8 DEF RequestRows
<1>11. r \in RequestRows /\ r.todo = q /\ r.product = i /\ r.plan = j
  BY <1>7, <1>10 DEF RequestRows
<1> HIDE DEF r
<1>12. request' \in [Windows -> RequestRows] /\ request'[t] = r /\ \A u \in Windows \ {t} : request'[u] = request[u]
  BY <1>8, <1>9, <1>11
<1>13. Grown
  BY <1>1, ProductsKept
<1>14. Aimed(t)'
  <2>1. \A p : Pending(t, p)' => p = "attach"
    BY <1>4, <1>7, <1>11, <1>12 DEF Pending
  <2>2. \A k, l \in 1 .. Len(request'[t].todo) : k = l
    <3>1. request'[t].todo = q
      BY <1>11, <1>12
    <3>2. \A k, l \in 1 .. Len(q) : k = l
      BY <1>7
    <3> QED BY <3>1, <3>2
  <2>3. i \in 0 .. Len(products') /\ j \in 0 .. Len(products'[i].plans) /\ i # 0 /\ j # 0
    BY <1>1, <1>6, PlansTyped
  <2> QED BY <1>11, <1>12, <2>1, <2>2, <2>3 DEF Aimed
<1>15. ASSUME NEW u \in Windows, u # t PROVE Aimed(u)'
  BY <1>12, <1>13, <1>15, AimedKept DEF AimInv
<1>16. AimInv'
  BY <1>14, <1>15 DEF AimInv
<1>17. ShopType' /\ SalesType' /\ RequestType'
  BY <1>1, <1>2, <1>12 DEF ShopType, SalesType, RequestType
<1> QED BY <1>1, <1>2, <1>4, <1>7, <1>11, <1>12, <1>16, <1>17

LEMMA PlanFacts ==
  ASSUME CatalogOK, NEW p \in PlanSet
  PROVE  PlanOK(p) /\ StockTop(p) \in Nat
<1>1. PlanOK(p)
  BY DEF PlanSet, CatalogOK, SalesOK
<1> QED BY <1>1 DEF PlanOK, StockTop, Unlimited

\* The plan that is sold is edited.
LEMMA PlanStep ==
  ASSUME CatalogOK, ShopBase, NEW t \in Windows, SavePlan(t)
  PROVE  /\ ShopBase' /\ UNCHANGED <<session, products, coupon, orders, buyer, profile, page, blocks, ents>>
         /\ Executes(t, "plan_row")
         /\ tops'.limit = tops.limit /\ tops'.lost = tops.lost
         /\ tops'.stock >= tops.stock /\ tops'.stock >= StockTop(plan')
<1> USE DEF ShopBase
<1> DEFINE op == "plan_row"
<1>1. UNCHANGED <<session, products, coupon, orders, buyer, profile, page, blocks, ents, begun>> /\ Go(t)
  BY DEF SavePlan
<1>2. Now(t, op) /\ op \notin {"product", "plan", "entitlement"}
  BY DEF SavePlan
<1>3. Arg(t).row \in PlanSet
  BY <1>2, NextStatement, StatementFields
<1>4. PICK row \in PlanSet : plan' = row /\ tops' = [tops EXCEPT !.stock = Most(tops.stock, StockTop(row))]
  <2>1. plan \in PlanSet
    BY DEF SalesType
  <2>2. CASE request[t].product = 1 /\ request[t].plan = 1
    BY <1>3, <2>2 DEF SavePlan
  <2>3. CASE ~(request[t].product = 1 /\ request[t].plan = 1)
    BY <2>1, <2>3 DEF SavePlan
  <2> QED BY <2>2, <2>3
<1>5. StockTop(row) \in Nat /\ tops.stock \in Nat
  BY PlanFacts DEF SalesType
<1>6. PICK m : m = Most(tops.stock, StockTop(row))
  OBVIOUS
<1>7. m \in Nat /\ m >= tops.stock /\ m >= StockTop(row)
  BY <1>5, <1>6, MostOf
<1>8. /\ tops' \in [stock : Nat, limit : Nat, lost : Nat]
      /\ tops'.stock = m /\ tops'.limit = tops.limit /\ tops'.lost = tops.lost
  BY <1>4, <1>6, <1>7 DEF SalesType
<1> HIDE DEF op
<1>9. Grown
  BY <1>1, ProductsKept
<1>10. MovesOn(t, request[t].product, request[t].plan) /\ AimInv'
  BY <1>1, <1>2, <1>9, GoForm
<1>11. ShopType' /\ SalesType' /\ RequestType'
  BY <1>1, <1>4, <1>8, <1>10 DEF ShopType, SalesType, RequestType, MovesOn
<1>12. Executes(t, op)
  BY <1>2, <1>10 DEF Executes
<1> QED BY <1>1, <1>4, <1>7, <1>8, <1>10, <1>11, <1>12 DEF op

\* The voucher is edited, or switched on or off.
CouponSaved(t) ==
  \/ /\ Executes(t, "coupon") /\ coupon' = request[t].todo[1].row
     /\ tops'.limit >= tops.limit /\ tops'.limit >= LimitTop(coupon')
     /\ tops'.lost >= tops.lost /\ tops'.lost >= tops.lost + (coupon.used_count - coupon'.used_count)
  \/ /\ Executes(t, "coupon_active") /\ tops' = tops
     /\ coupon'.used_count = coupon.used_count /\ coupon'.usage_limit = coupon.usage_limit

LEMMA CouponStep ==
  ASSUME CatalogOK, ShopBase, NEW t \in Windows, SaveCoupon(t)
  PROVE  /\ ShopBase' /\ UNCHANGED <<session, products, plan, orders, buyer, profile, page, blocks, ents>>
         /\ CouponSaved(t) /\ tops'.stock = tops.stock
<1> USE DEF ShopBase
<1>1. UNCHANGED <<session, products, plan, orders, buyer, profile, page, blocks, ents, begun>> /\ Go(t)
  BY DEF SaveCoupon
<1>2. Grown
  BY <1>1, ProductsKept
<1>3. ASSUME NEW op, Now(t, op), op \notin {"product", "plan", "entitlement"}, coupon' \in CouponRows,
             tops' \in [stock : Nat, limit : Nat, lost : Nat]
      PROVE  Executes(t, op) /\ ShopBase'
  <2>1. MovesOn(t, request[t].product, request[t].plan) /\ AimInv'
    BY <1>1, <1>2, <1>3, GoForm
  <2>2. ShopType' /\ SalesType' /\ RequestType'
    BY <1>1, <1>3, <2>1 DEF ShopType, SalesType, RequestType, MovesOn
  <2> QED BY <1>3, <2>1, <2>2 DEF Executes
<1>4. coupon \in CouponRows /\ tops \in [stock : Nat, limit : Nat, lost : Nat]
  BY DEF SalesType
<1>5. CASE /\ Now(t, "coupon")
           /\ coupon' = Arg(t).row
           /\ tops' = [tops EXCEPT !.limit = Most(@, LimitTop(coupon')),
                                   !.lost = @ + Most(0, coupon.used_count - coupon'.used_count)]
  <2> DEFINE op == "coupon"
  <2>1. Now(t, op) /\ op \notin {"product", "plan", "entitlement"}
    BY <1>5
  <2>2. Arg(t) = request[t].todo[1] /\ Arg(t).row \in CouponRows
    BY <1>5, NextStatement, StatementFields
  <2> HIDE DEF op
  <2>3. coupon' \in CouponRows
    BY <1>5, <2>2
  <2>4. LimitTop(coupon') \in Nat /\ coupon'.used_count \in Nat /\ coupon.used_count \in Nat
    BY <1>4, <2>3 DEF LimitTop, CouponRows, Unlimited
  <2>5. PICK m, n : m = Most(tops.limit, LimitTop(coupon')) /\ n = Most(0, coupon.used_count - coupon'.used_count)
    OBVIOUS
  <2>6. m \in Nat /\ m >= tops.limit /\ m >= LimitTop(coupon')
    BY <1>4, <2>4, <2>5, MostOf
  <2>7. n \in Nat /\ n >= coupon.used_count - coupon'.used_count
    BY <2>4, <2>5, MostOf
  <2>8. PICK w \in Nat : w = tops.lost + n /\ tops' = [tops EXCEPT !.limit = m, !.lost = w]
    <3>1. tops.lost + n \in Nat
      BY <1>4, <2>7
    <3> QED BY <1>5, <2>5, <3>1
  <2>9. /\ tops' \in [stock : Nat, limit : Nat, lost : Nat]
        /\ tops'.stock = tops.stock /\ tops'.limit = m /\ tops'.lost = tops.lost + n
    <3>1. /\ tops' \in [stock : Nat, limit : Nat, lost : Nat]
          /\ tops'.stock = tops.stock /\ tops'.limit = m /\ tops'.lost = w
      BY <1>4, <2>6, <2>8
    <3> QED BY <2>8, <3>1
  <2>10. Executes(t, op) /\ ShopBase'
    BY <1>3, <2>1, <2>3, <2>9
  <2>11. tops'.lost >= tops.lost /\ tops'.lost >= tops.lost + (coupon.used_count - coupon'.used_count)
    BY <1>4, <2>4, <2>7, <2>9
  <2>12. CouponSaved(t)
    BY <1>5, <2>2, <2>6, <2>9, <2>10, <2>11 DEF CouponSaved, op
  <2> QED BY <1>1, <2>9, <2>10, <2>12
<1>6. CASE /\ Now(t, "coupon_active")
           /\ coupon' = [coupon EXCEPT !.is_active = Arg(t).is_active]
           /\ UNCHANGED tops
  <2> DEFINE op == "coupon_active"
  <2>1. Now(t, op) /\ op \notin {"product", "plan", "entitlement"}
    BY <1>6
  <2>2. Arg(t).is_active \in BOOLEAN
    BY <1>6, NextStatement, StatementFields
  <2> HIDE DEF op
  <2>3. /\ coupon' \in CouponRows
        /\ coupon'.used_count = coupon.used_count /\ coupon'.usage_limit = coupon.usage_limit
    BY <1>4, <1>6, <2>2 DEF CouponRows
  <2>4. Executes(t, op) /\ ShopBase'
    BY <1>3, <1>4, <1>6, <2>1, <2>3
  <2>5. CouponSaved(t)
    BY <1>6, <2>3, <2>4 DEF CouponSaved, op
  <2> QED BY <1>1, <1>6, <2>4, <2>5
<1> QED BY <1>5, <1>6 DEF SaveCoupon

\* A request begins with its statements, or is answered at once.
LEMMA BegunStep ==
  ASSUME ShopBase, NEW t \in Windows, NEW q, NEW i, NEW j, Begins(t, q, i, j), Legal(q, i, j)
  PROVE  /\ ShopBase'
         /\ \A u \in Windows \ {t} : request'[u] = request[u]
         /\ \/ request'[t] = NoRequest
            \/ request'[t].todo = q /\ request'[t].product = i /\ request'[t].plan = j
<1> USE DEF ShopBase
<1>0. UNCHANGED <<session, products, plan, coupon, orders, buyer, tops, profile, page, blocks, ents>> /\ begun' = begun + 1
  BY DEF Begins
<1>1. q \in Seq(Statements) /\ i \in Nat /\ j \in Nat /\ Len(products) \in Nat
  BY PlansTyped DEF Legal
<1>2. Grown
  BY <1>0, ProductsKept
<1>3. request \in [Windows -> RequestRows]
  BY DEF RequestType
<1>4. CASE q = <<>>
  <2>1. request' = [request EXCEPT ![t] = NoRequest]
    BY <1>4 DEF Begins
  <2>2. request' \in [Windows -> RequestRows] /\ request'[t] = NoRequest /\ \A u \in Windows \ {t} : request'[u] = request[u]
    BY <1>3, <2>1, IdleRequest
  <2>3. Aimed(t)'
    BY <1>0, <1>1, <2>2, AimedIdle
  <2>4. ASSUME NEW u \in Windows, u # t PROVE Aimed(u)'
    BY <1>2, <2>2, <2>4, AimedKept DEF AimInv
  <2>5. AimInv'
    BY <2>3, <2>4 DEF AimInv
  <2>6. ShopType' /\ SalesType' /\ RequestType'
    BY <1>0, <2>2 DEF ShopType, SalesType, RequestType
  <2> QED BY <2>2, <2>5, <2>6
<1>5. CASE q # <<>>
  <2> DEFINE r == [todo |-> q, product |-> i, plan |-> j]
  <2>1. request' = [request EXCEPT ![t] = r]
    BY <1>5 DEF Begins
  <2>2. r \in RequestRows /\ r.todo = q /\ r.product = i /\ r.plan = j
    BY <1>1 DEF RequestRows
  <2> HIDE DEF r
  <2>3. request' \in [Windows -> RequestRows] /\ request'[t] = r /\ \A u \in Windows \ {t} : request'[u] = request[u]
    BY <1>3, <2>1, <2>2
  <2>4. request'[t].todo = q /\ request'[t].product = i /\ request'[t].plan = j
    BY <2>2, <2>3
  <2>5. \A op : Pending(t, op)' => \E k \in 1 .. Len(q) : q[k].op = op
    BY <2>4 DEF Pending
  <2>6. \A k \in 1 .. Len(q) : Suits(q, i, j, k)
    BY DEF Legal
  <2>7. \A op \in ProductOps : Pending(t, op)' => i # 0 \/ q[1].op = "product"
    BY <2>5, <2>6 DEF Suits
  <2>8. \A op \in PlanOps : Pending(t, op)' => j # 0 \/ q[1].op = "plan"
    BY <2>5, <2>6 DEF Suits
  <2>9. Pending(t, "product")' => i = 0 /\ \A op \in PlanOps : ~Pending(t, op)'
    <3>1. ASSUME Pending(t, "product")'
          PROVE  i = 0 /\ \A l \in 1 .. Len(q) : q[l].op \notin PlanOps
      BY <2>5, <2>6, <3>1 DEF Suits
    <3> QED BY <2>5, <3>1
  <2>10. /\ i \in 0 .. Len(products') /\ (IF i = 0 THEN j = 0 ELSE j \in 0 .. Len(products'[i].plans))
         /\ \A k, l \in 1 .. Len(q) : q[k].op = q[l].op => k = l
    BY <1>0 DEF Legal
  <2>11. Aimed(t)'
    BY <2>4, <2>7, <2>8, <2>9, <2>10 DEF Aimed
  <2>12. ASSUME NEW u \in Windows, u # t PROVE Aimed(u)'
    BY <1>2, <2>3, <2>12, AimedKept DEF AimInv
  <2>13. AimInv'
    BY <2>11, <2>12 DEF AimInv
  <2>14. ShopType' /\ SalesType' /\ RequestType'
    BY <1>0, <2>3 DEF ShopType, SalesType, RequestType
  <2> QED BY <2>3, <2>4, <2>13, <2>14
<1> QED BY <1>4, <1>5

LEMMA CrashStep ==
  ASSUME ShopBase, NEW t \in Windows, WorkerDies(t)
  PROVE  /\ ShopBase' /\ Ends(t)
         /\ UNCHANGED <<session, products, plan, coupon, orders, buyer, tops, profile, page, blocks, ents>>
<1> USE DEF ShopBase
<1>1. UNCHANGED <<session, products, plan, coupon, orders, buyer, tops, profile, page, blocks, ents, begun>> /\ Abort(t)
  BY DEF WorkerDies, salesvars
<1>2. Ends(t)
  BY <1>1, AbortForm
<1>3. Grown /\ Len(products') \in Nat
  BY <1>1, ProductsKept, PlansTyped
<1>4. Aimed(t)'
  BY <1>2, <1>3, AimedIdle DEF Ends
<1>5. ASSUME NEW u \in Windows, u # t PROVE Aimed(u)'
  BY <1>2, <1>3, <1>5, AimedKept DEF Ends, AimInv
<1>6. AimInv'
  BY <1>4, <1>5 DEF AimInv
<1>7. ShopType' /\ SalesType' /\ RequestType'
  BY <1>1, <1>2 DEF ShopType, SalesType, RequestType, Ends
<1> QED BY <1>1, <1>2, <1>6, <1>7

\* The seller's rows and requests stay as they are.
ShopKept == UNCHANGED <<session, products, page, blocks, ents, request, begun>>

LEMMA ShopKeptAim ==
  ASSUME AimInv, ShopKept
  PROVE  AimInv'
<1>1. \A t, op : Pending(t, op)' <=> Pending(t, op)
  BY DEF Pending, ShopKept
<1>2. ASSUME NEW t \in Windows PROVE Aimed(t)'
  BY <1>1 DEF AimInv, Aimed, ShopKept
<1> QED BY <1>2 DEF AimInv

LEMMA SuspendStep ==
  ASSUME ShopBase, Suspend
  PROVE  /\ ShopBase' /\ ShopKept /\ UNCHANGED <<plan, coupon, orders, buyer, tops>>
         /\ profile' = [profile EXCEPT !.is_approved = FALSE]
<1> USE DEF ShopBase
<1>1. /\ ShopKept /\ UNCHANGED <<plan, coupon, orders, buyer, tops>>
      /\ profile' = [profile EXCEPT !.is_approved = FALSE]
  BY DEF Suspend, salesvars, ShopKept
<1>2. profile' \in Profiles
  BY <1>1 DEF ShopType, Profiles
<1>3. ShopType' /\ SalesType' /\ RequestType'
  BY <1>1, <1>2 DEF ShopType, SalesType, RequestType, ShopKept
<1> QED BY <1>1, <1>3, ShopKeptAim

-----------------------------------------------------------------------------
(* Buyers *)

Buying == (\E b \in Buyers : Buy(b)) \/ (\E o \in DOMAIN orders : CompletePending(o))

LEMMA RedeemForm ==
  ASSUME coupon \in CouponRows, Redeem
  PROVE  /\ coupon' \in CouponRows /\ coupon'.usage_limit = coupon.usage_limit
         /\ \/ Usable /\ coupon'.used_count = coupon.used_count + 1
            \/ ~Usable /\ coupon' = coupon
<1>1. CASE Usable
  <2>1. coupon' = [coupon EXCEPT !.used_count = coupon.used_count + 1]
    BY <1>1 DEF Redeem
  <2> QED BY <1>1, <2>1 DEF CouponRows
<1>2. CASE ~Usable
  BY <1>2 DEF Redeem
<1> QED BY <1>1, <1>2

LEMMA Appended ==
  ASSUME \E S : orders \in Seq(OrderRows(S)), NEW paid \in BOOLEAN, NEW redeemed, NEW checked \in BOOLEAN, NEW r,
         r = [paid |-> paid, redeemed |-> redeemed, checked |-> checked], orders' = Append(orders, r)
  PROVE  /\ \E S : orders' \in Seq(OrderRows(S))
         /\ Len(orders) \in Nat /\ Len(orders') = Len(orders) + 1 /\ orders'[Len(orders) + 1] = r
         /\ \A o \in 1 .. Len(orders) : orders'[o] = orders[o]
         /\ DOMAIN orders = 1 .. Len(orders) /\ DOMAIN orders' = 1 .. (Len(orders) + 1)
<1>1. PICK S : orders \in Seq(OrderRows(S))
  OBVIOUS
<1>2. PICK T : T = OrderRows(S \cup {redeemed})
  OBVIOUS
<1>3. r \in T /\ OrderRows(S) \subseteq T
  BY <1>2 DEF OrderRows
<1>4. orders \in Seq(T)
  BY <1>1, <1>3
<1>5. Append(orders, r) \in Seq(T) /\ Len(orders) \in Nat /\ DOMAIN orders = 1 .. Len(orders)
  BY <1>3, <1>4, AppendProperties
<1>6. /\ Len(Append(orders, r)) = Len(orders) + 1 /\ Append(orders, r)[Len(orders) + 1] = r
      /\ \A o \in 1 .. Len(orders) : Append(orders, r)[o] = orders[o]
  BY <1>3, <1>4, AppendProperties
<1>7. DOMAIN Append(orders, r) = 1 .. Len(Append(orders, r))
  BY <1>5
<1> QED BY <1>2, <1>5, <1>6, <1>7

\* A pending order is paid: nothing else of it changes.
LEMMA Completed ==
  ASSUME \E S : orders \in Seq(OrderRows(S)), NEW o \in DOMAIN orders, CompletePending(o)
  PROVE  /\ \E S : orders' \in Seq(OrderRows(S))
         /\ Len(orders) \in Nat /\ Len(orders') = Len(orders)
         /\ DOMAIN orders = 1 .. Len(orders) /\ DOMAIN orders' = DOMAIN orders
         /\ \A n \in DOMAIN orders : /\ orders'[n].redeemed = orders[n].redeemed /\ orders'[n].checked = orders[n].checked
                                     /\ n # o => orders'[n].paid = orders[n].paid
         /\ orders'[o].paid = TRUE
<1>1. PICK S : orders \in Seq(OrderRows(S))
  OBVIOUS
<1>2. orders' = [orders EXCEPT ![o].paid = TRUE]
  BY DEF CompletePending
<1>3. o \in 1 .. Len(orders) /\ Len(orders) \in Nat /\ DOMAIN orders = 1 .. Len(orders)
  BY <1>1
<1>4. orders[o] \in OrderRows(S)
  BY <1>1, <1>3, ElementOfSeq
<1> DEFINE r == [orders[o] EXCEPT !.paid = TRUE]
<1>5. r \in OrderRows(S) /\ r.paid = TRUE /\ r.redeemed = orders[o].redeemed /\ r.checked = orders[o].checked
  BY <1>4 DEF OrderRows
<1>6. orders' = [orders EXCEPT ![o] = r]
  BY <1>2
<1> HIDE DEF r
<1>7. /\ orders' \in Seq(OrderRows(S)) /\ Len(orders') = Len(orders)
      /\ \A n \in 1 .. Len(orders) : orders'[n] = IF n = o THEN r ELSE orders[n]
  BY <1>1, <1>3, <1>5, <1>6, ExceptSeq
<1> QED BY <1>3, <1>5, <1>7

\* A buyer's step leaves the seller's rows alone.
LEMMA BuyStep ==
  ASSUME ShopBase, Buying, UNCHANGED <<profile, page, blocks, ents, request, begun>>
  PROVE  ShopBase' /\ ShopKept /\ UNCHANGED <<plan, tops, profile>>
<1> USE DEF ShopBase
<1>1. coupon \in CouponRows /\ DOMAIN buyer = Buyers /\ \E S : orders \in Seq(OrderRows(S))
  BY DEF SalesType
<1>2. ASSUME NEW b \in Buyers, Buy(b)
      PROVE  /\ UNCHANGED <<session, products, plan, tops>>
             /\ coupon' \in CouponRows /\ DOMAIN buyer' = Buyers /\ \E S : orders' \in Seq(OrderRows(S))
  <2>1. CASE \E asked \in session.durations : OpenCart(b, asked) \/ \E code \in BOOLEAN : OpenCheckout(b, asked, code)
    BY <1>1, <2>1 DEF OpenCart, OpenCheckout
  <2>2. CASE \E typed \in session.amounts : SubmitCheckout(b, typed)
    BY <1>1, <2>2 DEF SubmitCheckout
  <2>3. CASE SubmitCart(b) \/ Leave(b)
    BY <1>1, <2>3 DEF SubmitCart, Leave
  <2>4. CASE PayNow(b)
    <3>1. UNCHANGED <<session, products, plan, tops>> /\ DOMAIN buyer' = Buyers
      BY <1>1, <2>4 DEF PayNow
    <3>2. ASSUME orders' = orders PROVE \E S : orders' \in Seq(OrderRows(S))
      BY <1>1, <3>2
    <3>3. ASSUME orders' # orders PROVE \E S : orders' \in Seq(OrderRows(S))
      <4>1. PICK redeemed, checked : redeemed = (buyer[b].due.discount > 0) /\ checked = (buyer[b].pc = "checkout")
        OBVIOUS
      <4>2. checked \in BOOLEAN /\ orders' = Append(orders, [paid |-> TRUE, redeemed |-> redeemed, checked |-> checked])
        BY <2>4, <3>3, <4>1 DEF PayNow
      <4> QED BY <1>1, <4>2, Appended
    <3>4. coupon' \in CouponRows
      BY <1>1, <2>4, RedeemForm DEF PayNow
    <3>5. \E S : orders' \in Seq(OrderRows(S))
      BY <3>2, <3>3
    <3> QED BY <3>1, <3>4, <3>5
  <2>5. CASE PayLater(b)
    <3>1. UNCHANGED <<session, products, plan, tops, coupon>> /\ DOMAIN buyer' = Buyers
      BY <1>1, <2>5 DEF PayLater
    <3>2. PICK redeemed : redeemed = (buyer[b].due.discount > 0)
      OBVIOUS
    <3>3. orders' = Append(orders, [paid |-> FALSE, redeemed |-> redeemed, checked |-> FALSE])
      BY <2>5, <3>2 DEF PayLater
    <3>4. \E S : orders' \in Seq(OrderRows(S))
      BY <1>1, <3>3, Appended
    <3> QED BY <1>1, <3>1, <3>4
  <2> QED BY <1>2, <2>1, <2>2, <2>3, <2>4, <2>5 DEF Buy
<1>3. ASSUME NEW o \in DOMAIN orders, CompletePending(o)
      PROVE  /\ UNCHANGED <<session, products, plan, tops>>
             /\ coupon' \in CouponRows /\ DOMAIN buyer' = Buyers /\ \E S : orders' \in Seq(OrderRows(S))
  <2>1. UNCHANGED <<session, products, plan, tops, buyer>>
    BY <1>3 DEF CompletePending
  <2>2. coupon' \in CouponRows
    BY <1>1, <1>3, RedeemForm DEF CompletePending
  <2>3. \E S : orders' \in Seq(OrderRows(S))
    BY <1>1, <1>3, Completed
  <2> QED BY <1>1, <2>1, <2>2, <2>3
<1>4. /\ UNCHANGED <<session, products, plan, tops>>
      /\ coupon' \in CouponRows /\ DOMAIN buyer' = Buyers /\ \E S : orders' \in Seq(OrderRows(S))
  BY <1>2, <1>3 DEF Buying
<1>5. ShopKept
  BY <1>4 DEF ShopKept
<1>6. ShopType' /\ SalesType' /\ RequestType'
  BY <1>4, <1>5 DEF ShopType, SalesType, RequestType, ShopKept
<1> QED BY <1>4, <1>5, <1>6, ShopKeptAim

\* The statements that insert neither a product, a plan nor an entitlement.
Ordinary(t) ==
  SaveProfile(t) \/ SavePage(t) \/ SaveBlock(t) \/ SaveProduct(t) \/ SavePlan(t) \/ SaveCoupon(t)

LEMMA OrdinaryStep ==
  ASSUME CatalogOK, ShopBase, NEW t \in Windows, Ordinary(t)
  PROVE  /\ ShopBase' /\ ents' = ents
         /\ \E op : Executes(t, op) /\ SavedAs(t, op) /\ BlocksAfter(t, op)
<1> USE DEF ShopBase
<1>1. ASSUME blocks' = blocks PROVE \A op : BlocksAfter(t, op)
  BY <1>1 DEF BlocksAfter
<1>2. ASSUME products' = products, NEW op, op # "deliverable" PROVE SavedAs(t, op)
  <2>1. \A k \in 1 .. Len(products) : \A l \in 1 .. Len(products[k].plans) : products[k].plans[l].deliverables \in Nat
    <3>1. ASSUME NEW k \in 1 .. Len(products), NEW l \in 1 .. Len(products[k].plans)
          PROVE  products[k].plans[l] \in PlanInfo
      BY <3>1, PlansTyped, ElementOfSeq
    <3> QED BY <3>1 DEF PlanInfo
  <2> QED BY <1>2, <2>1 DEF SavedAs, Bit, ShopType
<1>3. CASE SaveProfile(t)
  BY <1>1, <1>2, <1>3, ProfileStep
<1>4. CASE SavePage(t)
  BY <1>1, <1>2, <1>4, PageStep
<1>5. CASE SaveBlock(t)
  BY <1>2, <1>5, BlockStep
<1>6. CASE SaveProduct(t)
  BY <1>1, <1>6, SaveProductStep
<1>7. CASE SavePlan(t)
  BY <1>1, <1>2, <1>7, PlanStep
<1>8. CASE SaveCoupon(t)
  BY <1>1, <1>2, <1>8, CouponStep DEF CouponSaved
<1> QED BY <1>3, <1>4, <1>5, <1>6, <1>7, <1>8 DEF Ordinary

\* A request that executes a statement has one thing less to do.
LEMMA ExecutedPending ==
  ASSUME ShopBase, NEW t \in Windows, NEW op, Executes(t, op)
  PROVE  /\ Pending(t, op)
         /\ \A x : ~(x = op /\ Pending(t, x)')
         /\ \A u \in Windows : \A x : Pending(u, x)' => /\ Pending(u, x)
                                                        /\ request'[u].product = request[u].product
                                                        /\ request'[u].plan = request[u].plan
<1> USE DEF ShopBase
<1>1. /\ Now(t, op) /\ MovesOn(t, request[t].product, request[t].plan)
  BY DEF Executes
<1>2. request[t].todo[1].op = op /\ Len(request[t].todo) \in Nat \ {0} /\ request[t].todo \in Seq(Statements)
  BY <1>1, NextStatement
<1>3. Pending(t, op)
  BY <1>2 DEF Pending
<1>4. Aimed(t)
  BY DEF AimInv
<1>5. \A x : Pending(t, x)' => /\ Pending(t, x) /\ x # op
                               /\ request'[t].product = request[t].product /\ request'[t].plan = request[t].plan
  BY <1>1, <1>2, <1>4, PendingLater
<1>6. ASSUME NEW u \in Windows, u # t, NEW x, Pending(u, x)'
      PROVE  Pending(u, x) /\ request'[u] = request[u]
  BY <1>1, <1>6 DEF MovesOn, Pending
<1> QED BY <1>3, <1>5, <1>6

-----------------------------------------------------------------------------
(* Rows that overlapping requests insert *)

RowsInv == EntsInv /\ BlocksInv /\ DeliverablesInv

LEMMA Fewer ==
  ASSUME NEW W, IsFiniteSet(W), NEW S \in SUBSET W, NEW T \in SUBSET S
  PROVE  Cardinality(S) \in Nat /\ Cardinality(T) \in Nat /\ Cardinality(T) <= Cardinality(S)
<1>1. IsFiniteSet(S)
  BY FS_Subset
<1> QED BY <1>1, FS_Subset, FS_CardinalityType

LEMMA OneFewer ==
  ASSUME NEW W, IsFiniteSet(W), NEW S \in SUBSET W, NEW t \in S, NEW T \in SUBSET (S \ {t})
  PROVE  Cardinality(S) \in Nat /\ Cardinality(T) \in Nat /\ Cardinality(T) + 1 <= Cardinality(S)
<1>1. IsFiniteSet(S)
  BY FS_Subset
<1>2. IsFiniteSet(S \ {t}) /\ Cardinality(S \ {t}) = Cardinality(S) - 1
  BY <1>1, FS_RemoveElement
<1>3. Cardinality(T) <= Cardinality(S \ {t}) /\ IsFiniteSet(T)
  BY <1>2, FS_Subset
<1> QED BY <1>1, <1>2, <1>3, FS_CardinalityType

LEMMA OneMore ==
  ASSUME NEW S, IsFiniteSet(S), NEW a, NEW T \in SUBSET (S \cup {a})
  PROVE  Cardinality(S) \in Nat /\ Cardinality(T) \in Nat /\ Cardinality(T) <= Cardinality(S) + 1
<1>1. IsFiniteSet(S \cup {a}) /\ Cardinality(S \cup {a}) \in {Cardinality(S), Cardinality(S) + 1}
  BY FS_AddElement
<1>2. Cardinality(T) <= Cardinality(S \cup {a}) /\ IsFiniteSet(T)
  BY <1>1, FS_Subset
<1> QED BY <1>1, <1>2, FS_CardinalityType

LEMMA RowsTyped ==
  ASSUME CatalogOK, ShopType
  PROVE  /\ IsFiniteSet(Windows) /\ Cardinality(Windows) \in Nat
         /\ \A i : OnPage(i) \subseteq 1 .. Len(blocks) /\ IsFiniteSet(OnPage(i)) /\ Cardinality(OnPage(i)) \in Nat
         /\ \A i \in 1 .. Len(products) : \A j \in 1 .. Len(products[i].plans) : products[i].plans[j].deliverables \in Nat
<1>1. IsFiniteSet(Windows)
  BY DEF CatalogOK
<1>2. ASSUME NEW i PROVE OnPage(i) \subseteq 1 .. Len(blocks) /\ IsFiniteSet(OnPage(i))
  <2>1. DOMAIN blocks = 1 .. Len(blocks) /\ Len(blocks) \in Nat
    BY DEF ShopType
  <2>2. IsFiniteSet(1 .. Len(blocks))
    BY <2>1, FS_Interval
  <2> QED BY <2>1, <2>2, FS_Subset DEF OnPage
<1>3. ASSUME NEW i \in 1 .. Len(products), NEW j \in 1 .. Len(products[i].plans)
      PROVE  products[i].plans[j].deliverables \in Nat
  <2>1. products[i].plans[j] \in PlanInfo
    BY <1>3, PlansTyped, ElementOfSeq
  <2> QED BY <2>1 DEF PlanInfo
<1> QED BY <1>1, <1>2, <1>3, FS_CardinalityType

\* Requests that neither begin nor insert an entitlement do not disturb the counts.
LEMMA EntsKept ==
  ASSUME CatalogOK, ShopType, EntsInv, ents' = ents,
         \A u \in Windows : Pending(u, "entitlement")' => Pending(u, "entitlement")
  PROVE  EntsInv'
<1>1. Inserting("entitlement")' \subseteq Inserting("entitlement") /\ Inserting("entitlement") \subseteq Windows
  BY DEF Inserting
<1>2. PICK A, B : A = Inserting("entitlement") /\ B = Inserting("entitlement")'
  OBVIOUS
<1>3. Cardinality(B) <= Cardinality(A) /\ Cardinality(A) \in Nat /\ Cardinality(B) \in Nat
  BY <1>1, <1>2, Fewer, RowsTyped
<1>4. ents + Cardinality(B) <= Cardinality(Windows)
  BY <1>2, <1>3, RowsTyped DEF EntsInv, ShopType
<1> QED BY <1>2, <1>4 DEF EntsInv

LEMMA BlocksKept ==
  ASSUME CatalogOK, ShopType, ShopType', BlocksInv, NEW i \in 1 .. Len(products), NEW t, NEW op, BlocksAfter(t, op),
         \A u \in Windows : Pending(u, "block")' /\ request'[u].product = i => Pending(u, "block") /\ request[u].product = i,
         op = "block" /\ request[t].product = i => t \in Windows /\ Pending(t, "block") /\ ~Pending(t, "block")'
  PROVE  Cardinality(OnPage(i)') + Cardinality(AddingTo("block", i)') <= Cardinality(Windows)
<1>1. PICK A, B, P, Q : /\ A = AddingTo("block", i) /\ B = AddingTo("block", i)'
                        /\ P = OnPage(i) /\ Q = OnPage(i)'
  OBVIOUS
<1>2. A \subseteq Windows /\ B \subseteq A /\ (op = "block" /\ request[t].product = i => t \in A /\ B \subseteq A \ {t})
  BY <1>1 DEF AddingTo
<1>3. /\ Cardinality(Windows) \in Nat /\ IsFiniteSet(Windows) /\ IsFiniteSet(P)
      /\ Cardinality(P) + Cardinality(A) <= Cardinality(Windows)
  BY <1>1, RowsTyped DEF BlocksInv
<1>4. Q \subseteq IF op = "block" /\ request[t].product = i THEN P \cup {Len(blocks) + 1} ELSE P
  <2>1. DOMAIN blocks = 1 .. Len(blocks) /\ DOMAIN blocks' = 1 .. Len(blocks')
    BY DEF ShopType
  <2>2. ASSUME NEW k \in Q
        PROVE  k \in P \/ (op = "block" /\ request[t].product = i /\ k = Len(blocks) + 1)
    <3>1. k \in 1 .. Len(blocks') /\ ~blocks'[k].deleted /\ blocks'[k].product = i
      BY <1>1, <2>1, <2>2 DEF OnPage
    <3> QED BY <1>1, <2>1, <3>1 DEF BlocksAfter, OnPage
  <2> QED BY <2>2
<1>5. CASE op = "block" /\ request[t].product = i
  <2>1. Cardinality(Q) <= Cardinality(P) + 1 /\ Cardinality(P) \in Nat /\ Cardinality(Q) \in Nat
    BY <1>3, <1>4, <1>5, OneMore
  <2>2. Cardinality(B) + 1 <= Cardinality(A) /\ Cardinality(A) \in Nat /\ Cardinality(B) \in Nat
    BY <1>2, <1>3, <1>5, OneFewer
  <2> QED BY <1>1, <1>3, <2>1, <2>2
<1>6. CASE ~(op = "block" /\ request[t].product = i)
  <2>1. Cardinality(Q) <= Cardinality(P) /\ Cardinality(P) \in Nat /\ Cardinality(Q) \in Nat
    BY <1>3, <1>4, <1>6, Fewer
  <2>2. Cardinality(B) <= Cardinality(A) /\ Cardinality(A) \in Nat /\ Cardinality(B) \in Nat
    BY <1>2, <1>3, Fewer
  <2> QED BY <1>1, <1>3, <2>1, <2>2
<1> QED BY <1>5, <1>6

LEMMA DeliverablesKept ==
  ASSUME CatalogOK, ShopType, DeliverablesInv, NEW i \in 1 .. Len(products), NEW j \in 1 .. Len(products[i].plans),
         \/ products'[i].plans[j].deliverables = products[i].plans[j].deliverables
         \/ /\ products'[i].plans[j].deliverables = products[i].plans[j].deliverables + 1
            /\ \E t \in Adding("deliverable", i, j) : ~Pending(t, "deliverable")',
         \A u \in Windows : Pending(u, "deliverable")' /\ request'[u].product = i /\ request'[u].plan = j
                              => Pending(u, "deliverable") /\ request[u].product = i /\ request[u].plan = j
  PROVE  products'[i].plans[j].deliverables + Cardinality(Adding("deliverable", i, j)') <= Cardinality(Windows)
<1>1. PICK A, B : A = Adding("deliverable", i, j) /\ B = Adding("deliverable", i, j)'
  OBVIOUS
<1>2. PICK n, m : n = products[i].plans[j].deliverables /\ m = products'[i].plans[j].deliverables
  OBVIOUS
<1>3. A \subseteq Windows /\ B \subseteq A
  BY <1>1 DEF Adding
<1>4. /\ Cardinality(Windows) \in Nat /\ IsFiniteSet(Windows) /\ n \in Nat
      /\ n + Cardinality(A) <= Cardinality(Windows)
  BY <1>1, <1>2, RowsTyped DEF DeliverablesInv
<1>5. CASE m = n + 1 /\ \E t \in Adding("deliverable", i, j) : ~Pending(t, "deliverable")'
  <2>1. PICK t \in A : B \subseteq A \ {t}
    BY <1>1, <1>3, <1>5 DEF Adding
  <2>2. Cardinality(B) + 1 <= Cardinality(A) /\ Cardinality(A) \in Nat /\ Cardinality(B) \in Nat
    BY <1>3, <1>4, <2>1, OneFewer
  <2>3. m + Cardinality(B) <= Cardinality(Windows)
    BY <1>4, <1>5, <2>2
  <2> QED BY <1>1, <1>2, <2>3
<1>6. CASE m = n
  <2>2. Cardinality(B) <= Cardinality(A) /\ Cardinality(A) \in Nat /\ Cardinality(B) \in Nat
    BY <1>3, <1>4, Fewer
  <2> QED BY <1>1, <1>2, <1>4, <1>6, <2>2
<1> QED BY <1>2, <1>5, <1>6

\* A count of zero leaves room for every window.
LEMMA Room ==
  ASSUME CatalogOK, NEW n, n = 0, NEW S \in SUBSET Windows
  PROVE  n + Cardinality(S) <= Cardinality(Windows)
<1>1. IsFiniteSet(Windows)
  BY DEF CatalogOK
<1> QED BY <1>1, Fewer

LEMMA RowsExecuted ==
  ASSUME CatalogOK, ShopBase, ShopBase', RowsInv, NEW t \in Windows, NEW op, Executes(t, op),
         SavedAs(t, op), BlocksAfter(t, op), ents' = ents
  PROVE  RowsInv'
<1> USE DEF ShopBase, RowsInv
<1>1. /\ Pending(t, op) /\ \A x : ~(x = op /\ Pending(t, x)')
      /\ \A u \in Windows : \A x : Pending(u, x)' => /\ Pending(u, x)
                                                     /\ request'[u].product = request[u].product
                                                     /\ request'[u].plan = request[u].plan
  BY ExecutedPending
<1>2. EntsInv'
  BY <1>1, EntsKept
<1>3. \A u \in Windows : \A x : Pending(u, x)' => /\ Pending(u, x)
                                                  /\ request'[u].product = request[u].product
                                                  /\ request'[u].plan = request[u].plan
  BY <1>1
<1>4. Len(products') = Len(products) /\ \A k \in 1 .. Len(products) : Len(products'[k].plans) = Len(products[k].plans)
  BY DEF SavedAs
<1>5. BlocksInv'
  <2>1. ASSUME NEW k \in 1 .. Len(blocks') PROVE blocks'[k].product \in 1 .. Len(products')
    <3>1. CASE op = "block" /\ blocks'[k].product = request[t].product
      BY <1>4, <3>1, AimedAt DEF ProductOps, Executes
    <3>2. CASE k \in 1 .. Len(blocks) /\ blocks'[k].product = blocks[k].product
      BY <1>4, <3>2 DEF BlocksInv
    <3> QED BY <3>1, <3>2 DEF BlocksAfter
  <2>2. ASSUME NEW i \in 1 .. Len(products)
        PROVE  Cardinality(OnPage(i)') + Cardinality(AddingTo("block", i)') <= Cardinality(Windows)
    <3>1. op = "block" => Pending(t, "block") /\ ~Pending(t, "block")'
      BY <1>1
    <3>2. \A u \in Windows : Pending(u, "block")' /\ request'[u].product = i => Pending(u, "block") /\ request[u].product = i
      BY <1>3
    <3> QED BY <2>2, <3>1, <3>2, BlocksKept
  <2> QED BY <1>4, <2>1, <2>2 DEF BlocksInv
<1>6. DeliverablesInv'
  <2>1. ASSUME NEW i \in 1 .. Len(products), NEW j \in 1 .. Len(products[i].plans)
        PROVE  products'[i].plans[j].deliverables + Cardinality(Adding("deliverable", i, j)') <= Cardinality(Windows)
    <3>1. op = "deliverable" => Pending(t, "deliverable") /\ ~Pending(t, "deliverable")'
      BY <1>1
    <3>2. \A u \in Windows : Pending(u, "deliverable")' /\ request'[u].product = i /\ request'[u].plan = j
                               => Pending(u, "deliverable") /\ request[u].product = i /\ request[u].plan = j
      BY <1>3
    <3>3. \/ products'[i].plans[j].deliverables = products[i].plans[j].deliverables
          \/ /\ products'[i].plans[j].deliverables = products[i].plans[j].deliverables + 1
             /\ op = "deliverable" /\ i = request[t].product /\ j = request[t].plan
      BY <2>1, RowsTyped DEF SavedAs, Bit
    <3>4. \/ products'[i].plans[j].deliverables = products[i].plans[j].deliverables
          \/ /\ products'[i].plans[j].deliverables = products[i].plans[j].deliverables + 1
             /\ \E u \in Adding("deliverable", i, j) : ~Pending(u, "deliverable")'
      BY <3>1, <3>3 DEF Adding
    <3> QED BY <2>1, <3>2, <3>4, DeliverablesKept
  <2> QED BY <1>4, <2>1 DEF DeliverablesInv
<1> QED BY <1>2, <1>5, <1>6

\* Rows that stay as they are, while requests aim at the rows they aimed at or end.
LEMMA RowsSame ==
  ASSUME CatalogOK, ShopType, ShopType', RowsInv, UNCHANGED <<products, blocks, ents>>,
         \A u \in Windows : \A x : Pending(u, x)' => /\ Pending(u, x)
                                                     /\ request'[u].product = request[u].product
                                                     /\ request'[u].plan = request[u].plan
  PROVE  RowsInv'
<1> USE DEF RowsInv
<1>1. EntsInv'
  BY EntsKept
<1>2. BlocksAfter(0, "none")
  BY DEF BlocksAfter
<1>3. BlocksInv'
  <2>1. ASSUME NEW i \in 1 .. Len(products)
        PROVE  Cardinality(OnPage(i)') + Cardinality(AddingTo("block", i)') <= Cardinality(Windows)
    BY <1>2, <2>1, BlocksKept
  <2>2. \A k \in 1 .. Len(blocks') : blocks'[k].product \in 1 .. Len(products')
    BY DEF BlocksInv
  <2> QED BY <2>1, <2>2 DEF BlocksInv
<1>4. DeliverablesInv'
  <2>1. ASSUME NEW i \in 1 .. Len(products), NEW j \in 1 .. Len(products[i].plans)
        PROVE  products'[i].plans[j].deliverables + Cardinality(Adding("deliverable", i, j)') <= Cardinality(Windows)
    BY <2>1, DeliverablesKept
  <2> QED BY <2>1 DEF DeliverablesInv
<1> QED BY <1>1, <1>3, <1>4

LEMMA EndsPending ==
  ASSUME NEW t \in Windows, Ends(t)
  PROVE  \A u \in Windows : \A x : Pending(u, x)' => /\ Pending(u, x)
                                                     /\ request'[u].product = request[u].product
                                                     /\ request'[u].plan = request[u].plan
<1>1. \A x : ~Pending(t, x)'
  BY IdleRequest DEF Ends, Pending
<1>2. ASSUME NEW u \in Windows, u # t, NEW x, Pending(u, x)'
      PROVE  Pending(u, x) /\ request'[u] = request[u]
  BY <1>2 DEF Ends, Pending
<1> QED BY <1>1, <1>2

LEMMA RowsProductAdded ==
  ASSUME CatalogOK, ShopBase, ShopBase', RowsInv, NEW t \in Windows, Now(t, "product"), ProductAdded,
         MovesOn(t, Len(products) + 1, 0), UNCHANGED <<blocks, ents>>
  PROVE  RowsInv'
<1> USE DEF ShopBase, RowsInv
<1>1. PICK n : n = Len(products) + 1
  OBVIOUS
<1>2. /\ request[t].todo[1].op = "product" /\ Len(request[t].todo) \in Nat \ {0} /\ request[t].todo \in Seq(Statements)
      /\ Aimed(t) /\ MovesOn(t, n, 0) /\ Len(products) \in Nat
  BY <1>1, NextStatement, PlansTyped DEF AimInv
<1>3. \A x : Pending(t, x)' => Pending(t, x) /\ request'[t].product = n
  BY <1>2, PendingLater
<1>4. \A u \in Windows \ {t} : request'[u] = request[u]
  BY DEF MovesOn
<1>5. \A u \in Windows \ {t} : \A x : Pending(u, x)' => Pending(u, x)
  BY <1>4 DEF Pending
<1>6. \A u \in Windows : \A x : Pending(u, x)' => Pending(u, x)
  BY <1>3, <1>5
<1>7. EntsInv'
  BY <1>6, EntsKept
<1>8. BlocksAfter(0, "none")
  BY DEF BlocksAfter
<1>9. Len(products') = n /\ n \notin 1 .. Len(products) /\ \A k \in 1 .. n : k = n \/ k \in 1 .. Len(products)
  BY <1>1, <1>2 DEF ProductAdded
<1>10. BlocksInv'
  <2>1. ASSUME NEW i \in 1 .. Len(products)
        PROVE  Cardinality(OnPage(i)') + Cardinality(AddingTo("block", i)') <= Cardinality(Windows)
    <3>1. \A u \in Windows : Pending(u, "block")' /\ request'[u].product = i => Pending(u, "block") /\ request[u].product = i
      BY <1>3, <1>4, <1>5, <1>9, <2>1
    <3> QED BY <1>8, <2>1, <3>1, BlocksKept
  <2>2. \A k \in 1 .. Len(blocks') : blocks'[k].product \in 1 .. Len(products')
    BY <1>1, <1>2, <1>9 DEF BlocksInv
  <2>3. Cardinality(OnPage(n)') + Cardinality(AddingTo("block", n)') <= Cardinality(Windows)
    <3>1. PICK P, B : P = OnPage(n)' /\ B = AddingTo("block", n)'
      OBVIOUS
    <3>2. DOMAIN blocks' = 1 .. Len(blocks)
      BY DEF ShopType
    <3>3. P = {}
      BY <1>9, <3>1, <3>2 DEF OnPage, BlocksInv
    <3>4. Cardinality(P) = 0 /\ B \subseteq Windows
      BY <3>1, <3>3, FS_EmptySet DEF AddingTo
    <3>5. Cardinality(P) + Cardinality(B) <= Cardinality(Windows)
      BY <3>4, Room
    <3> QED BY <3>1, <3>5
  <2> QED BY <1>9, <2>1, <2>2, <2>3 DEF BlocksInv
<1>11. DeliverablesInv'
  <2>1. ASSUME NEW i \in 1 .. Len(products), NEW j \in 1 .. Len(products[i].plans)
        PROVE  products'[i].plans[j].deliverables + Cardinality(Adding("deliverable", i, j)') <= Cardinality(Windows)
    <3>1. \A u \in Windows : Pending(u, "deliverable")' /\ request'[u].product = i /\ request'[u].plan = j
                               => Pending(u, "deliverable") /\ request[u].product = i /\ request[u].plan = j
      BY <1>3, <1>4, <1>5, <1>9, <2>1
    <3>2. products'[i] = products[i]
      BY <2>1 DEF ProductAdded
    <3> QED BY <2>1, <3>1, <3>2, DeliverablesKept
  <2>2. products'[n].plans = <<>> /\ Len(products'[n].plans) = 0
    BY <1>1, Lists DEF ProductAdded
  <2>3. ASSUME NEW i \in 1 .. Len(products'), NEW j \in 1 .. Len(products'[i].plans)
        PROVE  i \in 1 .. Len(products) /\ j \in 1 .. Len(products[i].plans)
    <3>1. i # n
      BY <2>2, <2>3
    <3>2. i \in 1 .. Len(products)
      BY <1>9, <2>3, <3>1
    <3> QED BY <2>3, <3>2 DEF ProductAdded
  <2> QED BY <2>1, <2>3 DEF DeliverablesInv
<1> QED BY <1>7, <1>10, <1>11

LEMMA RowsPlanAdded ==
  ASSUME CatalogOK, ShopBase, ShopBase', RowsInv, NEW t \in Windows, Now(t, "plan"),
         NEW p \in 1 .. Len(products), p = request[t].product, PlanAdded(p),
         MovesOn(t, p, Len(products[p].plans) + 1), UNCHANGED <<blocks, ents>>
  PROVE  RowsInv'
<1> USE DEF ShopBase, RowsInv
<1>1. PICK n : n = Len(products[p].plans) + 1
  OBVIOUS
<1>2. /\ request[t].todo[1].op = "plan" /\ Len(request[t].todo) \in Nat \ {0} /\ request[t].todo \in Seq(Statements)
      /\ Aimed(t) /\ MovesOn(t, p, n) /\ Len(products[p].plans) \in Nat
  BY <1>1, NextStatement, PlansTyped DEF AimInv
<1>3. \A x : Pending(t, x)' => Pending(t, x) /\ request'[t].product = request[t].product /\ request'[t].plan = n
  BY <1>2, PendingLater
<1>4. \A u \in Windows \ {t} : request'[u] = request[u]
  BY DEF MovesOn
<1>5. \A u \in Windows \ {t} : \A x : Pending(u, x)' => Pending(u, x)
  BY <1>4 DEF Pending
<1>6. \A u \in Windows : \A x : Pending(u, x)' => Pending(u, x) /\ request'[u].product = request[u].product
  BY <1>3, <1>4, <1>5
<1>7. EntsInv'
  BY <1>6, EntsKept
<1>8. BlocksAfter(0, "none")
  BY DEF BlocksAfter
<1>9. Len(products') = Len(products)
  BY DEF PlanAdded
<1>10. BlocksInv'
  <2>1. ASSUME NEW i \in 1 .. Len(products)
        PROVE  Cardinality(OnPage(i)') + Cardinality(AddingTo("block", i)') <= Cardinality(Windows)
    <3>1. \A u \in Windows : Pending(u, "block")' /\ request'[u].product = i => Pending(u, "block") /\ request[u].product = i
      BY <1>6
    <3> QED BY <1>8, <2>1, <3>1, BlocksKept
  <2>2. \A k \in 1 .. Len(blocks') : blocks'[k].product \in 1 .. Len(products')
    BY <1>9 DEF BlocksInv
  <2> QED BY <1>9, <2>1, <2>2 DEF BlocksInv
<1>11. DeliverablesInv'
  <2>1. ASSUME NEW i \in 1 .. Len(products), NEW j \in 1 .. Len(products[i].plans)
        PROVE  products'[i].plans[j].deliverables + Cardinality(Adding("deliverable", i, j)') <= Cardinality(Windows)
    <3>1. \A u \in Windows : Pending(u, "deliverable")' /\ request'[u].product = i /\ request'[u].plan = j
                               => Pending(u, "deliverable") /\ request[u].product = i /\ request[u].plan = j
      <4>1. ASSUME Pending(t, "deliverable")', request'[t].product = i, request'[t].plan = j PROVE FALSE
        BY <1>1, <1>2, <1>3, <2>1, <4>1
      <4> QED BY <1>4, <1>5, <4>1
    <3>2. products'[i].plans[j] = products[i].plans[j]
      BY <2>1 DEF PlanAdded
    <3> QED BY <2>1, <3>1, <3>2, DeliverablesKept
  <2>2. products'[p].plans[n].deliverables + Cardinality(Adding("deliverable", p, n)') <= Cardinality(Windows)
    <3>1. PICK m, B : m = products'[p].plans[n].deliverables /\ B = Adding("deliverable", p, n)'
      OBVIOUS
    <3>2. m = 0 /\ B \subseteq Windows
      BY <1>1, <3>1 DEF PlanAdded, Adding
    <3>3. m + Cardinality(B) <= Cardinality(Windows)
      BY <3>2, Room
    <3> QED BY <3>1, <3>3
  <2>3. ASSUME NEW i \in 1 .. Len(products'), NEW j \in 1 .. Len(products'[i].plans)
        PROVE  \/ i \in 1 .. Len(products) /\ j \in 1 .. Len(products[i].plans)
               \/ i = p /\ j = n
    <3>1. CASE i = p
      BY <1>1, <1>2, <2>3, <3>1 DEF PlanAdded
    <3>2. CASE i # p
      BY <1>9, <2>3, <3>2 DEF PlanAdded
    <3> QED BY <3>1, <3>2
  <2> QED BY <2>1, <2>2, <2>3 DEF DeliverablesInv
<1> QED BY <1>7, <1>10, <1>11

LEMMA RowsEntitlementAdded ==
  ASSUME CatalogOK, ShopBase, ShopBase', RowsInv, NEW t \in Windows, InsertEntitlement(t)
  PROVE  RowsInv'
<1> USE DEF ShopBase, RowsInv
<1>1. /\ UNCHANGED <<products, blocks>> /\ ents' = ents + 1 /\ Now(t, "entitlement")
      /\ \A u \in Windows \ {t} : request'[u] = request[u]
      /\ Len(request'[t].todo) = 1 /\ request'[t].todo[1].op = "attach"
  BY InsertEntitlementStep
<1>2. \A x : Pending(t, x)' => x = "attach"
  BY <1>1 DEF Pending
<1>3. \A u \in Windows \ {t} : \A x : Pending(u, x)' => Pending(u, x) /\ request'[u] = request[u]
  BY <1>1 DEF Pending
<1>4. Pending(t, "entitlement")
  <2>1. request[t].todo[1].op = "entitlement" /\ Len(request[t].todo) \in Nat \ {0}
    BY <1>1, NextStatement
  <2> QED BY <2>1 DEF Pending
<1>5. EntsInv'
  <2>1. PICK A, B : A = Inserting("entitlement") /\ B = Inserting("entitlement")'
    OBVIOUS
  <2>2. A \subseteq Windows /\ t \in A /\ B \subseteq A \ {t}
    BY <1>2, <1>3, <1>4, <2>1 DEF Inserting
  <2>3. Cardinality(B) + 1 <= Cardinality(A) /\ Cardinality(A) \in Nat /\ Cardinality(B) \in Nat
    BY <2>2, OneFewer, RowsTyped
  <2>4. ents + 1 + Cardinality(B) <= Cardinality(Windows)
    BY <2>1, <2>3, RowsTyped DEF EntsInv, ShopType
  <2> QED BY <1>1, <2>1, <2>4 DEF EntsInv
<1>6. BlocksAfter(0, "none")
  BY <1>1 DEF BlocksAfter
<1>7. BlocksInv'
  <2>1. ASSUME NEW i \in 1 .. Len(products)
        PROVE  Cardinality(OnPage(i)') + Cardinality(AddingTo("block", i)') <= Cardinality(Windows)
    <3>1. \A u \in Windows : Pending(u, "block")' /\ request'[u].product = i => Pending(u, "block") /\ request[u].product = i
      BY <1>2, <1>3
    <3> QED BY <1>6, <2>1, <3>1, BlocksKept
  <2>2. \A k \in 1 .. Len(blocks') : blocks'[k].product \in 1 .. Len(products')
    BY <1>1 DEF BlocksInv
  <2> QED BY <1>1, <2>1, <2>2 DEF BlocksInv
<1>8. DeliverablesInv'
  <2>1. ASSUME NEW i \in 1 .. Len(products), NEW j \in 1 .. Len(products[i].plans)
        PROVE  products'[i].plans[j].deliverables + Cardinality(Adding("deliverable", i, j)') <= Cardinality(Windows)
    <3>1. \A u \in Windows : Pending(u, "deliverable")' /\ request'[u].product = i /\ request'[u].plan = j
                               => Pending(u, "deliverable") /\ request[u].product = i /\ request[u].plan = j
      BY <1>2, <1>3
    <3> QED BY <1>1, <2>1, <3>1, DeliverablesKept
  <2> QED BY <1>1, <2>1 DEF DeliverablesInv
<1> QED BY <1>5, <1>7, <1>8

\* A request that is going to insert a row has found none.
LEMMA RowsBegun ==
  ASSUME CatalogOK, ShopBase, ShopBase', RowsInv, NEW t \in Windows, NEW q, NEW i, NEW j,
         Begins(t, q, i, j), Legal(q, i, j)
  PROVE  RowsInv'
<1> USE DEF ShopBase, RowsInv
<1>1. UNCHANGED <<products, blocks, ents>>
  BY DEF Begins
<1>2. /\ \A u \in Windows \ {t} : request'[u] = request[u]
      /\ \/ request'[t] = NoRequest
         \/ request'[t].todo = q /\ request'[t].product = i /\ request'[t].plan = j
  BY BegunStep
<1>3. \A u \in Windows \ {t} : \A x : Pending(u, x)' => Pending(u, x) /\ request'[u] = request[u]
  BY <1>2 DEF Pending
<1>4. \A x : Pending(t, x)' => request'[t].product = i /\ request'[t].plan = j /\ \E k \in 1 .. Len(q) : q[k].op = x
  BY <1>2, IdleRequest DEF Pending
<1>5. \A k \in 1 .. Len(q) : Suits(q, i, j, k)
  BY DEF Legal
<1>6. /\ Pending(t, "entitlement")' => ents = 0
      /\ Pending(t, "block")' => q[1].op = "product" \/ OnPage(i) = {}
      /\ Pending(t, "deliverable")' => q[1].op = "plan" \/ products[i].plans[j].deliverables = 0
  BY <1>4, <1>5 DEF Suits
<1>7. \A k \in 1 .. Len(q) : 1 \in 1 .. Len(q)
  BY DEF Legal
<1>8. /\ Pending(t, "block")' => i = 0 \/ OnPage(i) = {}
      /\ Pending(t, "deliverable")' => j = 0 \/ products[i].plans[j].deliverables = 0
  BY <1>4, <1>5, <1>6, <1>7 DEF Suits
<1>9. EntsInv'
  <2>1. CASE Pending(t, "entitlement")'
    <3>1. PICK n, B : n = ents /\ B = Inserting("entitlement")'
      OBVIOUS
    <3>2. n = 0 /\ B \subseteq Windows
      BY <1>6, <2>1, <3>1 DEF Inserting
    <3>3. n + Cardinality(B) <= Cardinality(Windows)
      BY <3>2, Room
    <3> QED BY <1>1, <3>1, <3>3 DEF EntsInv
  <2>2. CASE ~Pending(t, "entitlement")'
    BY <1>1, <1>3, <2>2, EntsKept
  <2> QED BY <2>1, <2>2
<1>10. BlocksAfter(0, "none")
  BY <1>1 DEF BlocksAfter
<1>11. BlocksInv'
  <2>1. ASSUME NEW k \in 1 .. Len(products)
        PROVE  Cardinality(OnPage(k)') + Cardinality(AddingTo("block", k)') <= Cardinality(Windows)
    <3>1. CASE Pending(t, "block")' /\ k = i
      <4>1. PICK P, B : P = OnPage(k)' /\ B = AddingTo("block", k)'
        OBVIOUS
      <4>2. OnPage(k) = {}
        BY <1>8, <2>1, <3>1
      <4>3. P = {} /\ B \subseteq Windows
        BY <1>1, <4>1, <4>2 DEF OnPage, AddingTo
      <4>4. Cardinality(P) = 0
        BY <4>3, FS_EmptySet
      <4>5. Cardinality(P) + Cardinality(B) <= Cardinality(Windows)
        BY <4>3, <4>4, Room
      <4> QED BY <4>1, <4>5
    <3>2. CASE ~(Pending(t, "block")' /\ k = i)
      <4>1. \A u \in Windows : Pending(u, "block")' /\ request'[u].product = k => Pending(u, "block") /\ request[u].product = k
        BY <1>3, <1>4, <3>2
      <4> QED BY <1>10, <2>1, <4>1, BlocksKept
    <3> QED BY <3>1, <3>2
  <2>2. \A k \in 1 .. Len(blocks') : blocks'[k].product \in 1 .. Len(products')
    BY <1>1 DEF BlocksInv
  <2> QED BY <1>1, <2>1, <2>2 DEF BlocksInv
<1>12. DeliverablesInv'
  <2>1. ASSUME NEW k \in 1 .. Len(products), NEW l \in 1 .. Len(products[k].plans)
        PROVE  products'[k].plans[l].deliverables + Cardinality(Adding("deliverable", k, l)') <= Cardinality(Windows)
    <3>1. CASE Pending(t, "deliverable")' /\ k = i /\ l = j
      <4>1. PICK m, B : m = products'[k].plans[l].deliverables /\ B = Adding("deliverable", k, l)'
        OBVIOUS
      <4>2. m = 0 /\ B \subseteq Windows
        BY <1>1, <1>8, <2>1, <3>1, <4>1 DEF Adding
      <4>3. m + Cardinality(B) <= Cardinality(Windows)
        BY <4>2, Room
      <4> QED BY <4>1, <4>3
    <3>2. CASE ~(Pending(t, "deliverable")' /\ k = i /\ l = j)
      <4>1. \A u \in Windows : Pending(u, "deliverable")' /\ request'[u].product = k /\ request'[u].plan = l
                                 => Pending(u, "deliverable") /\ request[u].product = k /\ request[u].plan = l
        BY <1>3, <1>4, <3>2
      <4> QED BY <1>1, <2>1, <4>1, DeliverablesKept
    <3> QED BY <3>1, <3>2
  <2> QED BY <1>1, <2>1 DEF DeliverablesInv
<1> QED BY <1>9, <1>11, <1>12

\* Every step keeps the types, what requests aim at, and the bounds on rows.
ShopInv == ShopBase /\ RowsInv

LEMMA CatalogSteps ==
  ASSUME CatalogOK, ShopBase, ShopNext
  PROVE  \/ \E t \in Windows : \E q, i, j : Begins(t, q, i, j) /\ Legal(q, i, j)
         \/ \E t \in Windows : Ordinary(t)
         \/ \E t \in Windows : InsertProduct(t)
         \/ \E t \in Windows : InsertPlan(t)
         \/ \E t \in Windows : InsertEntitlement(t)
         \/ \E t \in Windows : WorkerDies(t)
         \/ Suspend
         \/ Buying /\ UNCHANGED <<profile, page, blocks, ents, request, begun>>
<1>1. ASSUME NEW t \in Windows, Serve(t) PROVE \E q, i, j : Begins(t, q, i, j) /\ Legal(q, i, j)
  BY <1>1, RequestForm DEF ShopBase
<1>2. ASSUME NEW t \in Windows, Statement(t)
      PROVE  Ordinary(t) \/ InsertProduct(t) \/ InsertPlan(t) \/ InsertEntitlement(t)
  BY <1>2 DEF Statement, Ordinary
<1>3. ASSUME (\E b \in Buyers : Buy(b)) \/ (\E o \in DOMAIN orders : CompletePending(o)) PROVE Buying
  BY <1>3 DEF Buying
<1> QED BY <1>1, <1>2, <1>3 DEF ShopNext

LEMMA ShopStep ==
  ASSUME CatalogOK, ShopInv, ShopNext
  PROVE  ShopInv'
<1> USE DEF ShopInv
<1>1. ASSUME NEW t \in Windows, NEW q, NEW i, NEW j, Begins(t, q, i, j), Legal(q, i, j) PROVE ShopInv'
  BY <1>1, BegunStep, RowsBegun
<1>2. ASSUME NEW t \in Windows, Ordinary(t) PROVE ShopInv'
  BY <1>2, OrdinaryStep, RowsExecuted
<1>3. ASSUME NEW t \in Windows, InsertProduct(t) PROVE ShopInv'
  <2>1. /\ ShopBase' /\ UNCHANGED <<blocks, ents>> /\ Now(t, "product")
        /\ \/ Ends(t) /\ UNCHANGED products
           \/ ProductAdded /\ MovesOn(t, Len(products) + 1, 0)
    BY <1>3, InsertProductStep
  <2>2. CASE Ends(t) /\ UNCHANGED products
    BY <2>1, <2>2, EndsPending, RowsSame DEF ShopBase
  <2>3. CASE ProductAdded /\ MovesOn(t, Len(products) + 1, 0)
    BY <2>1, <2>3, RowsProductAdded
  <2> QED BY <2>1, <2>2, <2>3
<1>4. ASSUME NEW t \in Windows, InsertPlan(t) PROVE ShopInv'
  <2>1. PICK p : p = request[t].product
    OBVIOUS
  <2>2. /\ ShopBase' /\ UNCHANGED <<blocks, ents>> /\ Now(t, "plan")
        /\ p \in 1 .. Len(products) /\ PlanAdded(p) /\ MovesOn(t, p, Len(products[p].plans) + 1)
    BY <1>4, <2>1, InsertPlanStep
  <2> QED BY <2>1, <2>2, RowsPlanAdded
<1>5. ASSUME NEW t \in Windows, InsertEntitlement(t) PROVE ShopInv'
  BY <1>5, InsertEntitlementStep, RowsEntitlementAdded
<1>6. ASSUME NEW t \in Windows, WorkerDies(t) PROVE ShopInv'
  BY <1>6, CrashStep, EndsPending, RowsSame DEF ShopBase
<1>7. ASSUME ShopBase', ShopKept PROVE ShopInv'
  <2>1. \A u \in Windows : \A x : Pending(u, x)' => Pending(u, x)
    BY <1>7 DEF ShopKept, Pending
  <2> QED BY <1>7, <2>1, RowsSame DEF ShopBase, ShopKept
<1>8. CASE Suspend
  BY <1>7, <1>8, SuspendStep
<1>9. CASE Buying /\ UNCHANGED <<profile, page, blocks, ents, request, begun>>
  BY <1>7, <1>9, BuyStep
<1> QED BY <1>1, <1>2, <1>3, <1>4, <1>5, <1>6, <1>8, <1>9, CatalogSteps

LEMMA ShopStarts ==
  ASSUME CatalogOK, ShopInit
  PROVE  ShopInv
<1>1. /\ session \in Sessions /\ plan \in session.plans /\ coupon \in session.coupons
      /\ tops = [stock |-> StockTop(plan), limit |-> LimitTop(coupon), lost |-> 0]
      /\ orders = <<>> /\ buyer = [b \in Buyers |-> Absent]
      /\ page = FALSE /\ blocks = <<>> /\ ents = 0
      /\ request = [t \in Windows |-> NoRequest] /\ begun = 0
  BY DEF ShopInit
<1>2. plan \in PlanSet /\ coupon \in CouponRows
  BY <1>1 DEF PlanSet, CatalogOK, SalesOK
<1>3. SalesType
  <2>1. StockTop(plan) \in Nat /\ LimitTop(coupon) \in Nat
    BY <1>2, PlanFacts DEF LimitTop, CouponRows, Unlimited
  <2>2. tops \in [stock : Nat, limit : Nat, lost : Nat]
    BY <1>1, <2>1
  <2>3. orders \in Seq(OrderRows({})) /\ DOMAIN buyer = Buyers
    BY <1>1, Lists
  <2> QED BY <1>1, <1>2, <2>2, <2>3 DEF SalesType
<1>4. blocks \in Seq(BlockRows) /\ Len(blocks) = 0
  BY <1>1, Lists
<1>5. profile \in Profiles
  <2>1. NoProfile \in Profiles
    BY DEF NoProfile, Profiles
  <2>2. CASE profile = NoProfile
    BY <2>1, <2>2
  <2>3. CASE profile = [NoProfile EXCEPT !.exists = TRUE, !.completed = TRUE, !.step = "publish"]
    BY <2>1, <2>3 DEF Profiles
  <2> QED BY <2>2, <2>3 DEF ShopInit
<1>6. /\ products \in Seq(ProductRows)
      /\ \/ Len(products) = 0
         \/ Len(products) = 1 /\ Len(products[1].plans) = 1 /\ products[1].plans[1].deliverables = 1
  <2>1. CASE products = <<>>
    BY <2>1, Lists
  <2>2. CASE \E type \in session.types :
               products = << [NewProduct(type, "public", "first") EXCEPT
                                !.plans = <<[NewPlan EXCEPT !.deliverables = 1]>>] >>
    <3>1. PICK type \in session.types :
            products = << [NewProduct(type, "public", "first") EXCEPT
                             !.plans = <<[NewPlan EXCEPT !.deliverables = 1]>>] >>
      BY <2>2
    <3> DEFINE p == [NewPlan EXCEPT !.deliverables = 1]
               s == <<p>>
               r == [NewProduct(type, "public", "first") EXCEPT !.plans = s]
    <3>2. p \in PlanInfo /\ p.deliverables = 1
      BY DEF NewPlan, PlanInfo
    <3>3. products = <<r>>
      BY <3>1
    <3> HIDE DEF p
    <3>4. s \in Seq(PlanInfo) /\ Len(s) = 1 /\ s[1] = p
      BY <3>2, Lists
    <3> HIDE DEF s
    <3>5. type \in AllTypes /\ "first" \in AllNames
      <4>1. type \in AllTypes
        BY <1>1 DEF AllTypes
      <4>2. "first" \in AllNames
        BY DEF AllNames
      <4> QED BY <4>1, <4>2
    <3>6. r \in ProductRows /\ r.plans = s
      BY <3>4, <3>5 DEF NewProduct, ProductRows
    <3> HIDE DEF r
    <3>7. products \in Seq(ProductRows) /\ Len(products) = 1 /\ products[1] = r
      BY <3>3, <3>6, Lists
    <3> QED BY <3>2, <3>4, <3>6, <3>7
  <2> QED BY <2>1, <2>2 DEF ShopInit
<1>7. ShopType
  BY <1>1, <1>4, <1>5, <1>6 DEF ShopType
<1>8. RequestType /\ \A t \in Windows : request[t] = NoRequest
  BY <1>1, IdleRequest DEF RequestType
<1>9. \A t \in Windows : \A op : ~Pending(t, op)
  BY <1>8, IdleRequest DEF Pending
<1>10. AimInv
  BY <1>6, <1>8, <1>9, IdleRequest DEF AimInv, Aimed
<1>11. IsFiniteSet(Windows) /\ Cardinality(Windows) \in Nat /\ Cardinality(Windows) >= 1
  <2>1. IsFiniteSet(Windows) /\ Windows # {}
    BY DEF CatalogOK
  <2>2. Cardinality(Windows) \in Nat /\ Cardinality(Windows) # 0
    BY <2>1, FS_CardinalityType, FS_EmptySet
  <2> QED BY <2>1, <2>2
<1>12. \A T : T = {} => Cardinality(T) = 0
  BY FS_EmptySet
<1>13. EntsInv
  <2>1. Inserting("entitlement") = {}
    BY <1>9 DEF Inserting
  <2>2. Cardinality(Inserting("entitlement")) = 0
    BY <1>12, <2>1
  <2> QED BY <1>1, <1>11, <2>2 DEF EntsInv
<1>14. BlocksInv
  <2>1. ASSUME NEW i PROVE OnPage(i) = {} /\ AddingTo("block", i) = {}
    BY <1>1, <1>9, EmptySeq DEF OnPage, AddingTo
  <2>2. ASSUME NEW i PROVE Cardinality(OnPage(i)) = 0 /\ Cardinality(AddingTo("block", i)) = 0
    BY <1>12, <2>1
  <2> QED BY <1>4, <1>11, <2>2 DEF BlocksInv
<1>15. DeliverablesInv
  <2>1. ASSUME NEW i, NEW j PROVE Cardinality(Adding("deliverable", i, j)) = 0
    <3>1. Adding("deliverable", i, j) = {}
      BY <1>9 DEF Adding
    <3> QED BY <1>12, <3>1
  <2>2. ASSUME NEW i \in 1 .. Len(products), NEW j \in 1 .. Len(products[i].plans)
        PROVE  products[i].plans[j].deliverables = 1
    <3>1. Len(products) = 1
      BY <1>6, <2>2
    <3>2. i = 1
      BY <2>2, <3>1
    <3>3. Len(products[1].plans) = 1 /\ products[1].plans[1].deliverables = 1
      BY <1>6, <3>1
    <3> QED BY <2>2, <3>2, <3>3
  <2> QED BY <1>11, <2>1, <2>2 DEF DeliverablesInv
<1> QED BY <1>3, <1>7, <1>8, <1>10, <1>13, <1>14, <1>15 DEF ShopInv, ShopBase, RowsInv

\* Nothing changes.
CatalogSame ==
  UNCHANGED <<session, products, plan, coupon, orders, buyer, tops, profile, page, blocks, ents, request, begun, crashes>>

LEMMA StutterSame ==
  ASSUME UNCHANGED shopvars
  PROVE  CatalogSame
BY DEF shopvars, salesvars, CatalogSame

LEMMA ShopStutter ==
  ASSUME CatalogOK, ShopInv, CatalogSame
  PROVE  ShopInv'
<1> USE DEF ShopInv, ShopBase
<1>1. ShopKept
  BY DEF CatalogSame, ShopKept
<1>2. ShopType' /\ SalesType' /\ RequestType'
  BY DEF ShopType, SalesType, RequestType, CatalogSame
<1>3. \A u \in Windows : \A x : Pending(u, x)' => Pending(u, x)
  BY DEF CatalogSame, Pending
<1>4. RowsInv'
  BY <1>2, <1>3, RowsSame DEF CatalogSame
<1> QED BY <1>1, <1>2, <1>4, ShopKeptAim

\* The shop is well-formed whatever requests overlap: what a request is still going
\* to write is about rows that exist, and no row is inserted more often than there are
\* windows, the rows counted in that are about to be inserted.
THEOREM ShopInvariant == ShopSpec => []ShopInv
<1>1. ShopInit => ShopInv
  BY ShopStarts, CatalogAssumption
<1>2. ShopInv /\ [ShopNext]_shopvars => ShopInv'
  BY ShopStep, StutterSame, ShopStutter, CatalogAssumption
<1> QED BY <1>1, <1>2, PTL DEF ShopSpec

LEMMA RowsAreBounded ==
  ASSUME CatalogOK, ShopInv
  PROVE  RowsBoundedByOverlap
<1> USE DEF ShopInv, ShopBase, RowsInv
<1>1. Cardinality(Windows) \in Nat /\ IsFiniteSet(Windows)
  BY RowsTyped
<1>2. \A S \in SUBSET Windows : Cardinality(S) \in Nat
  BY <1>1, Fewer
<1>3. ents <= Cardinality(Windows)
  <2>1. Cardinality(Inserting("entitlement")) \in Nat
    BY <1>2 DEF Inserting
  <2> QED BY <1>1, <2>1 DEF EntsInv, ShopType
<1>4. ASSUME NEW i \in 1 .. Len(products)
      PROVE  Cardinality(OnPage(i)) <= Cardinality(Windows)
  <2>1. Cardinality(AddingTo("block", i)) \in Nat
    BY <1>2 DEF AddingTo
  <2> QED BY <1>1, <1>4, <2>1, RowsTyped DEF BlocksInv
<1>5. ASSUME NEW i \in 1 .. Len(products), NEW j \in 1 .. Len(products[i].plans)
      PROVE  products[i].plans[j].deliverables <= Cardinality(Windows)
  <2>1. Cardinality(Adding("deliverable", i, j)) \in Nat
    BY <1>2 DEF Adding
  <2> QED BY <1>1, <1>5, <2>1, RowsTyped DEF DeliverablesInv
<1>6. DOMAIN products = 1 .. Len(products) /\ \A i \in 1 .. Len(products) : DOMAIN products[i].plans = 1 .. Len(products[i].plans)
  BY PlansTyped DEF ShopType
<1> QED BY <1>3, <1>4, <1>5, <1>6 DEF RowsBoundedByOverlap

\* The views of the seller look for a row and insert it in two statements without a
\* lock or a unique index: blocks of a product, rows of an entitlement and
\* deliverables of a plan are never more than the seller's browser windows.
THEOREM RowsBounded == ShopSpec => []RowsBoundedByOverlap
<1>1. ShopInv => RowsBoundedByOverlap
  BY RowsAreBounded, CatalogAssumption
<1> QED BY <1>1, ShopInvariant, PTL

-----------------------------------------------------------------------------
(* What was sold, and how often the voucher was used *)

\* A form holds what the request read.
FormOf(x) == /\ x.op = "coupon" => x.row.used_count = coupon.used_count
             /\ x.op = "profile" => x.row.completed /\ x.row.exists
\* What a step of the seller does to the rows that buyers read.
FormsTodo ==
  \A u \in Windows : \A k \in 1 .. Len(request'[u].todo) : request'[u].todo[k].op \in {"coupon", "profile"} =>
    \/ \E l \in 1 .. Len(request[u].todo) : request'[u].todo[k] = request[u].todo[l]
    \/ coupon' = coupon /\ tops' = tops /\ FormOf(request'[u].todo[k])
SellerStep ==
  /\ UNCHANGED <<session, orders, buyer>> /\ FormsTodo
  /\ \/ UNCHANGED <<plan, coupon, tops>>
     \/ /\ coupon' = coupon /\ tops'.limit = tops.limit /\ tops'.lost = tops.lost
        /\ tops'.stock >= tops.stock /\ tops'.stock >= StockTop(plan')
     \/ plan' = plan /\ tops'.stock = tops.stock /\ \E t \in Windows : CouponSaved(t)

LEMMA TodoKept ==
  ASSUME ShopBase, NEW t \in Windows, \A u \in Windows \ {t} : request'[u] = request[u],
         \A k \in 1 .. Len(request'[t].todo) :
           request'[t].todo[k].op \in {"coupon", "profile"} => \E l \in 1 .. Len(request[t].todo) : request'[t].todo[k] = request[t].todo[l]
  PROVE  FormsTodo
BY DEF FormsTodo

LEMMA SellerSteps ==
  ASSUME CatalogOK, ShopBase, ShopNext
  PROVE  SellerStep \/ (Buying /\ UNCHANGED <<plan, tops, session, request>>)
<1>1. ASSUME NEW t \in Windows, NEW q, NEW i, NEW j, Begins(t, q, i, j), Legal(q, i, j) PROVE SellerStep
  <2>1. UNCHANGED <<session, orders, buyer, plan, coupon, tops>>
    BY <1>1 DEF Begins
  <2>2. /\ \A u \in Windows \ {t} : request'[u] = request[u]
        /\ \/ request'[t] = NoRequest
           \/ request'[t].todo = q
    BY <1>1, BegunStep
  <2>3. \A k \in 1 .. Len(q) : FormOf(q[k])
    BY <1>1 DEF Legal, Suits, FormOf
  <2>4. ASSUME NEW u \in Windows, NEW k \in 1 .. Len(request'[u].todo), request'[u].todo[k].op \in {"coupon", "profile"}
        PROVE  \/ \E l \in 1 .. Len(request[u].todo) : request'[u].todo[k] = request[u].todo[l]
               \/ coupon' = coupon /\ tops' = tops /\ FormOf(request'[u].todo[k])
    <3>1. CASE u # t
      BY <2>2, <2>4, <3>1
    <3>2. CASE u = t /\ request'[t] = NoRequest
      BY <2>4, <3>2, IdleRequest
    <3>3. CASE u = t /\ request'[t].todo = q
      <4>1. PICK x : x = request'[u].todo[k]
        OBVIOUS
      <4>2. k \in 1 .. Len(q) /\ q[k] = x
        BY <3>3, <4>1
      <4>3. FormOf(x)
        BY <2>3, <4>2
      <4> QED BY <2>1, <4>1, <4>3
    <3> QED BY <2>2, <3>1, <3>2, <3>3
  <2>5. FormsTodo
    BY <2>4 DEF FormsTodo
  <2> QED BY <2>1, <2>5 DEF SellerStep
<1>2. ASSUME NEW t \in Windows, Ends(t), UNCHANGED <<session, orders, buyer, plan, coupon, tops>> PROVE SellerStep
  BY <1>2, IdleRequest, TodoKept DEF Ends, SellerStep
<1>3. ASSUME NEW t \in Windows, NEW i, NEW j, MovesOn(t, i, j) PROVE FormsTodo
  BY <1>3, TodoKept DEF MovesOn
<1>4. ASSUME NEW t \in Windows, NEW op, Executes(t, op) PROVE FormsTodo
  BY <1>3, <1>4 DEF Executes
<1>5. ASSUME NEW t \in Windows, Ordinary(t) PROVE SellerStep
  <2>1. CASE SaveProfile(t)
    BY <1>4, <2>1, ProfileStep DEF SellerStep
  <2>2. CASE SavePage(t)
    BY <1>4, <2>2, PageStep DEF SellerStep
  <2>3. CASE SaveBlock(t)
    BY <1>4, <2>3, BlockStep DEF SellerStep
  <2>4. CASE SaveProduct(t)
    BY <1>4, <2>4, SaveProductStep DEF SellerStep
  <2>5. CASE SavePlan(t)
    BY <1>4, <2>5, PlanStep DEF SellerStep
  <2>6. CASE SaveCoupon(t)
    BY <1>4, <2>6, CouponStep DEF SellerStep, CouponSaved
  <2> QED BY <1>5, <2>1, <2>2, <2>3, <2>4, <2>5, <2>6 DEF Ordinary
<1>6. ASSUME NEW t \in Windows, InsertProduct(t) PROVE SellerStep
  BY <1>2, <1>3, <1>6, InsertProductStep DEF SellerStep
<1>7. ASSUME NEW t \in Windows, InsertPlan(t) PROVE SellerStep
  BY <1>3, <1>7, InsertPlanStep DEF SellerStep
<1>8. ASSUME NEW t \in Windows, InsertEntitlement(t) PROVE SellerStep
  <2>1. /\ UNCHANGED <<session, orders, buyer, plan, coupon, tops>>
        /\ \A u \in Windows \ {t} : request'[u] = request[u]
        /\ Len(request'[t].todo) = 1 /\ request'[t].todo[1].op = "attach"
    BY <1>8, InsertEntitlementStep
  <2>2. FormsTodo
    BY <2>1, TodoKept
  <2> QED BY <2>1, <2>2 DEF SellerStep
<1>9. ASSUME NEW t \in Windows, WorkerDies(t) PROVE SellerStep
  BY <1>2, <1>9, CrashStep
<1>10. CASE Suspend
  BY <1>10, SuspendStep DEF SellerStep, FormsTodo, ShopKept
<1>11. CASE Buying /\ UNCHANGED <<profile, page, blocks, ents, request, begun>>
  BY <1>11, BuyStep DEF ShopKept
<1> QED BY <1>1, <1>5, <1>6, <1>7, <1>8, <1>9, <1>10, <1>11, CatalogSteps

\* What a step of a buyer does to the orders.
LEMMA BuySteps ==
  ASSUME SalesType, Buying
  PROVE  \/ /\ UNCHANGED <<orders, coupon>>
            /\ \E b \in Buyers : /\ \A c \in Buyers \ {b} : buyer'[c] = buyer[c]
                                 /\ \/ buyer'[b].pc # "checkout"
                                    \/ InStock /\ buyer'[b].limit = coupon.usage_limit
         \/ \E b \in Buyers : PayNow(b)
         \/ \E b \in Buyers : PayLater(b)
         \/ \E o \in DOMAIN orders : CompletePending(o)
<1>1. DOMAIN buyer = Buyers
  BY DEF SalesType
<1>2. ASSUME NEW b \in Buyers, NEW v, v.pc # "checkout" \/ (InStock /\ v.limit = coupon.usage_limit),
             buyer' = [buyer EXCEPT ![b] = v], UNCHANGED <<orders, coupon>>
      PROVE  /\ UNCHANGED <<orders, coupon>>
             /\ \E c \in Buyers : /\ \A d \in Buyers \ {c} : buyer'[d] = buyer[d]
                                  /\ \/ buyer'[c].pc # "checkout"
                                     \/ InStock /\ buyer'[c].limit = coupon.usage_limit
  <2>1. buyer'[b] = v /\ \A d \in Buyers \ {b} : buyer'[d] = buyer[d]
    BY <1>1, <1>2
  <2> QED BY <1>2, <2>1
<1>3. ASSUME NEW b \in Buyers, NEW asked, OpenCart(b, asked)
      PROVE  UNCHANGED <<orders, coupon>> /\ \E v : v.pc # "checkout" /\ buyer' = [buyer EXCEPT ![b] = v]
  <2> DEFINE v == [pc |-> "cart", asked |-> asked, code |-> FALSE,
                   quote |-> compute_cart_line(plan, asked, NoCoupon).amount, terms |-> Terms(NoCoupon)]
  <2>1. v.pc # "checkout"
    OBVIOUS
  <2>2. UNCHANGED <<orders, coupon>> /\ buyer' = [buyer EXCEPT ![b] = v]
    BY <1>3 DEF OpenCart
  <2> HIDE DEF v
  <2> QED BY <2>1, <2>2
<1>4. ASSUME NEW b \in Buyers, NEW asked, NEW code, OpenCheckout(b, asked, code)
      PROVE  UNCHANGED <<orders, coupon>> /\ \E v : v.pc # "checkout" /\ buyer' = [buyer EXCEPT ![b] = v]
  <2> DEFINE x == Resolve(code, coupon)
             v == [pc |-> "page", asked |-> asked, code |-> code, questions |-> products[1].questions,
                   quote |-> quote(plan, asked, x), terms |-> Terms(x)]
  <2>1. v.pc # "checkout"
    OBVIOUS
  <2>2. UNCHANGED <<orders, coupon>> /\ buyer' = [buyer EXCEPT ![b] = v]
    BY <1>4 DEF OpenCheckout
  <2> HIDE DEF v
  <2> QED BY <2>1, <2>2
<1>5. ASSUME NEW b \in Buyers, NEW typed, SubmitCheckout(b, typed)
      PROVE  UNCHANGED <<orders, coupon>> /\ InStock /\ \E v : v.limit = coupon.usage_limit /\ buyer' = [buyer EXCEPT ![b] = v]
  <2> DEFINE x == Resolve(buyer[b].code, coupon)
             v == [pc |-> "checkout", quote |-> buyer[b].quote, terms |-> buyer[b].terms, now |-> Terms(x),
                   due |-> charge(products[1].type, plan, buyer[b].asked, x, price_override(plan, typed)),
                   limit |-> coupon.usage_limit,
                   free |-> IsFree(products[1].type, plan, price_override(plan, typed))]
  <2>1. v.limit = coupon.usage_limit
    OBVIOUS
  <2>2. UNCHANGED <<orders, coupon>> /\ InStock /\ buyer' = [buyer EXCEPT ![b] = v]
    BY <1>5 DEF SubmitCheckout
  <2> HIDE DEF v
  <2> QED BY <2>1, <2>2
<1>6. ASSUME NEW b \in Buyers, SubmitCart(b)
      PROVE  UNCHANGED <<orders, coupon>> /\ \E v : v.pc # "checkout" /\ buyer' = [buyer EXCEPT ![b] = v]
  <2> DEFINE v == [pc |-> "checkout_cart", quote |-> buyer[b].quote, terms |-> buyer[b].terms,
                   now |-> Terms(NoCoupon), due |-> compute_cart_line(plan, buyer[b].asked, NoCoupon),
                   limit |-> 0, free |-> FALSE]
  <2>1. v.pc # "checkout"
    OBVIOUS
  <2>2. UNCHANGED <<orders, coupon>> /\ buyer' = [buyer EXCEPT ![b] = v]
    BY <1>6 DEF SubmitCart
  <2> HIDE DEF v
  <2> QED BY <2>1, <2>2
<1>7. ASSUME NEW b \in Buyers, Leave(b)
      PROVE  UNCHANGED <<orders, coupon>> /\ \E v : v.pc # "checkout" /\ buyer' = [buyer EXCEPT ![b] = v]
  <2>1. Absent.pc # "checkout"
    BY DEF Absent
  <2> QED BY <1>7, <2>1 DEF Leave
<1> QED BY <1>2, <1>3, <1>4, <1>5, <1>6, <1>7 DEF Buying, Buy

SalesInv == OrdersInv /\ StockInv /\ VoucherInv

LEMMA SalesCounts ==
  ASSUME CatalogOK, SalesType, OrdersInv
  PROVE  /\ IsFiniteSet(Buyers) /\ Cardinality(Buyers) \in Nat \ {0}
         /\ Len(orders) \in Nat /\ DOMAIN orders = 1 .. Len(orders) /\ Len(orders) <= 1000 /\ session.orders \in Nat
         /\ IsFiniteSet(Paid) /\ CheckedSales \subseteq Paid /\ Redeemed \subseteq CheckedSales
         /\ Cardinality(Paid) \in Nat /\ Cardinality(CheckedSales) \in Nat /\ Cardinality(Redeemed) \in Nat
         /\ Cardinality(CheckedSales) <= Cardinality(Paid) /\ Cardinality(Redeemed) <= Cardinality(CheckedSales)
         /\ Cardinality(Paid) <= Len(orders)
         /\ Deciding \subseteq Buyers /\ Cardinality(Deciding) \in Nat /\ Cardinality(Deciding) <= Cardinality(Buyers)
         /\ tops.stock \in Nat /\ tops.limit \in Nat /\ tops.lost \in Nat
         /\ coupon.used_count \in Nat /\ coupon.usage_limit \in Nat
<1>1. IsFiniteSet(Buyers) /\ Buyers # {}
  BY DEF CatalogOK, SalesOK
<1>2. Cardinality(Buyers) \in Nat \ {0}
  BY <1>1, FS_CardinalityType, FS_EmptySet
<1>3. Len(orders) \in Nat /\ DOMAIN orders = 1 .. Len(orders)
  BY DEF SalesType
<1>4. session.orders \in Nat /\ session.orders <= 1000
  <2>1. session \in Sessions
    BY DEF SalesType
  <2>2. \A s \in Sessions : s.orders \in 0 .. Unlimited
    BY DEF CatalogOK, SalesOK
  <2>3. session.orders \in 0 .. 1000
    BY <2>1, <2>2 DEF Unlimited
  <2> QED BY <2>3
<1>5. Len(orders) <= 1000
  BY <1>3, <1>4 DEF OrdersInv
<1>6. IsFiniteSet(1 .. Len(orders)) /\ Cardinality(1 .. Len(orders)) = Len(orders)
  <2>1. IsFiniteSet(1 .. Len(orders)) /\ Cardinality(1 .. Len(orders)) = IF 1 > Len(orders) THEN 0 ELSE Len(orders) - 1 + 1
    BY <1>3, FS_Interval
  <2> QED BY <1>3, <2>1
<1>7. Paid \subseteq 1 .. Len(orders) /\ CheckedSales \subseteq Paid /\ Redeemed \subseteq CheckedSales
  BY <1>3 DEF Paid, CheckedSales, Redeemed
<1>8. IsFiniteSet(Paid) /\ Cardinality(Paid) <= Len(orders)
  BY <1>6, <1>7, FS_Subset
<1>9. /\ Cardinality(Paid) \in Nat /\ Cardinality(CheckedSales) \in Nat /\ Cardinality(Redeemed) \in Nat
      /\ Cardinality(CheckedSales) <= Cardinality(Paid) /\ Cardinality(Redeemed) <= Cardinality(CheckedSales)
  <2>1. Cardinality(Paid) \in Nat /\ Cardinality(CheckedSales) \in Nat /\ Cardinality(CheckedSales) <= Cardinality(Paid)
    BY <1>7, <1>8, Fewer
  <2>2. Cardinality(Redeemed) \in Nat /\ Cardinality(Redeemed) <= Cardinality(CheckedSales)
    BY <1>7, <1>8, Fewer
  <2> QED BY <2>1, <2>2
<1>10. Deciding \subseteq Buyers
  BY DEF Deciding
<1>11. Cardinality(Deciding) \in Nat /\ Cardinality(Deciding) <= Cardinality(Buyers)
  BY <1>1, <1>10, Fewer
<1>12. /\ tops.stock \in Nat /\ tops.limit \in Nat /\ tops.lost \in Nat
       /\ coupon.used_count \in Nat /\ coupon.usage_limit \in Nat
  BY DEF SalesType, CouponRows
<1> QED BY <1>1, <1>2, <1>3, <1>4, <1>5, <1>7, <1>8, <1>9, <1>10, <1>11, <1>12

\* An order is added.
LEMMA AppendedSales ==
  ASSUME SalesType, NEW paid \in BOOLEAN, NEW redeemed, NEW checked \in BOOLEAN,
         orders' = Append(orders, [paid |-> paid, redeemed |-> redeemed, checked |-> checked])
  PROVE  /\ Len(orders') = Len(orders) + 1 /\ Len(orders) \in Nat
         /\ orders'[Len(orders) + 1].paid = paid /\ orders'[Len(orders) + 1].checked = checked
         /\ \A o \in 1 .. Len(orders) : orders'[o] = orders[o]
         /\ CheckedSales' \subseteq CheckedSales \cup {Len(orders) + 1}
         /\ ~(paid /\ checked) => CheckedSales' = CheckedSales
         /\ Redeemed' \subseteq Redeemed \cup {Len(orders) + 1}
         /\ ~(paid /\ checked /\ redeemed) => Redeemed' = Redeemed
<1>1. PICK r : r = [paid |-> paid, redeemed |-> redeemed, checked |-> checked]
  OBVIOUS
<1>2. r.paid = paid /\ r.checked = checked /\ r.redeemed = redeemed /\ orders' = Append(orders, r)
  BY <1>1
<1>3. /\ Len(orders) \in Nat /\ Len(orders') = Len(orders) + 1 /\ orders'[Len(orders) + 1] = r
      /\ \A o \in 1 .. Len(orders) : orders'[o] = orders[o]
      /\ DOMAIN orders = 1 .. Len(orders) /\ DOMAIN orders' = 1 .. (Len(orders) + 1)
  BY <1>1, <1>2, Appended DEF SalesType
<1>4. \A o \in DOMAIN orders' : o \in DOMAIN orders \/ o = Len(orders) + 1
  BY <1>3
<1>5. Len(orders) + 1 \notin DOMAIN orders /\ \A o \in DOMAIN orders : o \in DOMAIN orders' /\ orders'[o] = orders[o]
  BY <1>3
<1>6. /\ CheckedSales' \subseteq CheckedSales \cup {Len(orders) + 1}
      /\ ~(paid /\ checked) => CheckedSales' = CheckedSales
  <2>1. \A o : o \in CheckedSales <=> o \in DOMAIN orders /\ orders[o].paid /\ orders[o].checked
    BY DEF CheckedSales, Paid
  <2>2. \A o : o \in CheckedSales' <=> o \in DOMAIN orders' /\ orders'[o].paid /\ orders'[o].checked
    BY DEF CheckedSales, Paid
  <2> QED BY <1>2, <1>3, <1>4, <1>5, <2>1, <2>2
<1>7. /\ Redeemed' \subseteq Redeemed \cup {Len(orders) + 1}
      /\ ~(paid /\ checked /\ redeemed) => Redeemed' = Redeemed
  <2>1. \A o : o \in Redeemed <=> o \in DOMAIN orders /\ orders[o].paid /\ orders[o].checked /\ orders[o].redeemed
    BY DEF CheckedSales, Paid, Redeemed
  <2>2. \A o : o \in Redeemed' <=> o \in DOMAIN orders' /\ orders'[o].paid /\ orders'[o].checked /\ orders'[o].redeemed
    BY DEF CheckedSales, Paid, Redeemed
  <2> QED BY <1>2, <1>3, <1>4, <1>5, <2>1, <2>2
<1> QED BY <1>2, <1>3, <1>6, <1>7

\* A pending order was not checked, and is not when it is paid.
LEMMA CompletedSales ==
  ASSUME SalesType, OrdersInv, NEW o \in DOMAIN orders, CompletePending(o)
  PROVE  /\ CheckedSales' = CheckedSales /\ Redeemed' = Redeemed /\ OrdersInv'
         /\ UNCHANGED <<session, plan, tops, buyer>>
<1>1. /\ Len(orders) \in Nat /\ Len(orders') = Len(orders)
      /\ DOMAIN orders = 1 .. Len(orders) /\ DOMAIN orders' = DOMAIN orders
      /\ \A n \in DOMAIN orders : /\ orders'[n].redeemed = orders[n].redeemed /\ orders'[n].checked = orders[n].checked
                                  /\ n # o => orders'[n].paid = orders[n].paid
      /\ orders'[o].paid = TRUE
  BY Completed DEF SalesType
<1>2. ~orders[o].paid /\ UNCHANGED <<session, plan, tops, buyer>>
  BY DEF CompletePending
<1>3. ~orders[o].checked
  BY <1>1, <1>2 DEF OrdersInv
<1>4. CheckedSales' = CheckedSales
  <2>1. \A n : n \in CheckedSales <=> n \in DOMAIN orders /\ orders[n].paid /\ orders[n].checked
    BY DEF CheckedSales, Paid
  <2>2. \A n : n \in CheckedSales' <=> n \in DOMAIN orders' /\ orders'[n].paid /\ orders'[n].checked
    BY DEF CheckedSales, Paid
  <2>3. ASSUME NEW n PROVE n \in CheckedSales' <=> n \in CheckedSales
    <3>1. CASE n = o
      BY <1>1, <1>2, <1>3, <2>1, <2>2, <3>1
    <3>2. CASE n # o
      BY <1>1, <2>1, <2>2, <3>2
    <3> QED BY <3>1, <3>2
  <2> QED BY <2>3
<1>5. Redeemed' = Redeemed
  <2>1. \A n \in CheckedSales : orders'[n].redeemed = orders[n].redeemed
    BY <1>1 DEF CheckedSales, Paid
  <2> QED BY <1>4, <2>1 DEF Redeemed
<1>6. OrdersInv'
  BY <1>1, <1>2, <1>3 DEF OrdersInv
<1> QED BY <1>2, <1>4, <1>5, <1>6

LEMMA SalesAfterSeller ==
  ASSUME CatalogOK, ShopBase, SalesType', SalesInv, SellerStep
  PROVE  SalesInv'
<1> USE DEF SalesInv, ShopBase
<1>1. UNCHANGED <<session, orders, buyer>> /\ FormsTodo
  BY DEF SellerStep
<1>2. CheckedSales' = CheckedSales /\ Redeemed' = Redeemed /\ Deciding' = Deciding
  BY <1>1 DEF CheckedSales, Paid, Redeemed, Deciding
<1>3. OrdersInv'
  BY <1>1 DEF OrdersInv
<1>4. PICK s, d, r, n : /\ s = Cardinality(CheckedSales) /\ d = Cardinality(Deciding)
                        /\ r = Cardinality(Redeemed) /\ n = Cardinality(Buyers)
  OBVIOUS
<1>5. s \in Nat /\ d \in Nat /\ r \in Nat /\ n \in Nat
  BY <1>4, SalesCounts
<1>6. /\ tops.stock \in Nat /\ tops.limit \in Nat /\ tops.lost \in Nat /\ coupon.used_count \in Nat
      /\ tops'.stock \in Nat /\ tops'.limit \in Nat /\ tops'.lost \in Nat /\ coupon'.used_count \in Nat
      /\ coupon.usage_limit \in Nat /\ coupon'.usage_limit \in Nat
  BY DEF SalesType, CouponRows
<1>7. StockTop(plan) \in Nat /\ LimitTop(coupon) \in Nat /\ LimitTop(coupon') \in Nat
  BY <1>6, PlanFacts DEF SalesType, LimitTop, Unlimited
<1>8. /\ tops'.stock >= tops.stock /\ tops'.limit >= tops.limit
      /\ plan' = plan \/ tops'.stock >= StockTop(plan')
      /\ tops'.limit >= LimitTop(coupon')
  <2>1. tops.limit >= LimitTop(coupon)
    BY DEF VoucherInv
  <2>2. CASE UNCHANGED <<plan, coupon, tops>>
    BY <1>6, <2>1, <2>2
  <2>3. CASE /\ coupon' = coupon /\ tops'.limit = tops.limit /\ tops'.lost = tops.lost
             /\ tops'.stock >= tops.stock /\ tops'.stock >= StockTop(plan')
    BY <1>6, <2>1, <2>3
  <2>4. CASE plan' = plan /\ tops'.stock = tops.stock /\ \E t \in Windows : CouponSaved(t)
    <3>1. CASE tops' = tops /\ coupon'.usage_limit = coupon.usage_limit
      BY <1>6, <2>1, <2>4, <3>1 DEF LimitTop
    <3>2. CASE tops'.limit >= tops.limit /\ tops'.limit >= LimitTop(coupon')
      BY <1>6, <2>4, <3>2
    <3> QED BY <2>4, <3>1, <3>2 DEF CouponSaved
  <2> QED BY <2>2, <2>3, <2>4 DEF SellerStep
<1>9. StockInv'
  <2>1. tops'.stock >= StockTop(plan')
    <3>1. tops.stock >= StockTop(plan)
      BY DEF StockInv
    <3> QED BY <1>6, <1>7, <1>8, <3>1
  <2>2. \/ tops'.stock >= Unlimited
        \/ s + d <= tops'.stock + n - 1
    <3>1. \/ tops.stock >= Unlimited
          \/ s + d <= tops.stock + n - 1
      BY <1>4 DEF StockInv
    <3> QED BY <1>5, <1>6, <1>8, <3>1 DEF Unlimited
  <2> QED BY <1>2, <1>4, <2>1, <2>2 DEF StockInv
<1>10. VoucherInv'
  <2>1. tops.limit >= Unlimited => tops'.limit >= Unlimited
    BY <1>6, <1>8 DEF Unlimited
  <2>2. \A b \in Deciding' : buyer'[b].limit \in Nat /\ (buyer'[b].limit = 0 => tops'.limit >= Unlimited)
    BY <1>1, <1>2, <2>1 DEF VoucherInv
  <2>3. ASSUME ~(tops.limit >= Unlimited)
        PROVE  /\ r <= coupon'.used_count + tops'.lost /\ coupon'.used_count <= tops'.limit
               /\ \A t \in Windows : \A k \in 1 .. Len(request'[t].todo) :
                    request'[t].todo[k].op = "coupon" => request'[t].todo[k].row.used_count <= tops'.limit
    <3>1. r <= coupon.used_count + tops.lost /\ coupon.used_count <= tops.limit
      BY <1>4, <2>3 DEF VoucherInv
    <3>2. \A t \in Windows : \A k \in 1 .. Len(request[t].todo) :
            request[t].todo[k].op = "coupon" => /\ request[t].todo[k].row.used_count <= tops.limit
                                                /\ request[t].todo[k].row.used_count \in Nat
      <4>1. ASSUME NEW t \in Windows, NEW k \in 1 .. Len(request[t].todo), request[t].todo[k].op = "coupon"
            PROVE  request[t].todo[k].row.used_count \in Nat
        <5>1. request[t].todo \in Seq(Statements)
          BY DEF RequestType, RequestRows
        <5>2. request[t].todo[k] \in Statements
          BY <4>1, <5>1, ElementOfSeq
        <5>3. request[t].todo[k].row \in CouponRows
          BY <4>1, <5>2, StatementFields
        <5> QED BY <5>3 DEF CouponRows
      <4> QED BY <2>3, <4>1 DEF VoucherInv
    <3>3. \A t \in Windows : \A k \in 1 .. Len(request'[t].todo) :
            request'[t].todo[k].op = "coupon" => request'[t].todo[k].row.used_count <= tops'.limit
      <4>1. ASSUME NEW t \in Windows, NEW k \in 1 .. Len(request'[t].todo), request'[t].todo[k].op = "coupon"
            PROVE  request'[t].todo[k].row.used_count <= tops'.limit
        <5>1. PICK x : x = request'[t].todo[k]
          OBVIOUS
        <5>2. \/ \E l \in 1 .. Len(request[t].todo) : x = request[t].todo[l]
              \/ tops' = tops /\ x.row.used_count = coupon.used_count
          BY <1>1, <4>1, <5>1 DEF FormsTodo, FormOf
        <5>3. x.row.used_count <= tops.limit /\ x.row.used_count \in Nat
          BY <1>6, <3>1, <3>2, <4>1, <5>1, <5>2
        <5>4. x.row.used_count <= tops'.limit
          BY <1>6, <1>8, <5>3
        <5> QED BY <5>1, <5>4
      <4> QED BY <4>1
    <3>4. r <= coupon'.used_count + tops'.lost /\ coupon'.used_count <= tops'.limit
      <4>1. CASE coupon'.used_count = coupon.used_count /\ tops'.lost = tops.lost
        BY <1>5, <1>6, <1>8, <3>1, <4>1
      <4>2. ASSUME NEW t \in Windows, Executes(t, "coupon"), coupon' = request[t].todo[1].row,
                   tops'.lost >= tops.lost, tops'.lost >= tops.lost + (coupon.used_count - coupon'.used_count)
            PROVE  r <= coupon'.used_count + tops'.lost /\ coupon'.used_count <= tops'.limit
        <5> DEFINE op == "coupon"
        <5>1. Now(t, op) /\ op = "coupon"
          BY <4>2 DEF Executes
        <5> HIDE DEF op
        <5>2. 1 \in 1 .. Len(request[t].todo) /\ request[t].todo[1].op = "coupon"
          BY <5>1, NextStatement
        <5>3. coupon'.used_count <= tops.limit
          BY <3>2, <4>2, <5>2
        <5> QED BY <1>5, <1>6, <1>8, <3>1, <4>2, <5>3
      <4> QED BY <4>1, <4>2 DEF SellerStep, CouponSaved
    <3> QED BY <3>3, <3>4
  <2> QED BY <1>2, <1>4, <1>8, <2>1, <2>2, <2>3 DEF VoucherInv
<1> QED BY <1>3, <1>9, <1>10

LEMMA SalesAfterBuyer ==
  ASSUME CatalogOK, SalesType, SalesType', SalesInv, Buying, UNCHANGED <<plan, tops, session, request>>
  PROVE  SalesInv'
<1> USE DEF SalesInv
<1>1. PICK s, d, r, n : /\ s = Cardinality(CheckedSales) /\ d = Cardinality(Deciding)
                        /\ r = Cardinality(Redeemed) /\ n = Cardinality(Buyers)
  OBVIOUS
<1>2. s \in Nat /\ d \in Nat /\ r \in Nat /\ n \in Nat /\ d <= n
  BY <1>1, SalesCounts
<1>3. /\ tops.stock \in Nat /\ tops.limit \in Nat /\ tops.lost \in Nat /\ coupon.used_count \in Nat
      /\ coupon.usage_limit \in Nat /\ coupon'.used_count \in Nat /\ coupon'.usage_limit \in Nat
  BY DEF SalesType, CouponRows
\* Enough is known once the two counts and the buyers at the till are.
<1>4. ASSUME NEW s1 \in Nat, NEW d1 \in Nat, s1 = Cardinality(CheckedSales)', d1 = Cardinality(Deciding)',
             tops.stock >= Unlimited \/ s1 + d1 <= tops.stock + n - 1
      PROVE  StockInv'
  BY <1>1, <1>4 DEF StockInv
<1>5. ASSUME coupon'.usage_limit = coupon.usage_limit,
             \A b \in Deciding' : buyer'[b].limit \in Nat /\ (buyer'[b].limit = 0 => tops.limit >= Unlimited),
             \/ tops.limit >= Unlimited
             \/ Cardinality(Redeemed)' <= coupon'.used_count + tops.lost /\ coupon'.used_count <= tops.limit
      PROVE  VoucherInv'
  <2>1. LimitTop(coupon') = LimitTop(coupon)
    BY <1>5 DEF LimitTop
  <2> QED BY <1>5, <2>1 DEF VoucherInv
<1>6. \/ tops.limit >= Unlimited
      \/ r <= coupon.used_count + tops.lost /\ coupon.used_count <= tops.limit
  BY <1>1 DEF VoucherInv
<1>7. tops.stock >= Unlimited \/ s + d <= tops.stock + n - 1
  BY <1>1 DEF StockInv
<1>8. IsFiniteSet(Buyers) /\ Deciding \subseteq Buyers /\ IsFiniteSet(CheckedSales) /\ IsFiniteSet(Redeemed)
  BY SalesCounts, FS_Subset
<1>9. ASSUME coupon' \in CouponRows, coupon'.usage_limit = coupon.usage_limit,
             \/ Usable /\ coupon'.used_count = coupon.used_count + 1
             \/ coupon' = coupon
      PROVE  tops.limit >= Unlimited \/ (r <= coupon'.used_count + tops.lost /\ coupon'.used_count <= tops.limit)
  <2>1. tops.limit >= LimitTop(coupon)
    BY DEF VoucherInv
  <2>2. CASE coupon' = coupon
    BY <1>6, <2>2
  <2>3. CASE Usable /\ coupon'.used_count = coupon.used_count + 1
    <3>1. CASE coupon.usage_limit = 0
      BY <2>1, <3>1 DEF LimitTop
    <3>2. CASE coupon.usage_limit > 0
      <4>1. coupon.used_count < coupon.usage_limit /\ LimitTop(coupon) = coupon.usage_limit
        BY <1>3, <2>3, <3>2 DEF Usable, LimitTop
      <4> QED BY <1>2, <1>3, <1>6, <2>1, <2>3, <4>1
    <3> QED BY <1>3, <3>1, <3>2
  <2> QED BY <1>9, <2>2, <2>3
<1>10. ASSUME NEW b \in Buyers, UNCHANGED <<orders, coupon>>,
              \A c \in Buyers \ {b} : buyer'[c] = buyer[c],
              buyer'[b].pc # "checkout" \/ (InStock /\ buyer'[b].limit = coupon.usage_limit)
       PROVE  SalesInv'
  <2>1. CheckedSales' = CheckedSales /\ Redeemed' = Redeemed /\ Paid' = Paid
    BY <1>10 DEF CheckedSales, Paid, Redeemed
  <2>2. OrdersInv'
    BY <1>10 DEF OrdersInv
  <2>3. PICK D : D = Deciding'
    OBVIOUS
  <2>4. D \subseteq Buyers /\ D \subseteq Deciding \cup {b} /\ (buyer'[b].pc # "checkout" => D \subseteq Deciding)
    BY <1>10, <2>3 DEF Deciding
  <2>5. Cardinality(D) \in Nat /\ Cardinality(D) <= n
    BY <1>1, <1>8, <2>4, Fewer
  <2>6. tops.stock >= Unlimited \/ s + Cardinality(D) <= tops.stock + n - 1
    <3>1. CASE D \subseteq Deciding
      <4>1. Cardinality(D) <= d
        BY <1>1, <1>8, <3>1, Fewer
      <4> QED BY <1>2, <1>3, <1>7, <2>5, <4>1
    <3>2. CASE InStock
      <4>1. tops.stock >= StockTop(plan)
        BY DEF StockInv
      <4>2. CASE plan.stock = NullStock
        BY <4>1, <4>2 DEF StockTop
      <4>3. CASE plan.stock # NullStock
        <5>1. Cardinality(Paid) < plan.stock /\ StockTop(plan) = plan.stock
          BY <3>2, <4>3 DEF InStock, StockTop
        <5>2. plan.stock \in Nat
          BY <4>3, <5>1, PlanFacts DEF SalesType
        <5>3. s <= Cardinality(Paid) /\ Cardinality(Paid) \in Nat
          BY <1>1, SalesCounts
        <5> QED BY <1>2, <1>3, <2>5, <4>1, <5>1, <5>2, <5>3
      <4> QED BY <4>2, <4>3
    <3> QED BY <1>10, <2>4, <3>1, <3>2
  <2>7. StockInv'
    BY <1>1, <1>2, <1>4, <2>1, <2>3, <2>5, <2>6
  <2>8. ASSUME NEW c \in D PROVE buyer'[c].limit \in Nat /\ (buyer'[c].limit = 0 => tops.limit >= Unlimited)
    <3>1. CASE c \in Deciding /\ c # b
      BY <1>10, <2>4, <3>1 DEF VoucherInv
    <3>2. CASE c = b
      <4>1. buyer'[b].limit = coupon.usage_limit
        BY <1>10, <2>3, <2>8, <3>2 DEF Deciding
      <4>2. tops.limit >= LimitTop(coupon)
        BY DEF VoucherInv
      <4> QED BY <1>3, <3>2, <4>1, <4>2 DEF LimitTop
    <3> QED BY <2>4, <2>8, <3>1, <3>2
  <2>9. VoucherInv'
    BY <1>1, <1>5, <1>6, <1>10, <2>1, <2>3, <2>8
  <2> QED BY <2>2, <2>7, <2>9
<1>11. ASSUME NEW b \in Buyers, buyer' = [buyer EXCEPT ![b] = Absent]
       PROVE  /\ Deciding' = Deciding \ {b}
              /\ \A c \in Deciding' : buyer'[c] = buyer[c]
  <2>1. DOMAIN buyer = Buyers
    BY DEF SalesType
  <2>2. buyer'[b] = Absent /\ \A c \in Buyers \ {b} : buyer'[c] = buyer[c]
    BY <1>11, <2>1
  <2>3. Absent.pc # "checkout"
    BY DEF Absent
  <2> QED BY <2>2, <2>3 DEF Deciding
<1>12. ASSUME NEW b \in Buyers, PayNow(b) PROVE SalesInv'
  <2>1. /\ Len(orders) < session.orders /\ buyer' = [buyer EXCEPT ![b] = Absent]
        /\ buyer[b].pc \in {"checkout", "checkout_cart"}
    BY <1>12 DEF PayNow
  <2>2. Deciding' = Deciding \ {b} /\ \A c \in Deciding' : buyer'[c] = buyer[c]
    BY <1>11, <2>1
  <2>3. PICK D : D = Deciding'
    OBVIOUS
  <2>4. /\ Cardinality(D) \in Nat /\ Cardinality(D) <= d
        /\ b \in Deciding => Cardinality(D) + 1 <= d
    BY <1>1, <1>8, <2>2, <2>3, Fewer, OneFewer
  <2>5. \A c \in D : buyer'[c].limit \in Nat /\ (buyer'[c].limit = 0 => tops.limit >= Unlimited)
    BY <2>2, <2>3 DEF VoucherInv
  <2>6. CASE UNCHANGED <<orders, coupon>>
    <3>1. CheckedSales' = CheckedSales /\ Redeemed' = Redeemed /\ OrdersInv'
      BY <2>6 DEF CheckedSales, Paid, Redeemed, OrdersInv
    <3>2. s + Cardinality(D) <= s + d
      BY <1>2, <2>4
    <3>3. tops.stock >= Unlimited \/ s + Cardinality(D) <= tops.stock + n - 1
      BY <1>2, <1>3, <1>7, <2>4, <3>2
    <3>4. StockInv'
      BY <1>1, <1>2, <1>4, <2>3, <2>4, <3>1, <3>3
    <3>5. VoucherInv'
      BY <1>1, <1>5, <1>6, <2>3, <2>5, <2>6, <3>1
    <3> QED BY <3>1, <3>4, <3>5
  <2>7. CASE ~UNCHANGED <<orders, coupon>>
    <3>1. PICK redeemed, checked : redeemed = (buyer[b].due.discount > 0) /\ checked = (buyer[b].pc = "checkout")
      OBVIOUS
    <3>2. /\ checked \in BOOLEAN /\ (checked <=> b \in Deciding)
          /\ orders' = Append(orders, [paid |-> TRUE, redeemed |-> redeemed, checked |-> checked])
      BY <1>12, <2>7, <3>1 DEF PayNow, Deciding
    <3>3. IF redeemed THEN Redeem /\ (Usable \/ ~(buyer[b].limit > 0)) ELSE coupon' = coupon
      BY <1>12, <2>7, <3>1 DEF PayNow
    <3>4. /\ Len(orders') = Len(orders) + 1 /\ Len(orders) \in Nat
          /\ orders'[Len(orders) + 1].paid = TRUE
          /\ \A o \in 1 .. Len(orders) : orders'[o] = orders[o]
          /\ CheckedSales' \subseteq CheckedSales \cup {Len(orders) + 1}
          /\ ~checked => CheckedSales' = CheckedSales
          /\ Redeemed' \subseteq Redeemed \cup {Len(orders) + 1}
          /\ ~(checked /\ redeemed) => Redeemed' = Redeemed
      BY <3>2, AppendedSales
    <3>5. OrdersInv'
      <4>1. Len(orders') <= session.orders
        BY <2>1, <3>4, SalesCounts
      <4>2. ASSUME NEW o \in 1 .. Len(orders'), orders'[o].checked PROVE orders'[o].paid
        <5>1. CASE o = Len(orders) + 1
          BY <3>4, <5>1
        <5>2. CASE o \in 1 .. Len(orders)
          BY <3>4, <4>2, <5>2 DEF OrdersInv
        <5> QED BY <3>4, <4>2, <5>1, <5>2
      <4> QED BY <4>1, <4>2 DEF OrdersInv
    <3>6. PICK S, R : S = CheckedSales' /\ R = Redeemed'
      OBVIOUS
    <3>7. Cardinality(S) \in Nat /\ Cardinality(S) <= s + 1 /\ (~checked => Cardinality(S) = s)
      BY <1>1, <1>2, <1>8, <3>4, <3>6, OneMore
    <3>8. tops.stock >= Unlimited \/ Cardinality(S) + Cardinality(D) <= tops.stock + n - 1
      BY <1>2, <1>3, <1>7, <2>4, <3>2, <3>7
    <3>9. StockInv'
      BY <1>4, <2>3, <2>4, <3>6, <3>7, <3>8
    <3>10. Cardinality(R) \in Nat /\ Cardinality(R) <= r + 1 /\ (~(checked /\ redeemed) => Cardinality(R) = r)
      BY <1>1, <1>2, <1>8, <3>4, <3>6, OneMore
    <3>11. /\ coupon' \in CouponRows /\ coupon'.usage_limit = coupon.usage_limit
           /\ \/ Usable /\ coupon'.used_count = coupon.used_count + 1
              \/ coupon' = coupon
           /\ redeemed => (Usable /\ coupon'.used_count = coupon.used_count + 1) \/ ~(buyer[b].limit > 0)
      BY <3>3, RedeemForm DEF SalesType
    <3>12. tops.limit >= Unlimited \/ (r <= coupon'.used_count + tops.lost /\ coupon'.used_count <= tops.limit)
      BY <1>9, <3>11
    <3>13. tops.limit >= Unlimited \/ (Cardinality(R) <= coupon'.used_count + tops.lost /\ coupon'.used_count <= tops.limit)
      <4>1. CASE ~(checked /\ redeemed)
        BY <3>10, <3>12, <4>1
      <4>2. CASE checked /\ redeemed /\ ~(buyer[b].limit > 0)
        <5>1. buyer[b].limit \in Nat /\ (buyer[b].limit = 0 => tops.limit >= Unlimited)
          BY <3>2, <4>2 DEF VoucherInv
        <5> QED BY <4>2, <5>1
      <4>3. CASE coupon'.used_count = coupon.used_count + 1
        BY <1>2, <1>3, <1>6, <3>10, <3>12, <4>3
      <4> QED BY <3>11, <4>1, <4>2, <4>3
    <3>14. VoucherInv'
      BY <1>5, <2>3, <2>5, <3>6, <3>11, <3>13
    <3> QED BY <3>5, <3>9, <3>14
  <2> QED BY <2>6, <2>7
<1>13. ASSUME NEW b \in Buyers, PayLater(b) PROVE SalesInv'
  <2>1. /\ Len(orders) < session.orders /\ buyer' = [buyer EXCEPT ![b] = Absent] /\ coupon' = coupon
    BY <1>13 DEF PayLater
  <2>2. Deciding' = Deciding \ {b} /\ \A c \in Deciding' : buyer'[c] = buyer[c]
    BY <1>11, <2>1
  <2>3. PICK D : D = Deciding'
    OBVIOUS
  <2>4. Cardinality(D) \in Nat /\ Cardinality(D) <= d
    BY <1>1, <1>8, <2>2, <2>3, Fewer
  <2>5. \A c \in D : buyer'[c].limit \in Nat /\ (buyer'[c].limit = 0 => tops.limit >= Unlimited)
    BY <2>2, <2>3 DEF VoucherInv
  <2>6. PICK redeemed, checked, paid : redeemed = (buyer[b].due.discount > 0) /\ checked = FALSE /\ paid = FALSE
    OBVIOUS
  <2>7. orders' = Append(orders, [paid |-> paid, redeemed |-> redeemed, checked |-> checked])
    BY <1>13, <2>6 DEF PayLater
  <2>8. /\ Len(orders') = Len(orders) + 1 /\ Len(orders) \in Nat
        /\ orders'[Len(orders) + 1].checked = checked
        /\ \A o \in 1 .. Len(orders) : orders'[o] = orders[o]
        /\ CheckedSales' = CheckedSales /\ Redeemed' = Redeemed
    BY <2>6, <2>7, AppendedSales
  <2>9. OrdersInv'
    <3>1. session' = session /\ session.orders \in Nat /\ Len(orders') <= session.orders
      BY <1>13, <2>1, <2>8, SalesCounts DEF PayLater
    <3>2. ASSUME NEW o \in 1 .. Len(orders'), orders'[o].checked PROVE orders'[o].paid
      <4>1. o \in 1 .. Len(orders) \/ o = Len(orders) + 1
        BY <2>8
      <4> QED BY <2>6, <2>8, <3>2, <4>1 DEF OrdersInv
    <3> QED BY <3>1, <3>2 DEF OrdersInv
  <2>10. tops.stock >= Unlimited \/ s + Cardinality(D) <= tops.stock + n - 1
    BY <1>2, <1>3, <1>7, <2>4
  <2>11. StockInv'
    BY <1>1, <1>2, <1>4, <2>3, <2>4, <2>8, <2>10
  <2>12. VoucherInv'
    BY <1>1, <1>5, <1>6, <2>1, <2>3, <2>5, <2>8
  <2> QED BY <2>9, <2>11, <2>12
<1>14. ASSUME NEW o \in DOMAIN orders, CompletePending(o) PROVE SalesInv'
  <2>1. CheckedSales' = CheckedSales /\ Redeemed' = Redeemed /\ OrdersInv' /\ buyer' = buyer
    BY <1>14, CompletedSales
  <2>2. Deciding' = Deciding
    BY <2>1 DEF Deciding
  <2>3. StockInv'
    BY <1>1, <1>2, <1>4, <1>7, <2>1, <2>2
  <2>4. /\ coupon' \in CouponRows /\ coupon'.usage_limit = coupon.usage_limit
        /\ \/ Usable /\ coupon'.used_count = coupon.used_count + 1
           \/ coupon' = coupon
    BY <1>14, RedeemForm DEF SalesType, CompletePending
  <2>5. tops.limit >= Unlimited \/ (r <= coupon'.used_count + tops.lost /\ coupon'.used_count <= tops.limit)
    BY <1>9, <2>4
  <2>6. \A c \in Deciding : buyer'[c].limit \in Nat /\ (buyer'[c].limit = 0 => tops.limit >= Unlimited)
    BY <2>1 DEF VoucherInv
  <2>7. VoucherInv'
    BY <1>1, <1>5, <2>1, <2>2, <2>4, <2>5, <2>6
  <2> QED BY <2>1, <2>3, <2>7
<1> QED BY <1>10, <1>12, <1>13, <1>14, BuySteps

LEMMA SalesInit ==
  ASSUME CatalogOK, ShopInit
  PROVE  SalesInv
<1>0. SalesType /\ RequestType
  BY ShopStarts DEF ShopInv, ShopBase
<1>1. /\ session \in Sessions /\ coupon \in session.coupons /\ orders = <<>> /\ buyer = [b \in Buyers |-> Absent]
      /\ tops = [stock |-> StockTop(plan), limit |-> LimitTop(coupon), lost |-> 0]
      /\ request = [t \in Windows |-> NoRequest]
  BY DEF ShopInit
<1>2. tops.stock = StockTop(plan) /\ tops.limit = LimitTop(coupon) /\ tops.lost = 0
  BY <1>1
<1>3. Len(orders) = 0 /\ session.orders \in Nat
  <2>1. \A s \in Sessions : s.orders \in 0 .. Unlimited
    BY DEF CatalogOK, SalesOK
  <2>2. session.orders \in 0 .. 1000
    BY <1>1, <2>1 DEF Unlimited
  <2>3. Len(orders) = 0
    BY <1>1, Lists
  <2>4. session.orders \in Nat
    BY <2>2
  <2> QED BY <2>3, <2>4
<1>4. OrdersInv
  BY <1>3 DEF OrdersInv
<1>5. CheckedSales = {} /\ Redeemed = {}
  BY <1>1, EmptySeq DEF CheckedSales, Paid, Redeemed
<1>6. Deciding = {}
  BY <1>1 DEF Deciding, Absent
<1>7. \A T : T = {} => Cardinality(T) = 0
  BY FS_EmptySet
<1>8. Cardinality(CheckedSales) = 0 /\ Cardinality(Redeemed) = 0 /\ Cardinality(Deciding) = 0
  BY <1>5, <1>6, <1>7
<1>9. StockTop(plan) \in Nat /\ LimitTop(coupon) \in Nat /\ coupon.used_count \in Nat /\ coupon.usage_limit \in Nat
  BY <1>0, PlanFacts DEF SalesType, CouponRows, LimitTop, Unlimited
<1>10. StockInv
  <2>1. Cardinality(Buyers) \in Nat \ {0}
    BY <1>0, <1>4, SalesCounts
  <2> QED BY <1>2, <1>8, <1>9, <2>1 DEF StockInv
<1>11. VoucherInv
  <2>1. coupon.usage_limit > 0 => coupon.used_count <= coupon.usage_limit
    BY <1>1 DEF CatalogOK, SalesOK
  <2>2. \A t \in Windows : Len(request[t].todo) = 0
    BY <1>1, IdleRequest
  <2>3. tops.limit >= Unlimited \/ coupon.used_count <= tops.limit
    BY <1>2, <1>9, <2>1 DEF LimitTop, Unlimited
  <2> QED BY <1>2, <1>6, <1>8, <1>9, <2>2, <2>3 DEF VoucherInv
<1> QED BY <1>4, <1>10, <1>11 DEF SalesInv

LEMMA SalesStutter ==
  ASSUME SalesInv, CatalogSame
  PROVE  SalesInv'
<1>1. OrdersInv'
  BY DEF SalesInv, CatalogSame, OrdersInv
<1>2. CheckedSales' = CheckedSales /\ Redeemed' = Redeemed /\ Deciding' = Deciding
  BY DEF CatalogSame, CheckedSales, Paid, Redeemed, Deciding
<1>3. StockInv'
  BY <1>2 DEF SalesInv, CatalogSame, StockInv
<1>4. VoucherInv'
  BY <1>2 DEF SalesInv, CatalogSame, VoucherInv
<1> QED BY <1>1, <1>3, <1>4 DEF SalesInv

LEMMA SalesNext ==
  ASSUME CatalogOK, ShopInv, SalesInv, ShopNext
  PROVE  SalesInv'
<1>1. SalesType' /\ SalesType /\ ShopBase
  BY ShopStep DEF ShopInv, ShopBase
<1> QED BY <1>1, SellerSteps, SalesAfterSeller, SalesAfterBuyer

\* Orders, stock and voucher: what buyers past the checks may still add is counted in.
THEOREM SalesInvariant == ShopSpec => []SalesInv
<1>1. ShopInit => SalesInv
  BY SalesInit, CatalogAssumption
<1>2. ShopInv /\ SalesInv /\ [ShopNext]_shopvars => SalesInv'
  BY SalesNext, StutterSame, SalesStutter, CatalogAssumption
<1> QED BY <1>1, <1>2, ShopInvariant, PTL DEF ShopSpec

LEMMA SalesAreBounded ==
  ASSUME CatalogOK, SalesType, SalesInv
  PROVE  OversoldOnlyByOverlap /\ RedeemedWithinLimit
<1> USE DEF SalesInv
<1>1. PICK s, d, r, n : /\ s = Cardinality(CheckedSales) /\ d = Cardinality(Deciding)
                        /\ r = Cardinality(Redeemed) /\ n = Cardinality(Buyers)
  OBVIOUS
<1>2. /\ s \in Nat /\ d \in Nat /\ r \in Nat /\ n \in Nat \ {0} /\ r <= s /\ s <= 1000
      /\ tops.stock \in Nat /\ tops.limit \in Nat /\ tops.lost \in Nat /\ coupon.used_count \in Nat
  <2>1. s <= Cardinality(Paid) /\ Cardinality(Paid) <= Len(orders) /\ Len(orders) <= 1000
        /\ Cardinality(Paid) \in Nat /\ Len(orders) \in Nat /\ s \in Nat
    BY <1>1, SalesCounts
  <2> QED BY <1>1, <2>1, SalesCounts
<1>3. s <= tops.stock + n - 1
  <2>1. tops.stock >= 1000 \/ s + d <= tops.stock + n - 1
    BY <1>1 DEF StockInv, Unlimited
  <2> QED BY <1>2, <2>1
<1>4. r <= tops.limit + tops.lost
  <2>1. tops.limit >= 1000 \/ (r <= coupon.used_count + tops.lost /\ coupon.used_count <= tops.limit)
    BY <1>1 DEF VoucherInv, Unlimited
  <2> QED BY <1>2, <2>1
<1>5. Redeemed = {o \in CheckedSales : orders[o].redeemed}
  BY DEF Redeemed
<1> QED BY <1>1, <1>3, <1>4, <1>5 DEF OversoldOnlyByOverlap, RedeemedWithinLimit

\* checkout_plan looks at the stock before checkout() is called and nothing holds the
\* plan in between: with n buyers who pay at once no more than n - 1 pieces are sold
\* beyond the greatest stock there was.
THEOREM OversoldBounded == ShopSpec => []OversoldOnlyByOverlap
<1>1. ShopInv /\ SalesInv => OversoldOnlyByOverlap
  BY SalesAreBounded, CatalogAssumption DEF ShopInv, ShopBase
<1> QED BY <1>1, ShopInvariant, SalesInvariant, PTL

\* The conditional update of Coupon.used_count: purchases paid at once redeem a voucher
\* no more often than its limit allows, but for the uses that an edit of the voucher
\* has overwritten.
THEOREM RedeemedBounded == ShopSpec => []RedeemedWithinLimit
<1>1. ShopInv /\ SalesInv => RedeemedWithinLimit
  BY SalesAreBounded, CatalogAssumption DEF ShopInv, ShopBase
<1> QED BY <1>1, ShopInvariant, SalesInvariant, PTL

-----------------------------------------------------------------------------
(* The price that is shown and the price that is charged *)

\* What is kept of a voucher in the terms of a quote.
Kept(c) == IF c = NoCoupon THEN c ELSE [c EXCEPT !.used_count = 0]

LEMMA KeptVoucher ==
  ASSUME CatalogOK, NEW c \in CouponRows \cup {NoCoupon}
  PROVE  /\ Kept(c) \in CouponRows \cup {NoCoupon}
         /\ c = NoCoupon <=> Kept(c) = NoCoupon
         /\ c # NoCoupon => /\ c \in CouponRows
                            /\ Kept(c).percent = c.percent /\ Kept(c).value = c.value
                            /\ Kept(c).max_discount = c.max_discount
<1>1. NoCoupon \notin CouponRows
  BY DEF CatalogOK, SalesOK
<1>2. CASE c = NoCoupon
  BY <1>2 DEF Kept
<1>3. CASE c # NoCoupon
  <2>1. c \in CouponRows
    BY <1>3
  <2>2. Kept(c) = [c EXCEPT !.used_count = 0]
    BY <1>3 DEF Kept
  <2>3. /\ Kept(c) \in CouponRows /\ Kept(c).percent = c.percent /\ Kept(c).value = c.value
        /\ Kept(c).max_discount = c.max_discount
    BY <2>1, <2>2 DEF CouponRows
  <2> QED BY <1>1, <1>3, <2>1, <2>3
<1> QED BY <1>2, <1>3

\* The number of uses does not enter the price.
LEMMA QuoteOfTerms ==
  ASSUME CatalogOK, NEW p, NEW asked, NEW c \in CouponRows \cup {NoCoupon}
  PROVE  quote(p, asked, c) = quote(p, asked, Kept(c))
<1>1. CASE c = NoCoupon
  BY <1>1 DEF Kept
<1>2. CASE c # NoCoupon
  <2>1. PICK d : d = Kept(c)
    OBVIOUS
  <2>2. d # NoCoupon /\ d.percent = c.percent /\ d.value = c.value /\ d.max_discount = c.max_discount
    BY <1>2, <2>1, KeptVoucher
  <2>3. \A amount : compute_discount(c, amount) = compute_discount(d, amount)
    BY <2>2 DEF compute_discount
  <2>4. quote(p, asked, c) = quote(p, asked, d)
    BY <1>2, <2>2, <2>3 DEF quote
  <2> QED BY <2>1, <2>4
<1> QED BY <1>1, <1>2

\* Nothing comes off a price of nothing.
LEMMA NoDiscount ==
  ASSUME NEW c \in CouponRows
  PROVE  compute_discount(c, 0) = 0
<1>1. c.value \in Nat /\ c.max_discount \in Nat
  BY DEF CouponRows
<1>2. (0 * c.value) \div 100 = 0
  BY <1>1
<1>3. PICK x \in Nat : compute_discount(c, 0) = Least(0, x)
  <2>1. CASE ~c.percent
    BY <1>1, <2>1 DEF compute_discount
  <2>2. CASE c.percent /\ c.max_discount > 0
    <3>1. Least(0, c.max_discount) = 0
      BY <1>1, LeastOf
    <3>2. compute_discount(c, 0) = Least(0, Least(0, c.max_discount))
      BY <1>2, <2>2 DEF compute_discount
    <3> QED BY <3>1, <3>2
  <2>3. CASE c.percent /\ ~(c.max_discount > 0)
    BY <1>2, <2>3 DEF compute_discount
  <2> QED BY <2>1, <2>2, <2>3
<1> QED BY <1>3, LeastOf

LEMMA FreeQuote ==
  ASSUME CatalogOK, NEW p \in PlanSet, p.price = 0, NEW asked \in Nat, NEW c \in CouponRows \cup {NoCoupon}
  PROVE  quote(p, asked, c) = 0
<1>1. PICK dm : dm = IF p.recurring THEN Most(1, asked) ELSE 1
  OBVIOUS
<1>2. dm \in Nat
  BY <1>1, MostOf
<1>3. PICK t : t = Tier(p, dm)
  OBVIOUS
<1>4. t \in Nat
  BY <1>3, PlanFacts DEF Tier, PlanOK
<1>5. 0 * dm = 0 /\ 0 * t = 0 /\ 0 \div 100 = 0
  BY <1>2, <1>4
<1>6. PICK base : base = IF p.recurring /\ dm > 1 THEN p.price * dm - (p.price * dm * t) \div 100 ELSE p.price
  OBVIOUS
<1>7. base = 0
  <2>1. p.price * dm = 0
    BY <1>5
  <2>2. p.price * dm * t = 0
    BY <1>5, <2>1
  <2> QED BY <1>5, <1>6, <2>1, <2>2
<1>8. PICK discount : discount = IF c = NoCoupon THEN 0 ELSE compute_discount(c, base)
  OBVIOUS
<1>9. discount = 0
  BY <1>7, <1>8, NoDiscount
<1>10. quote(p, asked, c) = Most(0, base - discount)
  BY <1>1, <1>3, <1>6, <1>8 DEF quote
<1>11. Most(0, 0) = 0
  BY MostOf
<1> QED BY <1>7, <1>9, <1>10, <1>11

\* checkout() charges what the page shows.
LEMMA ChargeIsQuote ==
  ASSUME CatalogOK, NEW p \in PlanSet, ~p.pwyw, NEW asked \in Nat, NEW c \in CouponRows \cup {NoCoupon},
         c # NoCoupon => is_valid_for(c), NEW type, NEW typed
  PROVE  \/ charge(type, p, asked, c, price_override(p, typed)).amount = quote(p, asked, c)
         \/ type = "free" /\ charge(type, p, asked, c, price_override(p, typed)).amount = 0
<1>1. PICK o : o = price_override(p, typed)
  OBVIOUS
<1>2. pwyw_price(p, o) = 0
  BY DEF pwyw_price
<1>3. IsFree(type, p, o) <=> type = "free" \/ p.price = 0
  BY <1>2 DEF IsFree
<1>4. CASE IsFree(type, p, o)
  <2>1. charge(type, p, asked, c, o) = [amount |-> 0, discount |-> 0]
    BY <1>4 DEF charge
  <2>2. charge(type, p, asked, c, o).amount = 0
    BY <2>1
  <2>3. p.price = 0 => quote(p, asked, c) = 0
    BY FreeQuote
  <2> QED BY <1>1, <1>3, <1>4, <2>2, <2>3
<1>5. CASE ~IsFree(type, p, o)
  <2>1. PICK dm : dm = IF p.recurring THEN Most(1, asked) ELSE 1
    OBVIOUS
  <2>2. ~p.recurring => ~(dm > 1)
    BY <2>1
  <2>3. PICK base : base = IF dm > 1 THEN p.price * dm - (p.price * dm * Tier(p, dm)) \div 100 ELSE p.price
    OBVIOUS
  <2>4. base = IF p.recurring /\ dm > 1 THEN p.price * dm - (p.price * dm * Tier(p, dm)) \div 100 ELSE p.price
    BY <2>2, <2>3
  <2>5. PICK discount : discount = IF c = NoCoupon THEN 0 ELSE compute_discount(c, base)
    OBVIOUS
  <2>6. discount = IF c # NoCoupon /\ is_valid_for(c) THEN compute_discount(c, base) ELSE 0
    BY <2>5
  <2>7. quote(p, asked, c) = Most(0, base - discount)
    BY <2>1, <2>4, <2>5 DEF quote
  <2>8. charge(type, p, asked, c, o) = [amount |-> Most(0, base - discount), discount |-> discount]
    <3>1. ~(pwyw_price(p, o) > 0)
      BY <1>2
    <3> QED BY <1>5, <2>1, <2>3, <2>6, <3>1 DEF charge
  <2> QED BY <1>1, <2>7, <2>8
<1> QED BY <1>4, <1>5

\* The terms are the type, the plan and the voucher.
LEMMA TermsOf ==
  ASSUME NEW c
  PROVE  Terms(c).type = products[1].type /\ Terms(c).plan = plan /\ Terms(c).coupon = Kept(c)
BY DEF Terms, Kept

LEMMA QuoteAfterBuyer ==
  ASSUME CatalogOK, SalesType, QuoteInv, NEW b \in Buyers, Buy(b)
  PROVE  QuoteInv'
<1>1. plan \in PlanSet /\ coupon \in CouponRows /\ DOMAIN buyer = Buyers /\ session \in Sessions
  BY DEF SalesType
<1>2. ASSUME NEW v, Quoted(v), buyer' = [buyer EXCEPT ![b] = v] PROVE QuoteInv'
  <2>1. buyer'[b] = v /\ \A c \in Buyers \ {b} : buyer'[c] = buyer[c]
    BY <1>1, <1>2
  <2> QED BY <1>2, <2>1 DEF QuoteInv
<1>3. session.durations \subseteq Nat
  BY <1>1 DEF CatalogOK, SalesOK
<1>4. ASSUME NEW code PROVE Resolve(code, coupon) \in CouponRows \cup {NoCoupon}
                            /\ (Resolve(code, coupon) # NoCoupon => is_valid_for(Resolve(code, coupon)))
  BY <1>1 DEF Resolve
<1>5. Quoted(Absent)
  BY DEF Quoted, Absent
<1>6. ASSUME NEW asked \in session.durations, OpenCart(b, asked) PROVE QuoteInv'
  <2>1. PICK m, w : m = compute_cart_line(plan, asked, NoCoupon).amount /\ w = Terms(NoCoupon)
    OBVIOUS
  <2> DEFINE v == [pc |-> "cart", asked |-> asked, code |-> FALSE, quote |-> m, terms |-> w]
  <2>2. v.pc = "cart" /\ v.asked = asked /\ v.quote = m /\ v.terms = w
    OBVIOUS
  <2>3. buyer' = [buyer EXCEPT ![b] = v]
    BY <1>6, <2>1 DEF OpenCart
  <2> HIDE DEF v
  <2>4. w.plan = plan
    BY <2>1, TermsOf
  <2>5. Quoted(v)
    BY <2>1, <2>2, <2>4 DEF Quoted
  <2> QED BY <1>2, <2>3, <2>5
<1>7. ASSUME NEW asked \in session.durations, NEW code, OpenCheckout(b, asked, code) PROVE QuoteInv'
  <2>1. PICK x : x = Resolve(code, coupon)
    OBVIOUS
  <2>2. PICK m, w, qs : m = quote(plan, asked, x) /\ w = Terms(x) /\ qs = products[1].questions
    OBVIOUS
  <2> DEFINE v == [pc |-> "page", asked |-> asked, code |-> code, questions |-> qs, quote |-> m, terms |-> w]
  <2>3. v.pc = "page" /\ v.asked = asked /\ v.quote = m /\ v.terms = w
    OBVIOUS
  <2>4. buyer' = [buyer EXCEPT ![b] = v]
    BY <1>7, <2>1, <2>2 DEF OpenCheckout
  <2> HIDE DEF v
  <2>5. x \in CouponRows \cup {NoCoupon} /\ w.plan = plan /\ w.coupon = Kept(x) /\ asked \in Nat
    BY <1>3, <1>4, <2>1, <2>2, TermsOf
  <2>6. Kept(x) \in CouponRows \cup {NoCoupon} /\ quote(plan, asked, x) = quote(plan, asked, Kept(x))
    BY <2>5, KeptVoucher, QuoteOfTerms
  <2>7. Quoted(v)
    BY <2>2, <2>3, <2>5, <2>6 DEF Quoted
  <2> QED BY <1>2, <2>4, <2>7
<1>8. ASSUME NEW typed \in session.amounts, SubmitCheckout(b, typed) PROVE QuoteInv'
  <2>1. PICK x, u : x = Resolve(buyer[b].code, coupon) /\ u = buyer[b]
    OBVIOUS
  <2>2. PICK w, o, due : /\ w = Terms(x) /\ o = price_override(plan, typed)
                         /\ due = charge(products[1].type, plan, u.asked, x, o)
    OBVIOUS
  <2>3. PICK limit, free : limit = coupon.usage_limit /\ free = IsFree(products[1].type, plan, o)
    OBVIOUS
  <2> DEFINE v == [pc |-> "checkout", quote |-> u.quote, terms |-> u.terms, now |-> w, due |-> due,
                   limit |-> limit, free |-> free]
  <2>4. v.pc = "checkout" /\ v.quote = u.quote /\ v.terms = u.terms /\ v.now = w /\ v.due = due
    OBVIOUS
  <2>5. buyer' = [buyer EXCEPT ![b] = v] /\ u.pc = "page"
    BY <1>8, <2>1, <2>2, <2>3 DEF SubmitCheckout
  <2> HIDE DEF v
  <2>6. /\ u.quote = quote(u.terms.plan, u.asked, u.terms.coupon) /\ u.asked \in Nat
    BY <2>1, <2>5 DEF QuoteInv, Quoted
  <2>7. /\ x \in CouponRows \cup {NoCoupon} /\ (x # NoCoupon => is_valid_for(x))
        /\ w.plan = plan /\ w.type = products[1].type /\ w.coupon = Kept(x)
    BY <1>4, <2>1, <2>2, TermsOf
  <2>8. ASSUME w = u.terms, ~plan.pwyw
        PROVE  due.amount = u.quote \/ (w.type = "free" /\ due.amount = 0)
    <3>1. u.quote = quote(plan, u.asked, x)
      BY <2>6, <2>7, <2>8, QuoteOfTerms
    <3>2. \/ due.amount = quote(plan, u.asked, x)
          \/ products[1].type = "free" /\ due.amount = 0
      BY <1>1, <2>2, <2>6, <2>7, <2>8, ChargeIsQuote
    <3> QED BY <2>7, <3>1, <3>2
  <2>9. Quoted(v)
    <3>1. ASSUME w = u.terms
          PROVE  due.amount = u.quote \/ u.terms.plan.pwyw \/ (u.terms.type = "free" /\ due.amount = 0)
      BY <2>7, <2>8, <3>1
    <3> QED BY <2>4, <3>1 DEF Quoted
  <2> QED BY <1>2, <2>5, <2>9
<1>9. ASSUME SubmitCart(b) PROVE QuoteInv'
  <2>1. PICK u : u = buyer[b]
    OBVIOUS
  <2>2. PICK w, due : w = Terms(NoCoupon) /\ due = compute_cart_line(plan, u.asked, NoCoupon)
    OBVIOUS
  <2> DEFINE v == [pc |-> "checkout_cart", quote |-> u.quote, terms |-> u.terms, now |-> w, due |-> due,
                   limit |-> 0, free |-> FALSE]
  <2>3. v.pc = "checkout_cart" /\ v.quote = u.quote /\ v.terms = u.terms /\ v.now = w /\ v.due = due
    OBVIOUS
  <2>4. buyer' = [buyer EXCEPT ![b] = v] /\ u.pc = "cart"
    BY <1>9, <2>1, <2>2 DEF SubmitCart
  <2> HIDE DEF v
  <2>5. u.quote = compute_cart_line(u.terms.plan, u.asked, NoCoupon).amount /\ w.plan = plan
    BY <2>1, <2>2, <2>4, TermsOf DEF QuoteInv, Quoted
  <2>6. w = u.terms => due.amount = u.quote
    BY <2>2, <2>5
  <2>7. Quoted(v)
    BY <2>3, <2>6 DEF Quoted
  <2> QED BY <1>2, <2>4, <2>7
<1>10. CASE PayNow(b) \/ PayLater(b) \/ Leave(b)
  <2>1. buyer' = [buyer EXCEPT ![b] = Absent]
    BY <1>10 DEF PayNow, PayLater, Leave
  <2> QED BY <1>2, <1>5, <2>1
<1> QED BY <1>6, <1>7, <1>8, <1>9, <1>10 DEF Buy

LEMMA QuoteNext ==
  ASSUME CatalogOK, ShopInv, QuoteInv, ShopNext
  PROVE  QuoteInv'
<1>1. ShopBase /\ SalesType
  BY DEF ShopInv, ShopBase
<1>2. ASSUME buyer' = buyer PROVE QuoteInv'
  BY <1>2 DEF QuoteInv
<1>3. CASE SellerStep
  BY <1>2, <1>3 DEF SellerStep
<1>4. ASSUME NEW o \in DOMAIN orders, CompletePending(o) PROVE QuoteInv'
  BY <1>2, <1>4 DEF CompletePending
<1>5. CASE Buying
  BY <1>1, <1>4, <1>5, QuoteAfterBuyer DEF Buying
<1> QED BY <1>1, <1>3, <1>5, SellerSteps

\* The page, checkout() and the cart compute the price on their own, and the seller may
\* edit product, plan and voucher between the page and the POST: a buyer for whom these
\* are the same in the end is charged what was shown, for every plan and voucher.
THEOREM QuoteHolds == ShopSpec => []QuoteHonoured
<1>1. ShopInit => QuoteInv
  BY DEF ShopInit, QuoteInv, Quoted, Absent
<1>2. CatalogSame /\ QuoteInv => QuoteInv'
  BY DEF CatalogSame, QuoteInv
<1>3. ShopInv /\ QuoteInv /\ [ShopNext]_shopvars => QuoteInv'
  BY <1>2, QuoteNext, StutterSame, CatalogAssumption
<1>4. QuoteInv => QuoteHonoured
  BY DEF QuoteInv, Quoted, QuoteHonoured
<1> QED BY <1>1, <1>3, <1>4, ShopInvariant, PTL DEF ShopSpec

-----------------------------------------------------------------------------
(* The wizard *)

\* Products, plans and blocks are only added.
RowsGrow ==
  /\ Len(products) <= Len(products') /\ Len(blocks) <= Len(blocks') /\ Len(products') \in Nat /\ Len(blocks') \in Nat
  /\ \A i \in 1 .. Len(products) : /\ products'[i].visibility = products[i].visibility
                                   /\ Len(products[i].plans) # 0 => Len(products'[i].plans) # 0
  /\ \A k \in 1 .. Len(blocks) : blocks'[k] = blocks[k]

LEMMA GrowSame ==
  ASSUME ShopType, UNCHANGED <<products, blocks>>
  PROVE  RowsGrow
BY DEF ShopType, RowsGrow

LEMMA SellableKept ==
  ASSUME ShopType, RowsGrow, Sellable
  PROVE  Sellable'
<1>1. Len(products) \in Nat /\ Len(blocks) \in Nat
  BY DEF ShopType
<1>2. PICK i \in 1 .. Len(products) :
        /\ products[i].visibility = "public" /\ Len(products[i].plans) # 0
        /\ \E k \in 1 .. Len(blocks) : blocks[k].product = i /\ blocks[k].is_visible /\ ~blocks[k].deleted
  BY DEF Sellable
<1>3. PICK k \in 1 .. Len(blocks) : blocks[k].product = i /\ blocks[k].is_visible /\ ~blocks[k].deleted
  BY <1>2
<1>4. i \in 1 .. Len(products') /\ k \in 1 .. Len(blocks') /\ blocks'[k] = blocks[k]
  BY <1>1 DEF RowsGrow
<1>5. products'[i].visibility = "public" /\ Len(products'[i].plans) # 0
  BY <1>2 DEF RowsGrow
<1> QED BY <1>3, <1>4, <1>5 DEF Sellable

LEMMA WizardOther ==
  ASSUME ShopBase, RowsGrow, profile.exists => profile'.exists, NEW u \in Windows, Wizard(u), request'[u] = request[u]
  PROVE  Wizard(u)'
<1> USE DEF ShopBase
<1>1. Sellable => Sellable'
  BY SellableKept
<1>2. Pending(u, "completed")' => Pending(u, "completed")
  BY DEF Pending
<1>3. PICK i : i = request[u].product
  OBVIOUS
<1>4. i # 0 => i \in 1 .. Len(products)
  BY <1>3, PlansTyped DEF AimInv, Aimed
<1>5. i # 0 => /\ products'[i].visibility = products[i].visibility
               /\ Len(products[i].plans) # 0 => Len(products'[i].plans) # 0
  BY <1>4 DEF RowsGrow
<1>6. \A k : Way(u, k) => Way(u, k)'
  BY <1>1, <1>3, <1>5 DEF Way
<1> QED BY <1>1, <1>2, <1>6 DEF Wizard

LEMMA WizardIdle ==
  ASSUME NEW t \in Windows, request'[t] = NoRequest
  PROVE  Wizard(t)'
BY IdleRequest DEF Wizard, Pending

\* A request of the wizard executes its next statement.
LEMMA WizardMoved ==
  ASSUME ShopBase, NEW t \in Windows, Wizard(t), NEW op, Now(t, op), NEW i, NEW j, MovesOn(t, i, j),
         Sellable => Sellable', profile.exists => profile'.exists,
         op = "product" /\ request[t].todo[1].row.visibility = "public" => i # 0 /\ products'[i].visibility = "public",
         op = "plan" /\ request[t].product # 0 /\ products[request[t].product].visibility = "public"
           => i # 0 /\ products'[i].visibility = "public" /\ Len(products'[i].plans) # 0,
         op = "block" /\ request[t].product # 0 /\ products[request[t].product].visibility = "public"
           /\ Len(products[request[t].product].plans) # 0 => Sellable'
  PROVE  Wizard(t)'
<1> USE DEF ShopBase
<1>1. request[t].todo[1].op = op /\ Len(request[t].todo) \in Nat \ {0} /\ request[t].todo \in Seq(Statements)
  BY NextStatement
<1>2. CASE request'[t] = NoRequest
  BY <1>2, WizardIdle
<1>3. CASE request'[t].product = i
  <2>1. /\ Len(request'[t].todo) = Len(request[t].todo) - 1
        /\ \A k \in 1 .. Len(request'[t].todo) :
             k + 1 \in 1 .. Len(request[t].todo) /\ request'[t].todo[k] = request[t].todo[k + 1]
    BY DEF MovesOn
  <2>2. \A k \in 1 .. Len(request'[t].todo) : request'[t].todo[k].op \in WizardOps
    BY <2>1 DEF Wizard
  <2>3. Pending(t, "completed")' => Sellable' /\ profile'.exists
    <3>1. Pending(t, "completed")' => Pending(t, "completed")
      BY <2>1 DEF Pending
    <3> QED BY <3>1 DEF Wizard
  <2>4. ASSUME NEW k \in 1 .. Len(request'[t].todo), Publishes(request'[t].todo[k])
        PROVE  k = Len(request'[t].todo) /\ Way(t, k)'
    <3>1. PICK l : l = k + 1
      OBVIOUS
    <3>2. l \in 1 .. Len(request[t].todo) /\ Publishes(request[t].todo[l]) /\ l # 1
      BY <2>1, <2>4, <3>1
    <3>3. l = Len(request[t].todo) /\ Way(t, l)
      BY <3>2 DEF Wizard
    <3>4. k = Len(request'[t].todo)
      BY <1>1, <2>1, <3>1, <3>3
    <3>5. CASE l = 4 /\ op = "product" /\ request[t].todo[1].row.visibility = "public"
               /\ request[t].todo[2].op = "plan" /\ request[t].todo[3].op = "block"
      <4>1. k = 3
        BY <3>1, <3>5
      <4>2. 1 \in 1 .. Len(request'[t].todo) /\ 2 \in 1 .. Len(request'[t].todo)
        BY <3>4, <4>1
      <4>3. request'[t].todo[1] = request[t].todo[2] /\ request'[t].todo[2] = request[t].todo[3]
        BY <2>1, <4>2
      <4> QED BY <1>3, <3>4, <3>5, <4>1, <4>3 DEF Way
    <3>6. CASE l = 3 /\ op = "plan" /\ request[t].todo[2].op = "block" /\ request[t].product # 0
               /\ products[request[t].product].visibility = "public"
      <4>1. k = 2
        BY <3>1, <3>6
      <4>2. 1 \in 1 .. Len(request'[t].todo)
        BY <3>4, <4>1
      <4>3. request'[t].todo[1] = request[t].todo[2]
        BY <2>1, <4>2
      <4> QED BY <1>3, <3>4, <3>6, <4>1, <4>3 DEF Way
    <3>7. CASE l = 2 /\ op = "block" /\ request[t].product # 0
               /\ products[request[t].product].visibility = "public" /\ Len(products[request[t].product].plans) # 0
      <4>1. k = 1
        BY <3>1, <3>7
      <4> QED BY <3>4, <3>7, <4>1 DEF Way
    <3> QED BY <1>1, <3>2, <3>3, <3>5, <3>6, <3>7 DEF Way
  <2> QED BY <2>2, <2>3, <2>4 DEF Wizard
<1> QED BY <1>2, <1>3 DEF MovesOn

\* A request of the wizard begins.
LEMMA WizardBegins ==
  ASSUME RequestType, NEW t \in Windows, NEW q, Begins(t, q, 0, 0),
         \A k \in 1 .. Len(q) : q[k].op \in WizardOps,
         (\E k \in 1 .. Len(q) : q[k].op = "completed") => Sellable /\ profile.exists,
         \A k \in 1 .. Len(q) : Publishes(q[k]) =>
           /\ k = 4 /\ Len(q) = 4 /\ q[2].op = "plan" /\ q[3].op = "block"
           /\ q[1].op = "product" /\ q[1].row.visibility = "public"
  PROVE  Wizard(t)' /\ \A u \in Windows \ {t} : request'[u] = request[u]
<1>1. \A u \in Windows \ {t} : request'[u] = request[u]
  BY DEF Begins, RequestType
<1>2. Sellable' = Sellable /\ profile' = profile
  BY DEF Begins, Sellable
<1>3. CASE q = <<>>
  <2>1. request'[t] = NoRequest
    BY <1>3 DEF Begins, RequestType
  <2> QED BY <1>1, <2>1, WizardIdle
<1>4. CASE q # <<>>
  <2> DEFINE r == [todo |-> q, product |-> 0, plan |-> 0]
  <2>1. r.todo = q
    OBVIOUS
  <2>2. request' = [request EXCEPT ![t] = r]
    BY <1>4 DEF Begins
  <2> HIDE DEF r
  <2>3. request'[t].todo = q
    BY <2>1, <2>2 DEF RequestType
  <2>4. Pending(t, "completed")' => Sellable' /\ profile'.exists
    BY <1>2, <2>3 DEF Pending
  <2>5. \A k \in 1 .. Len(request'[t].todo) : Publishes(request'[t].todo[k]) =>
          k = Len(request'[t].todo) /\ Way(t, k)'
    BY <2>3 DEF Way
  <2> QED BY <1>1, <2>3, <2>4, <2>5 DEF Wizard
<1> QED BY <1>3, <1>4

LEMMA WizardRequests ==
  ASSUME ShopBase, WizardInv, ~profile.completed, NEW t \in Windows, Serve(t)
  PROVE  /\ UNCHANGED <<products, blocks, profile>>
         /\ Wizard(t)' /\ \A u \in Windows \ {t} : request'[u] = request[u]
<1> USE DEF ShopBase
<1> DEFINE G == /\ UNCHANGED <<products, blocks, profile>>
                /\ Wizard(t)' /\ \A u \in Windows \ {t} : request'[u] = request[u]
<1>1. apply(t) \/ \E type \in session.types, name \in session.names : onboarding(t, type, name)
  <2>1. ~Admitted
    BY DEF Admitted
  <2> QED BY <2>1 DEF Serve, settings, store, store_publish_toggle, block_remove, block_toggle_visibility,
             product_create, product_edit, block_add, product_delete, plan_create, question_add,
             question_remove, entitlement_add, entitlement_remove, plan_edit, voucher_edit, voucher_toggle
<1>2. ASSUME NEW kind, NEW q, Begin(t, kind, 0, 0, q),
             \A k \in 1 .. Len(q) : q[k].op \in WizardOps,
             (\E k \in 1 .. Len(q) : q[k].op = "completed") => Sellable /\ profile.exists,
             \A k \in 1 .. Len(q) : Publishes(q[k]) =>
               /\ k = 4 /\ Len(q) = 4 /\ q[2].op = "plan" /\ q[3].op = "block"
               /\ q[1].op = "product" /\ q[1].row.visibility = "public"
      PROVE  G
  <2>1. Begins(t, q, 0, 0)
    BY <1>2, BeginForm
  <2>2. UNCHANGED <<products, blocks, profile>>
    BY <2>1 DEF Begins
  <2>3. Wizard(t)' /\ \A u \in Windows \ {t} : request'[u] = request[u]
    BY <1>2, <2>1, WizardBegins
  <2> QED BY <2>2, <2>3
<1> HIDE DEF G
<1>3. ASSUME apply(t) PROVE G
  <2> DEFINE x == [op |-> "create_profile"]
             q == <<x>>
  <2>1. x.op = "create_profile" /\ Begin(t, "apply", 0, 0, q)
    BY <1>3 DEF apply
  <2> HIDE DEF x
  <2>2. Len(q) = 1 /\ q[1] = x
    OBVIOUS
  <2> HIDE DEF q
  <2>3. \A k \in 1 .. Len(q) : q[k].op = "create_profile"
    BY <2>1, <2>2
  <2>4. \A k \in 1 .. Len(q) : q[k].op \in WizardOps /\ q[k].op # "completed" /\ ~Publishes(q[k])
    BY <2>3 DEF WizardOps, Publishes
  <2>5. /\ \A k \in 1 .. Len(q) : q[k].op \in WizardOps
        /\ ~\E k \in 1 .. Len(q) : q[k].op = "completed"
        /\ \A k \in 1 .. Len(q) : ~Publishes(q[k])
    BY <2>4
  <2> QED BY <1>2, <2>1, <2>5
<1>4. ASSUME NEW type, NEW name, onboarding(t, type, name) PROVE G
  <2>1. profile.step \in {"identity", "product", "publish"} /\ profile.exists
    BY <1>4 DEF ShopType, Profiles, onboarding
  <2>2. CASE profile.step = "identity"
    <3> DEFINE x == [op |-> "page", is_published |-> page]
               y == [op |-> "step", step |-> "product"]
               q == <<x, y>>
    <3>1. x.op = "page" /\ y.op = "step" /\ y.step # "publish" /\ Begin(t, "onboarding", 0, 0, q)
      BY <1>4, <2>2 DEF onboarding
    <3> HIDE DEF x, y
    <3>2. Len(q) = 2 /\ q[1] = x /\ q[2] = y
      OBVIOUS
    <3> HIDE DEF q
    <3>3. \A k \in 1 .. Len(q) : k = 1 \/ k = 2
      BY <3>2
    <3>4. /\ x.op \in WizardOps /\ x.op # "completed" /\ ~Publishes(x)
          /\ y.op \in WizardOps /\ y.op # "completed" /\ ~Publishes(y)
      BY <3>1 DEF WizardOps, Publishes
    <3>5. \A k \in 1 .. Len(q) : q[k].op \in WizardOps /\ q[k].op # "completed" /\ ~Publishes(q[k])
      BY <3>2, <3>3, <3>4
    <3> QED BY <1>2, <3>1, <3>5
  <2>3. CASE profile.step = "product"
    <3> DEFINE r == NewProduct(type, "public", name)
               a == [op |-> "product", row |-> r]
               b == [op |-> "plan"]
               c == [op |-> "block"]
               d == [op |-> "step", step |-> "publish"]
               q == <<a, b, c, d>>
    <3>1. r.visibility = "public"
      BY DEF NewProduct
    <3>2. Begin(t, "onboarding", 0, 0, q)
      BY <1>4, <2>3 DEF onboarding, ProductStep
    <3> HIDE DEF r
    <3>3. a.op = "product" /\ a.row.visibility = "public" /\ b.op = "plan" /\ c.op = "block" /\ d.op = "step"
      BY <3>1
    <3> HIDE DEF a, b, c, d
    <3>4. Len(q) = 4 /\ q[1] = a /\ q[2] = b /\ q[3] = c /\ q[4] = d
      OBVIOUS
    <3> HIDE DEF q
    <3>5. \A k \in 1 .. Len(q) : k = 1 \/ k = 2 \/ k = 3 \/ k = 4
      BY <3>4
    <3>6. /\ a.op \in WizardOps /\ a.op # "completed" /\ ~Publishes(a)
          /\ b.op \in WizardOps /\ b.op # "completed" /\ ~Publishes(b)
          /\ c.op \in WizardOps /\ c.op # "completed" /\ ~Publishes(c)
          /\ d.op \in WizardOps /\ d.op # "completed"
      BY <3>3 DEF WizardOps, Publishes
    <3>7. \A k \in 1 .. Len(q) : /\ q[k].op \in WizardOps /\ q[k].op # "completed"
                                 /\ Publishes(q[k]) => k = 4
      BY <3>4, <3>5, <3>6
    <3>8. /\ Len(q) = 4 /\ q[2].op = "plan" /\ q[3].op = "block"
          /\ q[1].op = "product" /\ q[1].row.visibility = "public"
      BY <3>3, <3>4
    <3>9. \A k \in 1 .. Len(q) : q[k].op \in WizardOps
      BY <3>7
    <3>10. ~\E k \in 1 .. Len(q) : q[k].op = "completed"
      BY <3>7
    <3>11. \A k \in 1 .. Len(q) : Publishes(q[k]) => k = 4
      BY <3>7
    <3> QED BY <1>2, <3>2, <3>8, <3>9, <3>10, <3>11
  <2>4. CASE profile.step = "publish"
    <3> DEFINE x == [op |-> "page", is_published |-> TRUE]
               y == [op |-> "completed"]
               q == <<x, y>>
    <3>1. x.op = "page" /\ y.op = "completed" /\ Begin(t, "onboarding", 0, 0, q)
      BY <1>4, <2>4 DEF onboarding
    <3> HIDE DEF x, y
    <3>2. Len(q) = 2 /\ q[1] = x /\ q[2] = y
      OBVIOUS
    <3> HIDE DEF q
    <3>3. \A k \in 1 .. Len(q) : k = 1 \/ k = 2
      BY <3>2
    <3>4. x.op \in WizardOps /\ ~Publishes(x) /\ y.op \in WizardOps /\ ~Publishes(y)
      BY <3>1 DEF WizardOps, Publishes
    <3>5. \A k \in 1 .. Len(q) : q[k].op \in WizardOps /\ ~Publishes(q[k])
      BY <3>2, <3>3, <3>4
    <3>6. Sellable /\ profile.exists
      BY <2>1, <2>4 DEF WizardInv
    <3> QED BY <1>2, <3>1, <3>5, <3>6
  <2> QED BY <2>1, <2>2, <2>3, <2>4
<1>5. ASSUME \E type \in session.types, name \in session.names : onboarding(t, type, name) PROVE G
  <2>1. PICK type, name : onboarding(t, type, name)
    BY <1>5
  <2> QED BY <1>4, <2>1
<1>6. G
  BY <1>1, <1>3, <1>5
<1> QED BY <1>6 DEF G

\* What the statements on the profile do.
LEMMA ProfileAfter ==
  ASSUME ShopBase, NEW t \in Windows, SaveProfile(t)
  PROVE  \/ Now(t, "create_profile") /\ profile.exists /\ profile' = profile
         \/ /\ Now(t, "create_profile") /\ ~profile.exists /\ profile'.exists = TRUE
            /\ profile'.completed = FALSE /\ profile'.step = "identity"
         \/ Now(t, "profile") /\ profile' = request[t].todo[1].row
         \/ /\ Now(t, "step") /\ profile'.exists = profile.exists /\ profile'.completed = profile.completed
            /\ profile'.step = request[t].todo[1].step
         \/ /\ Now(t, "completed") /\ profile'.exists = profile.exists /\ profile'.completed = TRUE
            /\ profile'.step = profile.step
<1>1. profile \in Profiles
  BY DEF ShopBase, ShopType
<1>2. CASE /\ Now(t, "create_profile")
           /\ profile' = IF profile.exists THEN profile ELSE [NoProfile EXCEPT !.exists = TRUE]
  <2>1. CASE profile.exists
    BY <1>2, <2>1
  <2>2. CASE ~profile.exists
    <3> DEFINE r == [NoProfile EXCEPT !.exists = TRUE]
    <3>1. r.exists = TRUE /\ r.completed = FALSE /\ r.step = "identity"
      BY DEF NoProfile
    <3>2. profile' = r
      BY <1>2, <2>2
    <3> HIDE DEF r
    <3> QED BY <1>2, <2>2, <3>1, <3>2
  <2> QED BY <2>1, <2>2
<1>3. CASE Now(t, "profile") /\ profile' = Arg(t).row
  BY <1>3, NextStatement DEF ShopBase
<1>4. CASE Now(t, "step") /\ profile' = [profile EXCEPT !.step = Arg(t).step]
  <2>1. Arg(t) = request[t].todo[1]
    BY <1>4, NextStatement DEF ShopBase
  <2>2. profile'.exists = profile.exists /\ profile'.completed = profile.completed /\ profile'.step = Arg(t).step
    BY <1>1, <1>4 DEF Profiles
  <2> QED BY <1>4, <2>1, <2>2
<1>5. CASE Now(t, "completed") /\ profile' = [profile EXCEPT !.completed = TRUE]
  <2>1. profile'.exists = profile.exists /\ profile'.completed = TRUE /\ profile'.step = profile.step
    BY <1>1, <1>5 DEF Profiles
  <2> QED BY <1>5, <2>1
<1> QED BY <1>2, <1>3, <1>4, <1>5 DEF SaveProfile

\* The columns of the wizard in a step.
WizardColumns ==
  /\ profile.exists => profile'.exists
  /\ profile.completed => profile'.completed
  /\ profile'.completed => profile'.exists
  /\ ~profile.completed /\ (profile'.completed \/ profile'.step = "publish") => Sellable

LEMMA ColumnsSame ==
  ASSUME WizardInv, profile'.exists = profile.exists, profile'.completed = profile.completed, profile'.step = profile.step
  PROVE  WizardColumns
BY DEF WizardInv, WizardColumns

LEMMA ProfileColumns ==
  ASSUME ShopBase, WizardInv, NEW t \in Windows, SaveProfile(t)
  PROVE  WizardColumns
<1>1. ASSUME NEW op, Now(t, op)
      PROVE  /\ request[t].todo[1].op = op /\ 1 \in 1 .. Len(request[t].todo)
             /\ Pending(t, op) /\ Len(request[t].todo) \in Nat
  <2>1. request[t].todo[1].op = op /\ Len(request[t].todo) \in Nat \ {0}
    BY <1>1, NextStatement DEF ShopBase
  <2> QED BY <2>1 DEF Pending
<1>2. CASE Now(t, "create_profile") /\ profile.exists /\ profile' = profile
  BY <1>2, ColumnsSame
<1>3. CASE /\ Now(t, "create_profile") /\ ~profile.exists /\ profile'.exists = TRUE
           /\ profile'.completed = FALSE /\ profile'.step = "identity"
  BY <1>3 DEF WizardInv, WizardColumns
<1>4. CASE Now(t, "profile") /\ profile' = request[t].todo[1].row
  <2>1. request[t].todo[1].op = "profile" /\ 1 \in 1 .. Len(request[t].todo)
    BY <1>1, <1>4
  <2>2. profile'.completed /\ profile'.exists
    BY <1>4, <2>1 DEF WizardInv
  <2>3. "profile" \notin WizardOps
    BY DEF WizardOps
  <2>4. profile.completed
    BY <2>1, <2>3 DEF WizardInv, Wizard
  <2> QED BY <2>2, <2>4 DEF WizardColumns
<1>5. CASE /\ Now(t, "step") /\ profile'.exists = profile.exists /\ profile'.completed = profile.completed
           /\ profile'.step = request[t].todo[1].step
  <2>1. request[t].todo[1].op = "step" /\ 1 \in 1 .. Len(request[t].todo)
    BY <1>1, <1>5
  <2>2. ASSUME ~profile.completed, profile'.step = "publish" PROVE Sellable
    <3>1. Publishes(request[t].todo[1])
      BY <1>5, <2>1, <2>2 DEF Publishes
    <3>2. Way(t, 1)
      BY <2>1, <2>2, <3>1 DEF WizardInv, Wizard
    <3> QED BY <3>2 DEF Way
  <2> QED BY <1>5, <2>2 DEF WizardInv, WizardColumns
<1>6. CASE /\ Now(t, "completed") /\ profile'.exists = profile.exists /\ profile'.completed = TRUE
           /\ profile'.step = profile.step
  <2>1. Pending(t, "completed")
    BY <1>1, <1>6
  <2>2. ~profile.completed => Sellable /\ profile.exists
    BY <2>1 DEF WizardInv, Wizard
  <2> QED BY <1>6, <2>2 DEF WizardInv, WizardColumns
<1> QED BY <1>2, <1>3, <1>4, <1>5, <1>6, ProfileAfter

\* A block is added for the product of the request.
LEMMA BlockAdded ==
  ASSUME ShopBase, NEW t \in Windows, SaveBlock(t), Now(t, "block")
  PROVE  /\ RowsGrow
         /\ Len(blocks) + 1 \in 1 .. Len(blocks') /\ blocks'[Len(blocks) + 1].product = request[t].product
         /\ blocks'[Len(blocks) + 1].is_visible = TRUE /\ blocks'[Len(blocks) + 1].deleted = FALSE
<1>1. blocks \in Seq(BlockRows) /\ Len(blocks) \in Nat /\ products' = products /\ Len(products) \in Nat
  BY DEF ShopBase, ShopType, SaveBlock, salesvars
<1>2. ASSUME NEW op, Now(t, op) PROVE op = "block"
  BY <1>2 DEF Now
<1> DEFINE r == [product |-> request[t].product, is_visible |-> TRUE, deleted |-> FALSE]
<1>3. blocks' = Append(blocks, r)
  <2>1. ~Now(t, "block_delete") /\ ~Now(t, "block_show")
    BY <1>2
  <2> QED BY <2>1 DEF SaveBlock
<1>4. r \in BlockRows /\ r.product = request[t].product /\ r.is_visible = TRUE /\ r.deleted = FALSE
  BY DEF BlockRows, ShopBase, RequestType, RequestRows
<1> HIDE DEF r
<1>5. /\ blocks' \in Seq(BlockRows) /\ Len(blocks') = Len(blocks) + 1 /\ blocks'[Len(blocks) + 1] = r
      /\ \A k \in 1 .. Len(blocks) : blocks'[k] = blocks[k]
  BY <1>1, <1>3, <1>4, AppendProperties
<1> QED BY <1>1, <1>4, <1>5 DEF RowsGrow

LEMMA ColumnsNext ==
  ASSUME CatalogOK, ShopBase, WizardInv, ShopNext
  PROVE  WizardColumns
<1>1. ASSUME profile' = profile PROVE WizardColumns
  BY <1>1, ColumnsSame
<1>2. ASSUME NEW t \in Windows, Serve(t) PROVE WizardColumns
  <2>1. PICK q, i, j : Begins(t, q, i, j)
    BY <1>2, RequestForm DEF ShopBase
  <2> QED BY <1>1, <2>1 DEF Begins
<1>3. ASSUME NEW t \in Windows, Statement(t) PROVE WizardColumns
  <2>1. CASE SaveProfile(t)
    BY <2>1, ProfileColumns
  <2>2. CASE ~SaveProfile(t)
    <3>1. profile' = profile
      BY <1>3, <2>2 DEF Statement, SavePage, SaveBlock, InsertProduct, SaveProduct, InsertPlan, SavePlan,
                        InsertEntitlement, SaveCoupon
    <3> QED BY <1>1, <3>1
  <2> QED BY <2>1, <2>2
<1>4. ASSUME NEW t \in Windows, WorkerDies(t) PROVE WizardColumns
  BY <1>1, <1>4 DEF WorkerDies
<1>5. CASE Suspend
  <2>1. profile \in Profiles /\ profile' = [profile EXCEPT !.is_approved = FALSE]
    BY <1>5 DEF Suspend, ShopBase, ShopType
  <2>2. profile'.exists = profile.exists /\ profile'.completed = profile.completed /\ profile'.step = profile.step
    BY <2>1 DEF Profiles
  <2> QED BY <2>2, ColumnsSame
<1> QED BY <1>1, <1>2, <1>3, <1>4, <1>5 DEF ShopNext

\* While the wizard is not finished.
LEMMA WizardAll ==
  ASSUME ShopBase, WizardInv, ~profile.completed, WizardColumns, RowsGrow, NEW t \in Windows, Wizard(t)',
         \A u \in Windows \ {t} : request'[u] = request[u]
  PROVE  RowsGrow /\ \A u \in Windows : Wizard(u)'
<1>1. ASSUME NEW u \in Windows \ {t} PROVE Wizard(u)'
  BY WizardOther DEF WizardInv, WizardColumns
<1> QED BY <1>1

LEMMA WizardStatements ==
  ASSUME ShopBase, WizardInv, ~profile.completed, WizardColumns, NEW t \in Windows, Statement(t)
  PROVE  RowsGrow /\ \A u \in Windows : Wizard(u)'
<1> USE DEF ShopBase
<1>1. Wizard(t) /\ (profile.exists => profile'.exists)
  BY DEF WizardInv, WizardColumns
<1>2. ASSUME NEW op, Now(t, op) PROVE op \in WizardOps
  <2>1. request[t].todo[1].op = op /\ 1 \in 1 .. Len(request[t].todo)
    BY <1>2, NextStatement
  <2> QED BY <1>1, <2>1 DEF Wizard
<1>3. ASSUME NEW op \in {"create_profile", "profile", "step", "completed", "page"}, Executes(t, op),
             UNCHANGED <<products, blocks>>
      PROVE  RowsGrow /\ \A u \in Windows : Wizard(u)'
  <2>1. RowsGrow
    BY <1>3, GrowSame
  <2>2. Sellable => Sellable'
    BY <2>1, SellableKept
  <2>3. Wizard(t)'
    BY <1>1, <1>3, <2>2, WizardMoved DEF Executes
  <2> QED BY <1>3, <2>1, <2>3, WizardAll DEF Executes, MovesOn
<1>4. CASE SaveProfile(t)
  BY <1>3, <1>4, ProfileStep
<1>5. CASE SavePage(t)
  BY <1>3, <1>5, PageStep
<1>6. CASE SaveBlock(t)
  <2>1. PICK op \in {"block", "block_delete", "block_show"} : Executes(t, op)
    BY <1>6, BlockStep
  <2>2. op = "block" /\ Now(t, op)
    BY <1>2, <2>1 DEF Executes, WizardOps
  <2>3. PICK n, i : n = Len(blocks) + 1 /\ i = request[t].product
    OBVIOUS
  <2>4. /\ RowsGrow /\ products' = products
        /\ n \in 1 .. Len(blocks') /\ blocks'[n].product = i
        /\ blocks'[n].is_visible = TRUE /\ blocks'[n].deleted = FALSE
    BY <1>6, <2>2, <2>3, BlockAdded, BlockStep
  <2>5. Sellable => Sellable'
    BY <2>4, SellableKept
  <2>6. i # 0 => i \in 1 .. Len(products)
    BY <2>3, PlansTyped DEF AimInv, Aimed
  <2>7. i # 0 /\ products[i].visibility = "public" /\ Len(products[i].plans) # 0 => Sellable'
    BY <2>4, <2>6 DEF Sellable
  <2>8. Wizard(t)'
    BY <1>1, <2>1, <2>2, <2>3, <2>5, <2>7, WizardMoved DEF Executes
  <2> QED BY <2>1, <2>4, <2>8, WizardAll DEF Executes, MovesOn
<1>7. CASE InsertProduct(t)
  <2> DEFINE op == "product"
  <2>1. Now(t, op) /\ op = "product" /\ blocks' = blocks
    BY <1>7, InsertProductStep
  <2> HIDE DEF op
  <2>2. CASE Ends(t) /\ UNCHANGED products
    BY <2>1, <2>2, GrowSame, WizardIdle, WizardAll DEF Ends
  <2>3. CASE /\ ProductAdded /\ MovesOn(t, Len(products) + 1, 0)
             /\ products'[Len(products) + 1] = request[t].todo[1].row
    <3>1. PICK i, j : i = Len(products) + 1 /\ j = 0
      OBVIOUS
    <3>2. Len(products) \in Nat /\ Len(blocks) \in Nat /\ i # 0 /\ MovesOn(t, i, j) /\ products'[i] = request[t].todo[1].row
      BY <2>3, <3>1 DEF ShopType
    <3>3. RowsGrow
      BY <2>1, <2>3, <3>2 DEF RowsGrow, ProductAdded
    <3>4. Sellable => Sellable'
      BY <3>3, SellableKept
    <3>5. Wizard(t)'
      BY <1>1, <2>1, <3>2, <3>4, WizardMoved
    <3> QED BY <2>3, <3>3, <3>5, WizardAll DEF MovesOn
  <2> QED BY <1>7, <2>2, <2>3, InsertProductStep
<1>8. CASE InsertPlan(t)
  <2> DEFINE op == "plan"
  <2>1. Now(t, op) /\ op = "plan" /\ blocks' = blocks
    BY <1>8, InsertPlanStep
  <2> HIDE DEF op
  <2>2. PICK i, j : i = request[t].product /\ j = Len(products[i].plans) + 1
    OBVIOUS
  <2>3. i \in 1 .. Len(products) /\ PlanAdded(i) /\ MovesOn(t, i, j)
    BY <1>8, <2>2, InsertPlanStep
  <2>4. Len(products) \in Nat /\ Len(blocks) \in Nat /\ Len(products[i].plans) \in Nat
    BY <2>3, PlansTyped DEF ShopType
  <2>5. Len(products'[i].plans) # 0 /\ products'[i].visibility = products[i].visibility
    BY <2>3, <2>4 DEF PlanAdded
  <2>6. RowsGrow
    BY <2>1, <2>3, <2>4, <2>5 DEF RowsGrow, PlanAdded
  <2>7. Sellable => Sellable'
    BY <2>6, SellableKept
  <2>8. Wizard(t)'
    BY <1>1, <2>1, <2>2, <2>3, <2>5, <2>7, WizardMoved
  <2> QED BY <2>3, <2>6, <2>8, WizardAll DEF MovesOn
<1>9. CASE SaveProduct(t) \/ SavePlan(t) \/ InsertEntitlement(t) \/ SaveCoupon(t)
  <2>1. \E op \in {"product_row", "product_draft", "deliverable", "attach", "detach", "ask", "unask", "plan_row",
                   "entitlement", "coupon", "coupon_active"} : Now(t, op)
    BY <1>9 DEF SaveProduct, SavePlan, InsertEntitlement, SaveCoupon
  <2> QED BY <1>2, <2>1 DEF WizardOps
<1> QED BY <1>4, <1>5, <1>6, <1>7, <1>8, <1>9 DEF Statement

LEMMA WizardSteps ==
  ASSUME CatalogOK, ShopBase, WizardInv, ~profile.completed, WizardColumns, ShopNext
  PROVE  RowsGrow /\ \A u \in Windows : Wizard(u)'
<1>1. ASSUME NEW t \in Windows, Serve(t) PROVE RowsGrow /\ \A u \in Windows : Wizard(u)'
  BY <1>1, WizardRequests, GrowSame, WizardAll DEF ShopBase
<1>2. ASSUME NEW t \in Windows, WorkerDies(t) PROVE RowsGrow /\ \A u \in Windows : Wizard(u)'
  BY <1>2, CrashStep, GrowSame, WizardIdle, WizardAll DEF ShopBase, Ends
<1>3. ASSUME ShopKept PROVE RowsGrow /\ \A u \in Windows : Wizard(u)'
  <2>1. RowsGrow /\ request' = request
    BY <1>3, GrowSame DEF ShopKept, ShopBase
  <2> QED BY <2>1, WizardOther DEF WizardInv, WizardColumns
<1>4. CASE Suspend
  BY <1>3, <1>4, SuspendStep
<1>5. CASE Buying /\ UNCHANGED <<profile, page, blocks, ents, request, begun, crashes>>
  BY <1>3, <1>5, BuyStep
<1> QED BY <1>1, <1>2, <1>4, <1>5, WizardStatements DEF ShopNext, Buying

LEMMA WizardNext ==
  ASSUME CatalogOK, ShopBase, WizardInv, ShopNext
  PROVE  WizardInv' /\ (~profile.completed /\ profile'.completed => Sellable)
<1>1. WizardColumns
  BY ColumnsNext
<1>2. ASSUME NEW t \in Windows, NEW k \in 1 .. Len(request'[t].todo), request'[t].todo[k].op = "profile"
      PROVE  request'[t].todo[k].row.completed /\ request'[t].todo[k].row.exists
  <2>1. CASE FormsTodo
    <3>1. PICK x : x = request'[t].todo[k]
      OBVIOUS
    <3>2. x.op = "profile" /\ ((\E l \in 1 .. Len(request[t].todo) : x = request[t].todo[l]) \/ FormOf(x))
      BY <1>2, <2>1, <3>1 DEF FormsTodo
    <3>3. x.row.completed /\ x.row.exists
      BY <3>2 DEF FormOf, WizardInv
    <3> QED BY <3>1, <3>3
  <2>2. CASE request' = request
    BY <1>2, <2>2 DEF WizardInv
  <2> QED BY <2>1, <2>2, SellerSteps DEF SellerStep
<1>3. profile'.completed => profile'.exists
  BY <1>1 DEF WizardColumns
<1>4. ASSUME ~profile'.completed
      PROVE  (profile'.step = "publish" => Sellable') /\ \A t \in Windows : Wizard(t)'
  <2>1. ~profile.completed
    BY <1>1, <1>4 DEF WizardColumns
  <2>2. RowsGrow /\ \A t \in Windows : Wizard(t)'
    BY <1>1, <2>1, WizardSteps
  <2>3. Sellable => Sellable'
    BY <2>2, SellableKept DEF ShopBase
  <2> QED BY <1>1, <2>1, <2>2, <2>3 DEF WizardColumns
<1>5. WizardInv'
  BY <1>2, <1>3, <1>4 DEF WizardInv
<1> QED BY <1>1, <1>5 DEF WizardColumns

LEMMA SellableStore ==
  ASSUME ShopBase, Sellable
  PROVE  \E i \in DOMAIN products :
           /\ products[i].visibility = "public" /\ products[i].plans # <<>>
           /\ \E k \in OnPage(i) : blocks[k].is_visible
<1>1. DOMAIN products = 1 .. Len(products) /\ DOMAIN blocks = 1 .. Len(blocks)
  BY DEF ShopBase, ShopType
<1>2. PICK i \in 1 .. Len(products) :
        /\ products[i].visibility = "public" /\ Len(products[i].plans) # 0
        /\ \E k \in 1 .. Len(blocks) : blocks[k].product = i /\ blocks[k].is_visible /\ ~blocks[k].deleted
  BY DEF Sellable
<1>3. products[i].plans # <<>>
  BY <1>2
<1>4. PICK k \in 1 .. Len(blocks) : blocks[k].product = i /\ blocks[k].is_visible /\ ~blocks[k].deleted
  BY <1>2
<1>5. k \in OnPage(i)
  BY <1>1, <1>4 DEF OnPage
<1> QED BY <1>1, <1>2, <1>3, <1>4, <1>5

\* onboarding() acts on the step it read, in several statements, in windows that overlap and
\* workers that die: whoever completes it has a public product with a plan and a visible
\* block, for any number of windows, requests and crashes.
THEOREM OnboardedHolds == ShopSpec => OnboardedStoreIsSellable
<1>1. ShopInit => WizardInv
  <2> SUFFICES ASSUME ShopInit PROVE WizardInv
    OBVIOUS
  <2>1. \A t \in Windows : request[t] = NoRequest
    BY DEF ShopInit
  <2>2. ASSUME NEW t \in Windows PROVE Len(request[t].todo) = 0
    BY <2>1, IdleRequest
  <2>3. ASSUME NEW t \in Windows PROVE Wizard(t)
    BY <2>2 DEF Wizard, Pending
  <2>4. /\ profile.completed => profile.exists
        /\ ~profile.completed => profile.step # "publish"
    <3>1. CASE profile = NoProfile
      BY <3>1 DEF NoProfile
    <3>2. CASE profile = [NoProfile EXCEPT !.exists = TRUE, !.completed = TRUE, !.step = "publish"]
      BY <3>2 DEF NoProfile
    <3> QED BY <3>1, <3>2 DEF ShopInit
  <2> QED BY <2>2, <2>3, <2>4 DEF WizardInv
<1>2. CatalogSame /\ WizardInv => WizardInv'
  BY DEF CatalogSame, WizardInv, Wizard, Way, Sellable, Pending
<1>3. ShopInv /\ WizardInv /\ [ShopNext]_shopvars => WizardInv'
  BY <1>2, WizardNext, StutterSame, CatalogAssumption DEF ShopInv
<1> DEFINE P == ~profile.completed /\ profile'.completed =>
                  \E i \in DOMAIN products :
                    /\ products[i].visibility = "public" /\ products[i].plans # <<>>
                    /\ \E k \in OnPage(i) : blocks[k].is_visible
<1>4. ShopInv /\ WizardInv /\ [ShopNext]_shopvars => [P]_shopvars
  BY WizardNext, SellableStore, CatalogAssumption DEF ShopInv
<1> QED BY <1>1, <1>3, <1>4, ShopInvariant, PTL DEF ShopSpec, OnboardedStoreIsSellable
=============================================================================
