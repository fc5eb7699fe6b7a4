---------------------------- MODULE Subscription ----------------------------
(***************************************************************************)
(* apps/billing/subscription_service.py and the views that edit a          *)
(* subscription (console extend_subscription, seller subscription_cancel,  *)
(* subscription_toggle_suspend and subscription_toggle_renew, dashboard    *)
(* toggle_auto_renew), for the subscriptions of one customer.              *)
(*                                                                         *)
(* A batch job reads its rows in one query and acts on them one by one, so *)
(* the row it acts on is a snapshot; between query and action, and between *)
(* two transactions of a job, other jobs (also a second run of the same    *)
(* one: the tasks are acks_late), top-ups and edits may run, and the       *)
(* worker may die.  Each transaction under select_for_update is one step.  *)
(* Time counts in units of a day.                                          *)
(***************************************************************************)
EXTENDS Integers, FiniteSets, FiniteSetsExt

CONSTANTS
  Customers,   \* customers [subs, disturbances]: Subscription rows of one, and a
               \* bound on the toggles, edits and crashes together
  Procs,       \* Celery workers and web workers
  Price, Period, GraceDays, Advance,  \* plan price, interval and Settings
  Free,        \* the subscriptions whose plan costs nothing instead
  ExtendBy,    \* days granted by extend_subscription
  MaxTime, MaxTopUps, MaxEdits, \* bounds, MaxEdits by view
  NoSub

ASSUME SubscriptionAssumption ==
  /\ Price \in Nat \ {0} /\ Period \in Nat \ {0}
  /\ GraceDays \in Nat /\ Advance \in Nat /\ ExtendBy \in Nat \ {0}

Subs == UNION {c.subs : c \in Customers}
Edits == {"extend", "seller_cancel", "seller_toggle_suspend"}
JobKinds == {"renew", "grace", "cancel"}

VARIABLES
  customer,  \* whose subscriptions these are
  now,
  sub,       \* sub[s]: [status, end, auto_renew]
  license,   \* license[s]: the status of its license_key grant and License
  grant,     \* grant[s]: the status of its other grants
  charges,   \* renewal Orders, by idempotency key <<s, period_end>>
  balance,
  proc,      \* proc[p]: program point, job, current subscription, the rows
             \* it read and the subscriptions it has still to handle
  topups, toggles, edits, crashes  \* counted for the bounds, edits by view

db == <<sub, license, grant, charges, balance>>
counters == <<topups, toggles, edits, crashes>>
vars == <<customer, now, db, proc, counters>>
Disturbances == toggles + crashes + MapThenSumSet(LAMBDA kind : edits[kind], Edits)

Status == {"active", "grace", "suspended", "cancelled"}
RowType == [status : Status, end : Nat, auto_renew : BOOLEAN]
StartRow == [status |-> "active", end |-> Period, auto_renew |-> TRUE]
Start == [s \in Subs |-> StartRow]
At(point, kind, s, read, todo) ==
  [pc |-> point, kind |-> kind, s |-> s, read |-> read, todo |-> todo]
Idle == At("idle", "none", NoSub, Start, {})
Row(p) == proc[p].read[proc[p].s]

Init ==
  /\ customer \in Customers
  /\ now = 0
  /\ sub = Start
  /\ license = [s \in Subs |-> "active"]
  /\ grant = [s \in Subs |-> "active"]
  /\ charges = {}
  /\ balance = 0
  /\ proc = [p \in Procs |-> Idle]
  /\ topups = 0 /\ toggles = 0 /\ crashes = 0
  /\ edits = [kind \in Edits |-> 0]

\* The job is through with its current row.
Goto(p, point) == proc' = [proc EXCEPT ![p].pc = point]
Done(p) == IF proc[p].todo = {} THEN proc' = [proc EXCEPT ![p] = Idle] ELSE Goto(p, "next")

-----------------------------------------------------------------------------
(* The queries of the jobs *)

Selected(kind, r) ==
  CASE kind = "renew"  -> r.status = "active" /\ r.auto_renew /\ r.end <= now + Advance
    [] kind = "topup"  -> r.status \in {"grace", "suspended"} /\ r.auto_renew
    [] kind = "grace"  -> r.status = "grace" /\ r.end <= now - GraceDays
    [] kind = "cancel" -> r.status = "active" /\ ~r.auto_renew /\ r.end <= now

Due(kind) == {s \in customer.subs : Selected(kind, sub[s])}

\* process_due_renewals, process_grace_expirations and
\* process_expired_non_renewal_subs: the query of the job.
Query(p, kind) ==
  /\ proc[p].pc = "idle"
  /\ Due(kind) # {}
  /\ proc' = [proc EXCEPT ![p] = At("next", kind, NoSub, sub, Due(kind))]
  /\ UNCHANGED <<customer, now, db, counters>>

\* A TopUp is credited ...
CreditTopUp(p) ==
  /\ proc[p].pc = "idle"
  /\ topups < MaxTopUps
  /\ balance' = balance + Price
  /\ topups' = topups + 1
  /\ proc' = [proc EXCEPT ![p] = At("credited", "topup", NoSub, Start, {})]
  /\ UNCHANGED <<customer, now, sub, license, grant, charges, toggles, edits, crashes>>

\* ... and once that is committed its lapsed subscriptions are queried.
try_renew_grace_subscriptions(p) ==
  /\ proc[p].pc = "credited"
  /\ proc' = [proc EXCEPT ![p] =
       IF Due("topup") = {} THEN Idle
       ELSE At("next", "topup", NoSub, sub, Due("topup"))]
  /\ UNCHANGED <<customer, now, db, counters>>

\* The job turns to one of its rows.
TakeRow(p, s) ==
  /\ proc[p].pc = "next"
  /\ s \in proc[p].todo
  /\ proc' = [proc EXCEPT ![p].s = s, ![p].todo = @ \ {s},
               ![p].pc = IF proc[p].kind \in {"renew", "topup"} THEN "fast" ELSE proc[p].kind]
  /\ UNCHANGED <<customer, now, db, counters>>

-----------------------------------------------------------------------------
(* renew_subscription *)

\* _renewal_idempotency_key and _next_period_end, of the row that was read.
NextEndFromNow(p) == now + Period  \* mutant
Key(p) == <<proc[p].s, Row(p).end>>
NextEnd(p) == Row(p).end + Period

\* An Order with the key exists: already renewed, nothing to lock.
RenewFastPath(p) ==
  /\ proc[p].pc = "fast"
  /\ IF Key(p) \in charges THEN Done(p) ELSE Goto(p, "charge")
  /\ UNCHANGED <<customer, now, db, counters>>

\* Mutant: no re-check under the lock.
AlreadyRenewedUnchecked(p) == FALSE

\* Mutant: the status is not looked at again under the lock.
CancelledUnchecked(s) == FALSE

\* locked_sub.status == CANCELLED
Cancelled(s) == sub[s].status = "cancelled"

\* The re-check under the lock: another worker charged the same period.
AlreadyRenewed(p) == Key(p) \in charges

\* debit() refuses an amount of zero with a ValueError, before anything else.
NothingToDebit(s) == s \in Free

\* The transaction: CANCELLED and a concurrent renewal are looked at again
\* under the lock; order, debit, period and status commit together with the
\* renew cascade, which re-activates license keys and nothing else.  The
\* ValueError of a free plan rolls back and leaves the row as it was: the job
\* logs it and turns to its next row.
RenewCharge(p) ==
  LET s == proc[p].s IN
  /\ proc[p].pc = "charge"
  /\ \/ /\ \/ Cancelled(s)
           \/ ~AlreadyRenewed(p) /\ ~NothingToDebit(s) /\ balance < Price
        /\ IF proc[p].kind = "renew" THEN Goto(p, "degrade") ELSE Done(p)
        /\ UNCHANGED db
     \/ /\ ~Cancelled(s) /\ (AlreadyRenewed(p) \/ NothingToDebit(s))
        /\ Done(p)
        /\ UNCHANGED db
     \/ /\ ~Cancelled(s) /\ ~AlreadyRenewed(p)
        /\ ~NothingToDebit(s) /\ balance >= Price
        /\ charges' = charges \cup {Key(p)}
        /\ balance' = balance - Price
        /\ sub' = [sub EXCEPT ![s].end = NextEnd(p), ![s].status = "active"]
        /\ license' = [license EXCEPT ![s] = "active"]
        /\ Done(p)
        /\ UNCHANGED grant
  /\ UNCHANGED <<customer, now, counters>>

\* Mutant: an unpaid subscription stays ACTIVE.
MoveToGraceForgotten(p) ==
  /\ proc[p].pc = "degrade"
  /\ Done(p)
  /\ UNCHANGED <<customer, now, db, counters>>

\* Not renewed: a conditional UPDATE moves an ACTIVE row to GRACE.
MoveToGrace(p) ==
  LET s == proc[p].s IN
  /\ proc[p].pc = "degrade"
  /\ sub' = [sub EXCEPT ![s].status = IF @ = "active" THEN "grace" ELSE @]
  /\ Done(p)
  /\ UNCHANGED <<customer, now, license, grant, charges, balance, counters>>

-----------------------------------------------------------------------------
(* suspend_subscription and cancel_subscription *)

\* Mutant: the grants are not suspended with the subscription.
LapseAlone(p, point, status) ==
  /\ proc[p].pc = point
  /\ sub' = [sub EXCEPT ![proc[p].s].status = status]
  /\ Done(p)
  /\ UNCHANGED <<customer, now, license, grant, charges, balance, counters>>

\* Status and grants change in one transaction; apart from the target status
\* itself nothing the query selected on is looked at again.
Lapse(p, point, status) ==
  LET s == proc[p].s IN
  /\ proc[p].pc = point
  /\ IF sub[s].status = status
       THEN UNCHANGED <<sub, license, grant>>
       ELSE /\ sub' = [sub EXCEPT ![s].status = status]
            /\ license' = [license EXCEPT ![s] = "suspended"]
            /\ grant' = [grant EXCEPT ![s] = "suspended"]
  /\ Done(p)
  /\ UNCHANGED <<customer, now, charges, balance, counters>>

suspend_subscription(p) == Lapse(p, "grace", "suspended")
cancel_subscription(p) == Lapse(p, "cancel", "cancelled")

-----------------------------------------------------------------------------
(* The views *)

\* toggle_auto_renew and subscription_toggle_renew save only auto_renew.
toggle_auto_renew(s) ==
  /\ Disturbances < customer.disturbances
  /\ sub' = [sub EXCEPT ![s].auto_renew = ~@]
  /\ toggles' = toggles + 1
  /\ UNCHANGED <<customer, now, license, grant, charges, balance, proc, topups, edits, crashes>>

\* get_object_or_404 reads the row without a lock ...
OpenEdit(p, kind, s) ==
  /\ proc[p].pc = "idle"
  /\ edits[kind] < MaxEdits /\ Disturbances < customer.disturbances
  /\ edits' = [edits EXCEPT ![kind] = @ + 1]
  /\ proc' = [proc EXCEPT ![p] = At(kind, kind, s, sub, {})]
  /\ UNCHANGED <<customer, now, db, topups, toggles, crashes>>

\* ... and extend_subscription saves the period end and the status it read,
\* resuming the grants if it read SUSPENDED.
extend_subscription(p) ==
  LET s == proc[p].s
      row == Row(p)
      resumed == row.status = "suspended"
  IN
  /\ proc[p].pc = "extend"
  /\ sub' = [sub EXCEPT ![s].end = row.end + ExtendBy,
                        ![s].status = IF resumed THEN "active" ELSE row.status]
  /\ license' = [license EXCEPT ![s] = IF resumed THEN "active" ELSE @]
  /\ grant' = [grant EXCEPT ![s] = IF resumed THEN "active" ELSE @]
  /\ Done(p)
  /\ UNCHANGED <<customer, now, charges, balance, counters>>

\* subscription_cancel: no cascade to the grants.
subscription_cancel(p) ==
  LET s == proc[p].s IN
  /\ proc[p].pc = "seller_cancel"
  /\ sub' = IF Row(p).status \in {"active", "grace"}
            THEN [sub EXCEPT ![s].status = "cancelled", ![s].auto_renew = FALSE]
            ELSE sub
  /\ Done(p)
  /\ UNCHANGED <<customer, now, license, grant, charges, balance, counters>>

\* subscription_toggle_suspend: no cascade either.
subscription_toggle_suspend(p) ==
  LET s == proc[p].s  read == Row(p).status IN
  /\ proc[p].pc = "seller_toggle_suspend"
  /\ sub' = [sub EXCEPT ![s].status =
               IF read = "suspended" THEN "active"
               ELSE IF read = "cancelled" THEN @ ELSE "suspended"]
  /\ Done(p)
  /\ UNCHANGED <<customer, now, license, grant, charges, balance, counters>>

\* The worker dies between two of its transactions.
Crash(p) ==
  /\ proc[p] # Idle
  /\ Disturbances < customer.disturbances
  /\ crashes' = crashes + 1
  /\ proc' = [proc EXCEPT ![p] = Idle]
  /\ UNCHANGED <<customer, now, db, topups, toggles, edits>>

\* A query or a provisioner raises while a job is at a row: the transaction
\* under way is rolled back, the job logs it and turns to its next row.
RowFails(p) ==
  /\ proc[p].pc \in {"fast", "charge", "degrade", "grace", "cancel"}
  /\ Disturbances < customer.disturbances
  /\ crashes' = crashes + 1
  /\ Done(p)
  /\ UNCHANGED <<customer, now, db, topups, toggles, edits>>

Tick ==
  /\ now < MaxTime
  /\ now' = now + 1
  /\ UNCHANGED <<customer, db, proc, counters>>

-----------------------------------------------------------------------------
Run(p) ==
  \/ \E s \in Subs : TakeRow(p, s)
  \/ try_renew_grace_subscriptions(p) \/ RenewFastPath(p) \/ RenewCharge(p)
  \/ MoveToGrace(p) \/ suspend_subscription(p) \/ cancel_subscription(p)
  \/ extend_subscription(p) \/ subscription_cancel(p) \/ subscription_toggle_suspend(p)

Beat(kind) == \E p \in Procs : Query(p, kind)

Next ==
  \/ \E kind \in JobKinds : Beat(kind)
  \/ \E p \in Procs : \/ Run(p)
                      \/ CreditTopUp(p) \/ Crash(p) \/ RowFails(p)
                      \/ \E kind \in Edits, s \in customer.subs : OpenEdit(p, kind, s)
  \/ \E s \in customer.subs : toggle_auto_renew(s)
  \/ Tick

\* Workers finish what they started, beat keeps scheduling the three jobs and
\* time passes (up to the bound).
Spec == /\ Init /\ [][Next]_vars
        /\ \A p \in Procs : WF_vars(Run(p))
        /\ \A kind \in JobKinds : SF_vars(Beat(kind))
        /\ WF_vars(Tick)

-----------------------------------------------------------------------------
ProcState ==
  [pc : {"idle", "credited", "next", "fast", "charge", "degrade", "grace", "cancel"} \cup Edits,
   kind : JobKinds \cup Edits \cup {"topup", "none"}, s : Subs \cup {NoSub},
   read : [Subs -> RowType], todo : SUBSET Subs]

TypeOK ==
  /\ customer \in Customers /\ now \in Nat /\ balance \in Int
  /\ sub \in [Subs -> RowType]
  /\ license \in [Subs -> {"active", "suspended"}]
  /\ grant \in [Subs -> {"active", "suspended"}]
  /\ charges \subseteq Subs \X Nat
  /\ proc \in [Procs -> ProcState]
  /\ topups \in Nat /\ toggles \in Nat /\ crashes \in Nat
  /\ edits \in [Edits -> Nat]

ChargesOf(s) == {k \in charges : k[1] = s}

\* One period end is charged at most once and never on credit: the money that
\* left the wallet is the price of the distinct period ends charged, although
\* several jobs, top-ups and stale rows compete to renew it and an extension
\* may bring an old period end back.
ChargedOncePerPeriod ==
  /\ balance = Price * (topups - Cardinality(charges))
  /\ balance >= 0

\* Every charge buys exactly one period and every period beyond the first was
\* charged, while nobody extends by hand: a renewal that acts on a row read
\* long before neither loses a period nor grants one.
EachChargeBuysOnePeriod ==
  edits["extend"] = 0 =>
    \A s \in customer.subs : sub[s].end = Period + Period * Cardinality(ChargesOf(s))

\* The license works exactly while the subscription is ACTIVE or in GRACE, and
\* the other grants at most then: each suspension, cancellation and renewal of
\* the jobs carries the license along.  (Renewal does not restore the other
\* grants, whose provisioners' renew() is empty; the seller's cancel and
\* suspend cascade to none.)
LicenseFollowsStatus ==
  edits = [kind \in Edits |-> 0] =>
    \A s \in Subs :
      /\ license[s] = "active" <=> sub[s].status \in {"active", "grace"}
      /\ grant[s] = "active" => sub[s].status \in {"active", "grace"}

\* _effective_access_status: the API grants access while neither the license
\* nor the subscription is suspended or cancelled.
Access(s) == license[s] = "active" /\ sub[s].status \in {"active", "grace"}

\* Access past the paid period and its grace window ends, by renewal,
\* suspension or cancellation, whatever the seller's views and extensions do in
\* between.  Two cases are excluded, in which the code lets it go on for ever: a
\* plan that costs nothing, whose renewal raises at every run of the job, and a
\* period end that was charged before and that extend_subscription wrote back,
\* which every run takes for renewed already.
NoPerpetualAccess ==
  \A s \in Subs \ Free :
    s \in customer.subs /\ Access(s) /\ sub[s].end + GraceDays <= now
      ~> \/ ~Access(s) \/ sub[s].end + GraceDays > now
         \/ edits["extend"] > 0 /\ <<s, sub[s].end>> \in charges

KeepsCancelled ==
  \A s \in Subs : sub[s].status = "cancelled" =>
    /\ ChargesOf(s)' = ChargesOf(s)
    /\ \/ sub'[s].status \notin {"active", "grace"}
       \/ edits["extend"] > 0 \/ edits["seller_toggle_suspend"] > 0

\* Documented: cancelled is final.  A renewal that selected the row before the
\* cancellation neither charges for it nor brings it back.  (The grace job can
\* still turn CANCELLED into SUSPENDED, from a row it read before;
\* extend_subscription writes back the status it read, and the seller's resume
\* makes ACTIVE of a row it read as SUSPENDED.)
CancelledIsNotRenewed == [][KeepsCancelled]_vars
=============================================================================
