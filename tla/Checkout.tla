------------------------------ MODULE Checkout ------------------------------
(***************************************************************************)
(* apps/billing/checkout.py under concurrency: checkout() for free plans,  *)
(* static QRIS and wallet balance, complete_pending_order(),               *)
(* confirm_manual_payment() and reject_manual_payment().                   *)
(*                                                                         *)
(* A transaction is split at every row it locks and at every read whose    *)
(* result it uses later: the idempotency lookup, the coupon check, the     *)
(* balance pre-check, the unique indexes on idempotency_key and            *)
(* invoice_number, the coupon row, the wallet row.  What it writes becomes *)
(* visible at its commit.  checkout() locks coupon then wallet,            *)
(* complete_pending_order() wallet then coupon; PostgreSQL breaks the      *)
(* resulting deadlocks by aborting a transaction.                          *)
(***************************************************************************)
EXTENDS OrderRules, Sequences

CONSTANTS
  Orders,      \* idempotency keys; an order is named by its key
  Wallets, StartBalance,
  UsageLimit,  \* of the one coupon, 0 = unlimited
  TopUpAmount, MaxTopUps,  \* a funding TopUp, and how many are credited
  Jobs, NoJob,   \* the calls made, see below
  Procs, NoProc  \* concurrent workers, and an unlocked row

\* A call: [kind, order] and, for checkout(), the customer's wallet, the plan,
\* the price before and the amount off with the coupon, and payment_method.
Kinds == {"checkout", "complete", "confirm", "reject"}

Coupon == "coupon"

\* Orders, wallets and the coupon are rows of three tables, whose columns are
\* non-negative integers.
ASSUME CheckoutAssumption ==
  /\ IsFiniteSet(Orders) /\ Orders \cap Wallets = {} /\ Coupon \notin Orders \cup Wallets
  /\ StartBalance \in [Wallets -> Nat] /\ UsageLimit \in Nat
  /\ TopUpAmount \in Nat /\ MaxTopUps \in Nat
  /\ NoProc \notin Procs /\ NoJob \notin Jobs

ASSUME JobsAssumption ==
  \A j \in Jobs :
    /\ j.kind \in Kinds /\ j.order \in Orders
    /\ j.kind = "checkout" => /\ j.wallet \in Wallets /\ j.plan \in {"recurring", "once"}
                              /\ j.base \in Nat /\ j.discount \in Nat
                              /\ j.method \in {"wallet", "qris_static"}

VARIABLES
  orders,    \* orders[o]: status, invoice number and what hangs off the order
  facts,     \* facts[o]: customer, plan, amount, channel and discount flag
  balance,   \* balance[w]: Wallet.balance
  credited,  \* credited[w]: funding TopUps credited so far
  used,      \* Coupon.used_count
  lock,      \* lock[r]: the transaction holding row r FOR UPDATE
  proc,      \* proc[p]: program point, call, discount decided, invoice drawn
  answer     \* answer[p]: how p's last call ended

vars == <<orders, facts, balance, credited, used, lock, proc, answer>>

Rows == Orders \cup Wallets \cup {Coupon}

NoFacts == [wallet |-> "none", plan |-> "none", amount |-> 0,
            channel |-> "none", discounted |-> FALSE]

Idle == [pc |-> "idle", job |-> NoJob, off |-> FALSE, invoice |-> 0]

Job(p) == proc[p].job
Ord(p) == Job(p).order

\* effective_price = max(0, base_price - discount)
EffectivePrice(p) ==
  LET net == Job(p).base - (IF proc[p].off THEN Job(p).discount ELSE 0)
  IN  IF net > 0 THEN net ELSE 0

\* The amount, the wallet and the coupon use of the order p is working on:
\* still p's own for checkout(), the committed row's for the others.
Fact(p) ==
  IF Job(p).kind = "checkout"
  THEN [wallet |-> Job(p).wallet, plan |-> Job(p).plan, amount |-> EffectivePrice(p),
        channel |-> Job(p).method, discounted |-> proc[p].off]
  ELSE facts[Ord(p)]

-----------------------------------------------------------------------------
Init ==
  /\ orders = [o \in Orders |-> NoOrder]
  /\ facts = [o \in Orders |-> NoFacts]
  /\ balance = StartBalance
  /\ credited = [w \in Wallets |-> 0]
  /\ used = 0
  /\ lock = [r \in Rows |-> NoProc]
  /\ proc = [p \in Procs |-> Idle]
  /\ answer = [p \in Procs |-> "none"]

Goto(p, point) == /\ proc' = [proc EXCEPT ![p].pc = point]
                  /\ UNCHANGED answer

\* The call returns or raises (checkout_plan maps the exceptions to messages);
\* its transaction, if any, is over.
End(p, how) == /\ proc' = [proc EXCEPT ![p] = Idle]
               /\ answer' = [answer EXCEPT ![p] = how]

Release(p) == lock' = [r \in Rows |-> IF lock[r] = p THEN NoProc ELSE lock[r]]
Abort(p, how) == End(p, how) /\ Release(p)

\* SELECT ... FOR UPDATE or UPDATE waits for the row.
Acquire(p, row) == /\ lock[row] \in {NoProc, p}
                   /\ lock' = [lock EXCEPT ![row] = p]

\* Another transaction has inserted o and not committed yet.
Inserted(o, p) == \E q \in Procs \ {p} :
                    /\ proc[q].pc \in {"coupon", "debit", "invoice", "save", "commit"}
                    /\ Job(q).kind = "checkout" /\ Ord(q) = o

-----------------------------------------------------------------------------
\* checkout_plan's POST (and the callers of the other three).  Its early returns
\* (an unanswered question, no stock, an unverified e-mail) are calls not made;
\* a coupon it refuses is a call without discount.  Only an order that a TopUp
\* funds is completed (TopUp.checkout_order), never a static QRIS one.
Start(p, j) ==
  /\ proc[p].pc = "idle"
  /\ j.kind # "checkout" => orders[j.order].status # "absent"
  /\ j.kind = "complete" => facts[j.order].channel = "wallet"
  /\ proc' = [proc EXCEPT ![p] =
       [pc |-> IF j.kind = "checkout" THEN "lookup" ELSE "lock_order",
        job |-> j, off |-> FALSE, invoice |-> 0]]
  /\ answer' = [answer EXCEPT ![p] = "none"]
  /\ UNCHANGED <<orders, facts, balance, credited, used, lock>>

\* checkout(): an order with this key is returned, or refused when it belongs
\* to another customer or plan.  Otherwise coupon.is_valid_for(plan) decides
\* on the discount from a used_count that may be stale when it is used.
Lookup(p) ==
  LET o == Ord(p) IN
  /\ proc[p].pc = "lookup"
  /\ IF orders[o].status # "absent"
       THEN End(p, IF facts[o].wallet = Job(p).wallet /\ facts[o].plan = Job(p).plan
                   THEN "existing" ELSE "CheckoutIdempotencyError")
       ELSE /\ proc' = [proc EXCEPT
                 ![p].pc = IF Job(p).method = "wallet" /\ Job(p).base > 0 THEN "balance" ELSE "insert",
                 ![p].off = /\ Job(p).base > 0 /\ Job(p).discount > 0
                            /\ UsageLimit = 0 \/ used < UsageLimit]
            /\ UNCHANGED answer
  /\ UNCHANGED <<orders, facts, balance, credited, used, lock>>

\* wallet.balance >= effective_price, read without a lock; direct pay (a
\* setting and a flag of the plan) goes to the gateway whatever the balance.
CheckBalance(p) ==
  /\ proc[p].pc = "balance"
  /\ \E use_direct_pay \in BOOLEAN :
       Goto(p, IF ~use_direct_pay /\ balance[Job(p).wallet] >= EffectivePrice(p)
               THEN "insert" ELSE "shortfall")
  /\ UNCHANGED <<orders, facts, balance, credited, used, lock>>

\* The seller takes no static QRIS, or no payment_method was chosen for the
\* TopUp: the call raises before anything is written.
Refuse(p) ==
  /\ \/ proc[p].pc = "shortfall"
     \/ proc[p].pc = "insert" /\ Job(p).method = "qris_static" /\ Job(p).base > 0
  /\ End(p, "refused")
  /\ UNCHANGED <<orders, facts, balance, credited, used, lock>>

\* Order.objects.create() and a commit at once: static QRIS, or a shortfall
\* that a TopUp will cover (module TopUp).
CreatePending(p) ==
  LET o == Ord(p) IN
  /\ \/ proc[p].pc = "shortfall"
     \/ proc[p].pc = "insert" /\ Job(p).method = "qris_static" /\ Job(p).base > 0
  /\ ~Inserted(o, p)
  /\ IF orders[o].status # "absent"
       THEN End(p, "TransactionManagementError") /\ UNCHANGED <<orders, facts>>
       ELSE /\ orders' = [orders EXCEPT ![o].status = "pending"]
            /\ facts' = [facts EXCEPT ![o] = Fact(p)]
            /\ End(p, "pending")
  /\ UNCHANGED <<balance, credited, used, lock>>

\* A free plan: PAID at once, for an amount of 0, no invoice number, no
\* subscription.
CreateFree(p) ==
  LET o == Ord(p) IN
  /\ proc[p].pc = "insert" /\ Job(p).base = 0
  /\ ~Inserted(o, p)
  /\ IF orders[o].status # "absent"
       THEN End(p, "TransactionManagementError") /\ UNCHANGED <<orders, facts>>
       ELSE /\ orders' = [orders EXCEPT ![o] = Fulfil(@, 0, FALSE, TRUE)]
            /\ facts' = [facts EXCEPT ![o] = Fact(p)]
            /\ End(p, "paid")
  /\ UNCHANGED <<balance, credited, used, lock>>

\* The insert of the wallet path.  A row with the same key that was committed
\* since the lookup is an IntegrityError inside the atomic block, so the
\* lookup in its except clause raises as well.
InsertOrder(p) ==
  /\ proc[p].pc = "insert" /\ Job(p).method = "wallet" /\ Job(p).base > 0
  /\ ~Inserted(Ord(p), p)
  /\ IF orders[Ord(p)].status # "absent"
       THEN End(p, "TransactionManagementError")
       ELSE Goto(p, "coupon")
  /\ UNCHANGED <<orders, facts, balance, credited, used, lock>>

\* Mutant: the status is not looked at again under the lock.
StillPendingUnchecked(o) == TRUE

\* locked.status == PENDING, under the order's row lock.
StillPending(o) == orders[o].status = "pending"

\* complete_pending_order, confirm_manual_payment and reject_manual_payment
\* lock the order and look at its status (and channel) again.
LockOrder(p) ==
  LET o == Ord(p)
      pending == StillPending(o)
      qris == facts[o].channel = "qris_static"
  IN
  /\ proc[p].pc = "lock_order"
  /\ lock[o] = NoProc
  /\ \/ /\ ~pending \/ (Job(p).kind # "complete" /\ ~qris)
        /\ End(p, "skipped")
        /\ UNCHANGED <<orders, lock>>
     \/ /\ pending /\ Job(p).kind = "complete"
        /\ Goto(p, "debit")
        /\ Acquire(p, o)
        /\ UNCHANGED orders
     \/ /\ pending /\ qris /\ Job(p).kind = "confirm"
        /\ Goto(p, "invoice")
        /\ Acquire(p, o)
        /\ UNCHANGED orders
     \/ /\ pending /\ qris /\ Job(p).kind = "reject"
        /\ orders' = [orders EXCEPT ![o].status = "failed"]
        /\ End(p, "rejected")
        /\ UNCHANGED lock
  /\ UNCHANGED <<facts, balance, credited, used>>

\* Mutant: the redemption is not counted.
UseCouponUncounted(p) ==
  /\ proc[p].pc = "coupon"
  /\ Goto(p, IF Job(p).kind = "checkout" THEN "debit" ELSE "save")
  /\ UNCHANGED <<orders, facts, balance, credited, used, lock>>

\* The conditional UPDATE of used_count.  At the limit checkout() raises
\* CouponLimitError; the other two go on without counting.
UseCoupon(p) ==
  LET next == IF Job(p).kind = "checkout" THEN "debit" ELSE "save"
      full == UsageLimit > 0 /\ used >= UsageLimit
  IN
  /\ proc[p].pc = "coupon"
  /\ \/ /\ ~Fact(p).discounted
        /\ Goto(p, next)
        /\ UNCHANGED lock
     \/ /\ Fact(p).discounted /\ ~full
        /\ Acquire(p, Coupon)
        /\ Goto(p, next)
     \/ /\ Fact(p).discounted /\ full /\ lock[Coupon] = NoProc
        /\ IF Job(p).kind = "checkout"
             THEN Abort(p, "CouponLimitError")
             ELSE Goto(p, next) /\ UNCHANGED lock
  /\ UNCHANGED <<orders, facts, balance, credited, used>>

\* debit() under the wallet's row lock; checkout() skips it for an amount of
\* zero, complete_pending_order() does not and gets a ValueError.
Debit(p) ==
  LET f == Fact(p) IN
  /\ proc[p].pc = "debit"
  /\ \/ /\ f.amount = 0
        /\ IF Job(p).kind = "checkout"
             THEN Goto(p, "invoice") /\ UNCHANGED lock
             ELSE Abort(p, "ValueError")
     \/ /\ f.amount > 0
        /\ lock[f.wallet] = NoProc
        /\ IF balance[f.wallet] < f.amount
             THEN Abort(p, "InsufficientBalance")
             ELSE Acquire(p, f.wallet) /\ Goto(p, "invoice")
  /\ UNCHANGED <<orders, facts, balance, credited, used>>

\* _assign_invoice_number
DrawInvoice(p) ==
  /\ proc[p].pc = "invoice"
  /\ proc' = [proc EXCEPT ![p].invoice = assign_invoice_number(orders),
                          ![p].pc = IF Job(p).kind = "checkout" THEN "save" ELSE "coupon"]
  /\ UNCHANGED <<orders, facts, balance, credited, used, lock, answer>>

\* Mutant: no unique index on invoice_number.
SaveOrderUnindexed(p) ==
  /\ proc[p].pc = "save"
  /\ Goto(p, "commit")
  /\ UNCHANGED <<orders, facts, balance, credited, used, lock>>

\* order.save(): the unique index on invoice_number waits for a competing
\* uncommitted number and fails on a committed one.
SaveOrder(p) ==
  /\ proc[p].pc = "save"
  /\ \A q \in Procs \ {p} : ~(proc[q].pc = "commit" /\ proc[q].invoice = proc[p].invoice)
  /\ IF \E o \in Orders : orders[o].invoice = proc[p].invoice
       THEN Abort(p, "IntegrityError")
       ELSE Goto(p, "commit") /\ UNCHANGED lock
  /\ UNCHANGED <<orders, facts, balance, credited, used>>

\* Subscription, grants and seller earning (not for static QRIS: that money
\* never reached the platform), then the commit of everything above.
Commit(p) ==
  LET o == Ord(p)  f == Fact(p) IN
  /\ proc[p].pc = "commit"
  /\ orders' = [orders EXCEPT ![o] =
       Fulfil(@, proc[p].invoice, f.plan = "recurring", Job(p).kind # "confirm")]
  /\ facts' = [facts EXCEPT ![o] = f]
  /\ balance' = IF Job(p).kind = "confirm" \/ f.amount = 0 THEN balance
                ELSE [balance EXCEPT ![f.wallet] = @ - f.amount]
  /\ used' = IF lock[Coupon] = p THEN used + 1 ELSE used
  /\ Abort(p, "paid")
  /\ UNCHANGED credited

\* H1: a provisioner raises, or the process dies, inside the transaction.
RollBack(p) ==
  /\ proc[p].pc \in {"coupon", "debit", "invoice", "save", "commit"}
  /\ Abort(p, "rolled_back")
  /\ UNCHANGED <<orders, facts, balance, credited, used>>

\* PostgreSQL's deadlock detector aborts a transaction that waits for a row
\* whose holder waits for a row of its own.
Wants(p, row) ==
  \/ /\ proc[p].pc = "debit" /\ Fact(p).amount > 0 /\ row = Fact(p).wallet
  \/ /\ proc[p].pc = "coupon" /\ Fact(p).discounted /\ row = Coupon

DeadlockVictim(p) ==
  /\ \E q \in Procs \ {p}, r1, r2 \in Rows :
       Wants(p, r1) /\ lock[r1] = q /\ Wants(q, r2) /\ lock[r2] = p
  /\ Abort(p, "OperationalError")
  /\ UNCHANGED <<orders, facts, balance, credited, used>>

\* A funding TopUp is credited (module TopUp).
CreditTopUp(w) ==
  /\ credited[w] < MaxTopUps
  /\ lock[w] = NoProc
  /\ balance' = [balance EXCEPT ![w] = @ + TopUpAmount]
  /\ credited' = [credited EXCEPT ![w] = @ + 1]
  /\ UNCHANGED <<orders, facts, used, lock, proc, answer>>

Step(p) ==
  \/ Lookup(p) \/ CheckBalance(p) \/ CreatePending(p) \/ CreateFree(p)
  \/ InsertOrder(p) \/ LockOrder(p) \/ UseCoupon(p) \/ Debit(p)
  \/ DrawInvoice(p) \/ SaveOrder(p) \/ Commit(p) \/ DeadlockVictim(p)

Next == \/ \E p \in Procs : Step(p) \/ Refuse(p) \/ RollBack(p) \/ \E j \in Jobs : Start(p, j)
        \/ \E w \in Wallets : CreditTopUp(w)

Spec == Init /\ [][Next]_vars

-----------------------------------------------------------------------------
FactRow == [wallet : Wallets \cup {"none"}, plan : {"recurring", "once", "none"},
            amount : Nat, channel : {"wallet", "qris_static", "none"}, discounted : BOOLEAN]

ProcState == [pc : {"idle", "lookup", "balance", "shortfall", "insert", "lock_order",
                    "coupon", "debit", "invoice", "save", "commit"},
              job : Jobs \cup {NoJob}, off : BOOLEAN, invoice : Nat]

TypeOK ==
  /\ orders \in [Orders -> OrderRow] /\ facts \in [Orders -> FactRow]
  /\ balance \in [Wallets -> Int] /\ credited \in [Wallets -> Nat]
  /\ used \in Nat
  /\ lock \in [Rows -> Procs \cup {NoProc}]
  /\ proc \in [Procs -> ProcState]

PaidOrders == {o \in Orders : orders[o].status = "paid"}
Invoiced == {o \in Orders : orders[o].invoice > 0}
Redemptions == {o \in PaidOrders : facts[o].discounted}
Amounts == [o \in Orders |-> facts[o].amount]
Bill(w) == {o \in PaidOrders : facts[o].wallet = w /\ facts[o].channel = "wallet"}

\* Each wallet lost exactly the amounts of its PAID wallet orders: however
\* calls repeat a key, overlap, fail or deadlock, no order is charged twice,
\* none is PAID without its debit and static QRIS never touches the wallet.
ChargedExactlyOnce ==
  \A w \in Wallets :
    /\ balance[w] = StartBalance[w] + credited[w] * TopUpAmount
                      - SumOf(Amounts, Bill(w))
    /\ balance[w] >= 0

\* Grants, subscription and earning exist exactly once for a PAID order and
\* not at all otherwise: two confirmations never deliver twice, and the
\* seller's confirm and reject cannot both take effect.
FulfilledExactlyOnce ==
  \A o \in Orders :
    LET row == orders[o]  paid == o \in PaidOrders IN
    /\ row.grants = IF paid THEN 1 ELSE 0
    /\ row.subs = IF paid /\ facts[o].plan = "recurring" /\ row.invoice > 0 THEN 1 ELSE 0
    /\ row.earnings = IF paid /\ (facts[o].channel = "wallet" \/ row.invoice = 0) THEN 1 ELSE 0

\* Invoice numbers are 1..n without gap or repetition, although they are
\* drawn from an aggregate that locks nothing.
InvoicesAreSequential ==
  /\ {orders[o].invoice : o \in Invoiced} = 1..Cardinality(Invoiced)
  /\ Invoiced \subseteq PaidOrders

\* No redemption is lost or counted twice: used_count is the number of
\* discounted PAID orders, up to the limit.
RedemptionsAreCounted ==
  used = IF UsageLimit > 0 /\ Cardinality(Redemptions) > UsageLimit
         THEN UsageLimit ELSE Cardinality(Redemptions)

=============================================================================
