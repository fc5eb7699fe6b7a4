---------------------------- MODULE CheckoutProofs ----------------------------
(***************************************************************************)
(* TLAPS proofs about Checkout, for any number of workers, orders, wallets *)
(* and calls and any prices.                                               *)
(*                                                                         *)
(* Claim(p) is what the transaction p has under way may rely on until its  *)
(* commit: its order is its own, the wallet it will debit is locked and    *)
(* covers the amount, the coupon it will count is locked and not used up,  *)
(* the invoice number it drew is the next one or was taken meanwhile.      *)
(***************************************************************************)
EXTENDS Checkout, AggregatesProofs

\* Points at which a transaction with writes is under way.
Working == {"coupon", "debit", "invoice", "save", "commit"}

\* The debit was made, the redemption counted, the number drawn, by p.
Debited(p) == \/ proc[p].pc \in {"invoice", "save", "commit"} /\ Job(p).kind # "confirm"
              \/ proc[p].pc = "coupon" /\ Job(p).kind = "complete"
Counted(p) == \/ proc[p].pc \in {"save", "commit"}
              \/ proc[p].pc \in {"debit", "invoice"} /\ Job(p).kind = "checkout"
Numbered(p) == \/ proc[p].pc \in {"save", "commit"}
               \/ proc[p].pc = "coupon" /\ Job(p).kind # "checkout"

UsedUp == UsageLimit > 0 /\ used >= UsageLimit

\* The call p handles.
CallClaim(p) ==
  LET pc == proc[p].pc  j == Job(p) IN
  /\ pc # "idle" => j \in Jobs
  /\ pc \in {"lookup", "balance", "shortfall", "insert"} => j.kind = "checkout"
  /\ pc = "lock_order" => j.kind # "checkout" /\ orders[Ord(p)].status # "absent"
  /\ pc \in Working => j.kind # "reject"
  /\ pc \in Working /\ j.kind = "checkout" => j.method = "wallet"
  /\ pc \notin {"idle", "lookup"} /\ proc[p].off => j.kind = "checkout" /\ j.base > 0

\* The order p works on: not yet there for checkout(), locked for the others.
OrderClaim(p) ==
  LET pc == proc[p].pc  kind == Job(p).kind  o == Ord(p) IN
  /\ pc \in Working /\ kind = "checkout" => orders[o].status = "absent"
  /\ pc \in Working /\ kind # "checkout" => orders[o].status = "pending" /\ lock[o] = p
  /\ pc \in Working /\ kind = "confirm" => facts[o].channel = "qris_static"
  /\ pc \in Working \cup {"lock_order"} /\ kind = "complete" => facts[o].channel = "wallet"

\* The wallet p debited.
WalletClaim(p) ==
  Debited(p) /\ Fact(p).amount > 0 =>
    lock[Fact(p).wallet] = p /\ balance[Fact(p).wallet] >= Fact(p).amount

\* The coupon.
CouponClaim(p) ==
  /\ lock[Coupon] = p => Counted(p) /\ Fact(p).discounted /\ ~UsedUp
  /\ Counted(p) /\ Fact(p).discounted => lock[Coupon] = p \/ UsedUp

\* The invoice number.
NumberClaim(p) ==
  /\ Numbered(p) => proc[p].invoice \in 1 .. Cardinality(Invoiced) + 1
  /\ proc[p].pc = "commit" => proc[p].invoice = Cardinality(Invoiced) + 1

Claim(p) == CallClaim(p) /\ OrderClaim(p) /\ WalletClaim(p) /\ CouponClaim(p) /\ NumberClaim(p)

\* No two transactions work on one order, or are about to commit.
Apart ==
  \A p, q \in Procs : p # q =>
    /\ proc[p].pc \in Working /\ proc[q].pc \in Working => Ord(p) # Ord(q)
    /\ ~(proc[p].pc = "commit" /\ proc[q].pc = "commit")

\* The facts of an order are set when it is created.
FactsInv == \A o \in Orders : orders[o].status # "absent" => facts[o].wallet \in Wallets

IInv == /\ TypeOK /\ (\A p \in Procs : Claim(p)) /\ Apart /\ FactsInv
        /\ ChargedExactlyOnce /\ FulfilledExactlyOnce
        /\ InvoicesAreSequential /\ RedemptionsAreCounted

-----------------------------------------------------------------------------
(* What p is doing, and what the others do to it *)

\* An order's facts as a checkout() makes them, or as they were committed.
LEMMA FactForm ==
  ASSUME TypeOK, NEW p \in Procs, Job(p) \in Jobs
  PROVE  /\ Fact(p) \in FactRow
         /\ Job(p).kind = "checkout" =>
              /\ Fact(p).wallet = Job(p).wallet /\ Fact(p).wallet \in Wallets
              /\ Fact(p).channel = Job(p).method /\ Fact(p).plan = Job(p).plan
              /\ Fact(p).discounted = proc[p].off
              /\ Job(p).base = 0 => Fact(p).amount = 0
         /\ Job(p).kind # "checkout" => Fact(p) = facts[Ord(p)]
<1>1. /\ Job(p).kind \in Kinds /\ Ord(p) \in Orders
      /\ Job(p).kind = "checkout" =>
           /\ Job(p).wallet \in Wallets /\ Job(p).plan \in {"recurring", "once"}
           /\ Job(p).base \in Nat /\ Job(p).discount \in Nat
           /\ Job(p).method \in {"wallet", "qris_static"}
  BY JobsAssumption DEF Ord
<1>2. proc[p].off \in BOOLEAN /\ facts[Ord(p)] \in FactRow
  BY <1>1 DEF TypeOK, ProcState
<1>3. CASE Job(p).kind # "checkout"
  BY <1>2, <1>3 DEF Fact
<1>4. CASE Job(p).kind = "checkout"
  <2>1. EffectivePrice(p) \in Nat /\ (Job(p).base = 0 => EffectivePrice(p) = 0)
    BY <1>1, <1>4 DEF EffectivePrice
  <2> DEFINE price == EffectivePrice(p)
             j == Job(p)
  <2>2. Fact(p) = [wallet |-> j.wallet, plan |-> j.plan, amount |-> price,
                   channel |-> j.method, discounted |-> proc[p].off]
    BY <1>4 DEF Fact
  <2>3. /\ price \in Nat /\ (j.base = 0 => price = 0)
        /\ j.wallet \in Wallets /\ j.plan \in {"recurring", "once"}
        /\ j.method \in {"wallet", "qris_static"}
    BY <1>1, <1>4, <2>1
  <2> HIDE DEF price, j
  <2>4. Fact(p) \in FactRow
    BY <1>2, <2>2, <2>3 DEF FactRow
  <2>5. /\ Fact(p).wallet = j.wallet /\ Fact(p).channel = j.method /\ Fact(p).plan = j.plan
        /\ Fact(p).amount = price
    BY <2>2
  <2>6. Fact(p).discounted = proc[p].off
    BY <2>2
  <2> QED BY <1>4, <2>3, <2>4, <2>5, <2>6 DEF j
<1> QED BY <1>3, <1>4

\* What a step of p leaves to the others.
Frame(p) ==
  /\ \A q \in Procs \ {p} :
       /\ proc'[q] = proc[q]
       /\ \A r \in Rows : lock'[r] = q <=> lock[r] = q
       /\ proc[q].pc \in Working => orders'[Ord(q)].status = orders[Ord(q)].status
       /\ \A w \in Wallets : lock[w] = q => balance'[w] = balance[w]
       /\ lock[Coupon] = q => used' = used
       /\ proc[q].pc = "commit" => Cardinality(Invoiced') = Cardinality(Invoiced)
  /\ \A o \in Orders : orders[o].status # "absent" =>
       orders'[o].status # "absent" /\ facts'[o] = facts[o]
  /\ used' \in Nat /\ used' >= used
  /\ Cardinality(Invoiced') \in Nat /\ Cardinality(Invoiced') >= Cardinality(Invoiced)

\* They keep what they rely on.
LEMMA OthersKeep ==
  ASSUME IInv, NEW p, Frame(p), NEW q \in Procs \ {p}, Cardinality(Invoiced) \in Nat
  PROVE  Claim(q)'
<1>0. TypeOK /\ Claim(q) /\ FactsInv
  BY DEF IInv
<1>1. proc'[q] = proc[q] /\ Job(q)' = Job(q) /\ Ord(q)' = Ord(q)
  BY DEF Frame, Job, Ord
<1>2. Debited(q)' = Debited(q) /\ Counted(q)' = Counted(q) /\ Numbered(q)' = Numbered(q)
  BY <1>1 DEF Debited, Counted, Numbered
<1>3. proc[q].pc # "idle" => Job(q) \in Jobs /\ Ord(q) \in Orders
  BY <1>0, JobsAssumption DEF Claim, CallClaim, Ord
<1>4. CallClaim(q)'
  BY <1>0, <1>1, <1>3 DEF Claim, CallClaim, Frame
<1>5. OrderClaim(q)'
  <2>1. proc[q].pc \in Working => orders'[Ord(q)].status = orders[Ord(q)].status
    BY DEF Frame
  <2>2. proc[q].pc \in Working \cup {"lock_order"} /\ Job(q).kind # "checkout"
          => facts'[Ord(q)] = facts[Ord(q)] /\ (lock'[Ord(q)] = q <=> lock[Ord(q)] = q)
    BY <1>0, <1>3 DEF Claim, CallClaim, OrderClaim, Frame, Working, Rows
  <2> QED BY <1>0, <1>1, <2>1, <2>2 DEF Claim, OrderClaim, Working
<1>6. proc[q].pc \in Working => Fact(q)' = Fact(q)
  <2>1. CASE Job(q).kind = "checkout"
    BY <1>1, <2>1 DEF Fact, EffectivePrice
  <2>2. CASE Job(q).kind # "checkout" /\ proc[q].pc \in Working
    <3>1. facts'[Ord(q)] = facts[Ord(q)]
      BY <1>0, <1>3, <2>2 DEF Claim, OrderClaim, Frame, Working
    <3> QED BY <1>1, <2>2, <3>1 DEF Fact
  <2> QED BY <2>1, <2>2
<1>7. Debited(q) \/ Counted(q) => proc[q].pc \in Working
  BY DEF Debited, Counted, Working
<1>8. WalletClaim(q)'
  <2> SUFFICES ASSUME Debited(q), Fact(q).amount > 0
               PROVE  lock'[Fact(q).wallet] = q /\ balance'[Fact(q).wallet] >= Fact(q).amount
    BY <1>2, <1>6, <1>7 DEF WalletClaim
  <2>1. lock[Fact(q).wallet] = q /\ balance[Fact(q).wallet] >= Fact(q).amount
    BY <1>0 DEF Claim, WalletClaim
  <2>2. Fact(q).wallet \in Wallets
    <3>1. proc[q].pc \in Working /\ proc[q].pc # "idle"
      BY <1>7 DEF Working
    <3>2. Job(q).kind # "checkout" => orders[Ord(q)].status = "pending"
      BY <1>0, <3>1 DEF Claim, OrderClaim
    <3> QED BY <1>0, <1>3, <3>1, <3>2, FactForm DEF FactsInv
  <2> QED BY <2>1, <2>2 DEF Frame, Rows
<1>9. CouponClaim(q)'
  <2>1. /\ lock'[Coupon] = q <=> lock[Coupon] = q
        /\ lock[Coupon] = q => used' = used
        /\ UsedUp => UsedUp'
    BY <1>0, CheckoutAssumption DEF Frame, Rows, UsedUp, TypeOK
  <2> QED BY <1>0, <1>2, <1>6, <1>7, <2>1 DEF Claim, CouponClaim, UsedUp
<1>10. NumberClaim(q)'
  BY <1>0, <1>1, <1>2 DEF Claim, NumberClaim, Frame
<1> QED BY <1>4, <1>5, <1>8, <1>9, <1>10 DEF Claim

\* The invoiced orders can be counted.
LEMMA InvoicedCount ==
  IsFiniteSet(Invoiced) /\ Cardinality(Invoiced) \in Nat /\ Invoiced \subseteq Orders
BY CheckoutAssumption, FS_Subset, FS_CardinalityType DEF Invoiced

\* A step that commits nothing keeps the invariant if p moves to a point
\* whose claims hold.
LEMMA QuietStep ==
  ASSUME IInv, NEW p \in Procs, UNCHANGED <<orders, facts, balance, credited, used>>,
         proc' \in [Procs -> ProcState], lock' \in [Rows -> Procs \cup {NoProc}],
         \A q \in Procs \ {p} : proc'[q] = proc[q] /\ \A r \in Rows : lock'[r] = q <=> lock[r] = q,
         Claim(p)',
         proc'[p].pc \in Working =>
           \A q \in Procs \ {p} : proc[q].pc \in Working => Ord(q) # Ord(p)',
         proc'[p].pc = "commit" => \A q \in Procs \ {p} : proc[q].pc # "commit"
  PROVE  IInv'
<1>0. TypeOK /\ (\A q \in Procs : Claim(q)) /\ Apart /\ FactsInv
      /\ ChargedExactlyOnce /\ FulfilledExactlyOnce
      /\ InvoicesAreSequential /\ RedemptionsAreCounted
  BY DEF IInv
<1>1. Invoiced' = Invoiced /\ PaidOrders' = PaidOrders /\ Redemptions' = Redemptions
      /\ Amounts' = Amounts /\ \A w : Bill(w)' = Bill(w)
  BY DEF Invoiced, PaidOrders, Redemptions, Amounts, Bill
<1>2. TypeOK'
  BY <1>0 DEF TypeOK
<1>3. Frame(p)
  BY <1>0, <1>1, InvoicedCount DEF Frame, TypeOK
<1>4. \A q \in Procs : Claim(q)'
  BY <1>3, OthersKeep, InvoicedCount
<1>5. Apart'
  BY <1>0 DEF Apart, Ord, Job
<1>6. FactsInv' /\ ChargedExactlyOnce' /\ FulfilledExactlyOnce'
      /\ InvoicesAreSequential' /\ RedemptionsAreCounted'
  BY <1>0, <1>1 DEF FactsInv, ChargedExactlyOnce, FulfilledExactlyOnce, InvoicesAreSequential,
                    RedemptionsAreCounted
<1> QED BY <1>2, <1>4, <1>5, <1>6 DEF IInv

-----------------------------------------------------------------------------
(* Locks, and the end of a call *)

\* All of p's locks are gone, and no other.
LEMMA ReleaseForm ==
  ASSUME TypeOK, NEW p \in Procs, Release(p)
  PROVE  /\ lock' \in [Rows -> Procs \cup {NoProc}] /\ \A r \in Rows : lock'[r] # p
         /\ \A q \in Procs \ {p} : \A r \in Rows : lock'[r] = q <=> lock[r] = q
BY CheckoutAssumption DEF TypeOK, Release

\* p has one lock more, which was free or its own.
LEMMA AcquireForm ==
  ASSUME TypeOK, NEW p \in Procs, NEW row \in Rows, Acquire(p, row)
  PROVE  /\ lock' \in [Rows -> Procs \cup {NoProc}] /\ lock'[row] = p
         /\ \A r \in Rows \ {row} : lock'[r] = lock[r]
         /\ \A q \in Procs \ {p} : \A r \in Rows : lock'[r] = q <=> lock[r] = q
BY CheckoutAssumption DEF TypeOK, Acquire

\* An ended call relies on nothing, if it holds no coupon.
LEMMA EndForm ==
  ASSUME TypeOK, NEW p \in Procs, NEW how, End(p, how)
  PROVE  /\ proc' \in [Procs -> ProcState] /\ proc'[p].pc = "idle"
         /\ \A q \in Procs \ {p} : proc'[q] = proc[q]
         /\ lock'[Coupon] # p => Claim(p)'
<1>1. Idle \in ProcState /\ Idle.pc = "idle"
  BY DEF Idle, ProcState
<1>2. /\ proc' \in [Procs -> ProcState] /\ proc'[p].pc = "idle"
      /\ \A q \in Procs \ {p} : proc'[q] = proc[q]
  BY <1>1 DEF TypeOK, End
<1>3. ASSUME lock'[Coupon] # p PROVE Claim(p)'
  <2>1. CallClaim(p)' /\ OrderClaim(p)'
    BY <1>2 DEF CallClaim, OrderClaim, Working
  <2>2. ~Debited(p)' /\ ~Counted(p)' /\ ~Numbered(p)'
    BY <1>2 DEF Debited, Counted, Numbered
  <2> QED BY <1>2, <1>3, <2>1, <2>2 DEF Claim, WalletClaim, CouponClaim, NumberClaim
<1> QED BY <1>2, <1>3

\* Outside a transaction p holds no coupon; when it ends, it holds nothing.
LEMMA QuietEnd ==
  ASSUME IInv, NEW p \in Procs, NEW how, End(p, how),
         UNCHANGED <<orders, facts, balance, credited, used>>,
         (proc[p].pc \notin Working /\ UNCHANGED lock) \/ Release(p)
  PROVE  IInv'
<1>0. TypeOK /\ Claim(p)
  BY DEF IInv
<1>1. /\ lock' \in [Rows -> Procs \cup {NoProc}] /\ lock'[Coupon] # p
      /\ \A q \in Procs \ {p} : \A r \in Rows : lock'[r] = q <=> lock[r] = q
  <2>1. CASE Release(p)
    BY <1>0, <2>1, ReleaseForm DEF Rows
  <2>2. CASE proc[p].pc \notin Working /\ UNCHANGED lock
    <3>1. ~Counted(p)
      BY <2>2 DEF Counted, Working
    <3> QED BY <1>0, <2>2, <3>1 DEF Claim, CouponClaim, TypeOK
  <2> QED BY <2>1, <2>2
<1>2. /\ proc' \in [Procs -> ProcState] /\ proc'[p].pc = "idle"
      /\ \A q \in Procs \ {p} : proc'[q] = proc[q]
  BY <1>0, EndForm
<1>3. Claim(p)'
  BY <1>0, <1>1, EndForm
<1> QED BY <1>1, <1>2, <1>3, QuietStep DEF Working

-----------------------------------------------------------------------------
(* Steps that commit nothing *)

\* p goes on with its call.
LEMMA GotoForm ==
  ASSUME TypeOK, NEW p \in Procs,
         NEW point \in {"balance", "shortfall", "insert", "coupon", "debit", "invoice", "save", "commit"},
         Goto(p, point), UNCHANGED facts
  PROVE  /\ proc' \in [Procs -> ProcState] /\ proc'[p].pc = point
         /\ proc'[p].off = proc[p].off /\ proc'[p].invoice = proc[p].invoice
         /\ Job(p)' = Job(p) /\ Ord(p)' = Ord(p) /\ Fact(p)' = Fact(p)
         /\ \A q \in Procs \ {p} : proc'[q] = proc[q]
<1>1. /\ proc' \in [Procs -> ProcState] /\ proc'[p].pc = point
      /\ proc'[p].job = proc[p].job /\ proc'[p].invoice = proc[p].invoice
      /\ \A q \in Procs \ {p} : proc'[q] = proc[q]
  BY DEF TypeOK, ProcState, Goto
<1>2. proc'[p].off = proc[p].off
  BY DEF TypeOK, ProcState, Goto
<1>3. Job(p)' = Job(p) /\ Ord(p)' = Ord(p)
  BY <1>1 DEF Job, Ord
<1>4. Fact(p)' = Fact(p)
  BY <1>1, <1>2, <1>3 DEF Fact, EffectivePrice
<1> QED BY <1>1, <1>2, <1>3, <1>4

\* p's call and order exist.
LEMMA CallForm ==
  ASSUME IInv, NEW p \in Procs, proc[p].pc # "idle"
  PROVE  Job(p) \in Jobs /\ Ord(p) \in Orders /\ Job(p).kind \in Kinds
BY JobsAssumption DEF IInv, Claim, CallClaim, Ord

\* A call is made.
LEMMA StartStep ==
  ASSUME IInv, NEW p \in Procs, NEW j \in Jobs, Start(p, j)
  PROVE  IInv'
<1>0. TypeOK /\ Claim(p)
  BY DEF IInv
<1> DEFINE point == IF j.kind = "checkout" THEN "lookup" ELSE "lock_order"
           new == [pc |-> point, job |-> j, off |-> FALSE, invoice |-> 0]
<1>1. /\ proc[p].pc = "idle" /\ proc' = [proc EXCEPT ![p] = new]
      /\ j.kind # "checkout" => orders[j.order].status # "absent"
      /\ j.kind = "complete" => facts[j.order].channel = "wallet"
      /\ UNCHANGED <<orders, facts, balance, credited, used, lock>>
  BY DEF Start
<1>2. new \in ProcState /\ new.pc = point /\ new.job = j /\ new.off = FALSE
  BY DEF ProcState
<1> HIDE DEF new
<1>3. /\ proc' \in [Procs -> ProcState] /\ proc'[p] = new
      /\ \A q \in Procs \ {p} : proc'[q] = proc[q]
  BY <1>0, <1>1, <1>2 DEF TypeOK
<1>4. Job(p)' = j /\ Ord(p)' = j.order
  BY <1>2, <1>3 DEF Job, Ord
<1>5. Claim(p)'
  <2>1. CallClaim(p)' /\ OrderClaim(p)'
    BY <1>1, <1>2, <1>3, <1>4 DEF CallClaim, OrderClaim, Working
  <2>2. ~Debited(p)' /\ ~Counted(p)' /\ ~Numbered(p)' /\ proc'[p].pc # "commit"
    BY <1>2, <1>3 DEF Debited, Counted, Numbered
  <2>3. lock'[Coupon] # p
    BY <1>0, <1>1 DEF Claim, CouponClaim, Counted
  <2> QED BY <2>1, <2>2, <2>3 DEF Claim, WalletClaim, CouponClaim, NumberClaim
<1>6. lock' \in [Rows -> Procs \cup {NoProc}] /\ proc'[p].pc \notin Working /\ proc'[p].pc # "commit"
  BY <1>0, <1>1, <1>2, <1>3 DEF TypeOK, Working
<1> QED BY <1>1, <1>3, <1>5, <1>6, QuietStep

\* p moves on within the part of checkout() that precedes the insert.
LEMMA EarlyMove ==
  ASSUME IInv, NEW p \in Procs, Job(p) \in Jobs, Job(p).kind = "checkout",
         proc[p].pc \in {"lookup", "balance"},
         proc' \in [Procs -> ProcState], \A q \in Procs \ {p} : proc'[q] = proc[q],
         proc'[p].job = proc[p].job, proc'[p].pc \in {"balance", "shortfall", "insert"},
         proc'[p].off => Job(p).base > 0,
         UNCHANGED <<orders, facts, balance, credited, used, lock>>
  PROVE  IInv'
<1>0. TypeOK /\ Claim(p)
  BY DEF IInv
<1>1. Job(p)' = Job(p) /\ Ord(p)' = Ord(p)
  BY DEF Job, Ord
<1>2. CallClaim(p)' /\ OrderClaim(p)'
  BY <1>1 DEF CallClaim, OrderClaim, Working
<1>3. ~Debited(p)' /\ ~Counted(p)' /\ ~Numbered(p)' /\ proc'[p].pc # "commit"
  BY DEF Debited, Counted, Numbered
<1>4. lock'[Coupon] # p
  BY <1>0 DEF Claim, CouponClaim, Counted
<1>5. Claim(p)'
  BY <1>2, <1>3, <1>4 DEF Claim, WalletClaim, CouponClaim, NumberClaim
<1>6. lock' \in [Rows -> Procs \cup {NoProc}] /\ proc'[p].pc \notin Working
  BY <1>0 DEF TypeOK, Working
<1> QED BY <1>3, <1>5, <1>6, QuietStep

\* The idempotency lookup and the checks before the insert.
LEMMA EarlySteps ==
  ASSUME IInv, NEW p \in Procs, Lookup(p) \/ CheckBalance(p) \/ Refuse(p)
  PROVE  IInv'
<1>0. TypeOK /\ Claim(p)
  BY DEF IInv
<1>1. CASE Lookup(p)
  <2>1. /\ proc[p].pc = "lookup"
        /\ UNCHANGED <<orders, facts, balance, credited, used, lock>>
    BY <1>1 DEF Lookup
  <2>2. ASSUME NEW how, End(p, how) PROVE IInv'
    BY <2>1, <2>2, QuietEnd DEF Working
  <2>3. Job(p) \in Jobs /\ Job(p).kind = "checkout"
    BY <1>0, <2>1 DEF Claim, CallClaim
  <2> DEFINE point == IF Job(p).method = "wallet" /\ Job(p).base > 0 THEN "balance" ELSE "insert"
             off == /\ Job(p).base > 0 /\ Job(p).discount > 0
                    /\ UsageLimit = 0 \/ used < UsageLimit
  <2>4. ASSUME proc' = [proc EXCEPT ![p].pc = point, ![p].off = off]
        PROVE  IInv'
    <3>1. point \in {"balance", "insert"} /\ off \in BOOLEAN /\ (off => Job(p).base > 0)
      OBVIOUS
    <3> HIDE DEF point, off
    <3>2. /\ proc' \in [Procs -> ProcState] /\ \A q \in Procs \ {p} : proc'[q] = proc[q]
          /\ proc'[p].job = proc[p].job /\ proc'[p].pc = point
      BY <1>0, <2>4, <3>1 DEF TypeOK, ProcState
    <3>3. proc'[p].off = off
      BY <1>0, <2>4, <3>1 DEF TypeOK, ProcState
    <3> QED BY <2>1, <2>3, <3>1, <3>2, <3>3, EarlyMove
  <2>5. (\E how : End(p, how)) \/ proc' = [proc EXCEPT ![p].pc = point, ![p].off = off]
    BY <1>1 DEF Lookup
  <2> QED BY <2>2, <2>4, <2>5
<1>2. CASE CheckBalance(p)
  <2>1. PICK point \in {"insert", "shortfall"} :
          /\ proc[p].pc = "balance" /\ Goto(p, point)
          /\ UNCHANGED <<orders, facts, balance, credited, used, lock>>
    BY <1>2 DEF CheckBalance
  <2>2. Job(p) \in Jobs /\ Job(p).kind = "checkout" /\ (proc[p].off => Job(p).base > 0)
    BY <1>0, <2>1 DEF Claim, CallClaim
  <2>3. /\ proc' \in [Procs -> ProcState] /\ proc'[p].pc = point
        /\ proc'[p].off = proc[p].off /\ proc'[p].job = proc[p].job
        /\ \A q \in Procs \ {p} : proc'[q] = proc[q]
    BY <1>0, <2>1, GotoForm DEF Job
  <2> QED BY <2>1, <2>2, <2>3, EarlyMove
<1>3. CASE Refuse(p)
  <2>1. /\ proc[p].pc \in {"shortfall", "insert"} /\ End(p, "refused")
        /\ UNCHANGED <<orders, facts, balance, credited, used, lock>>
    BY <1>3 DEF Refuse
  <2> QED BY <2>1, QuietEnd DEF Working
<1> QED BY <1>1, <1>2, <1>3

\* The insert: nobody else has inserted this order.
LEMMA InsertStep ==
  ASSUME IInv, NEW p \in Procs, InsertOrder(p)
  PROVE  IInv'
<1>0. TypeOK /\ \A q \in Procs : Claim(q)
  BY DEF IInv
<1>1. /\ proc[p].pc = "insert" /\ Job(p).method = "wallet" /\ Job(p).base > 0
      /\ ~Inserted(Ord(p), p) /\ UNCHANGED <<orders, facts, balance, credited, used, lock>>
      /\ \/ End(p, "TransactionManagementError")
         \/ orders[Ord(p)].status = "absent" /\ Goto(p, "coupon")
  BY DEF InsertOrder
<1>2. CASE End(p, "TransactionManagementError")
  BY <1>1, <1>2, QuietEnd DEF Working
<1>3. CASE orders[Ord(p)].status = "absent" /\ Goto(p, "coupon")
  <2>1. /\ proc' \in [Procs -> ProcState] /\ proc'[p].pc = "coupon"
        /\ proc'[p].off = proc[p].off
        /\ Job(p)' = Job(p) /\ Ord(p)' = Ord(p) /\ Fact(p)' = Fact(p)
        /\ \A q \in Procs \ {p} : proc'[q] = proc[q]
    BY <1>0, <1>1, <1>3, GotoForm
  <2>2. Job(p) \in Jobs /\ Job(p).kind = "checkout"
    BY <1>0, <1>1 DEF Claim, CallClaim
  <2>3. CallClaim(p)' /\ OrderClaim(p)'
    BY <1>1, <1>3, <2>1, <2>2 DEF CallClaim, OrderClaim, Working
  <2>4. ~Debited(p)' /\ ~Counted(p)' /\ ~Numbered(p)' /\ proc'[p].pc # "commit"
    BY <2>1, <2>2 DEF Debited, Counted, Numbered
  <2>5. lock'[Coupon] # p
    BY <1>0, <1>1 DEF Claim, CouponClaim, Counted
  <2>6. Claim(p)'
    BY <2>3, <2>4, <2>5 DEF Claim, WalletClaim, CouponClaim, NumberClaim
  <2>7. ASSUME NEW q \in Procs \ {p}, proc[q].pc \in Working PROVE Ord(q) # Ord(p)
    <3>1. Job(q).kind = "checkout" => Ord(q) # Ord(p)
      BY <1>1, <2>7 DEF Inserted, Working
    <3>2. Job(q).kind # "checkout" => orders[Ord(q)].status = "pending"
      BY <1>0, <2>7 DEF Claim, OrderClaim
    <3> QED BY <1>3, <3>1, <3>2
  <2>8. lock' \in [Rows -> Procs \cup {NoProc}]
    BY <1>0, <1>1 DEF TypeOK
  <2> QED BY <1>1, <2>1, <2>4, <2>6, <2>7, <2>8, QuietStep
<1> QED BY <1>1, <1>2, <1>3

\* p goes on inside its transaction, with its claims.
LEMMA WorkingMove ==
  ASSUME IInv, NEW p \in Procs, proc[p].pc \in Working,
         NEW point \in Working, Goto(p, point), point # "commit",
         UNCHANGED <<orders, facts, balance, credited, used>>,
         lock' \in [Rows -> Procs \cup {NoProc}],
         \A q \in Procs \ {p} : \A r \in Rows : lock'[r] = q <=> lock[r] = q,
         \A r \in Rows : lock[r] = p => lock'[r] = p,
         WalletClaim(p)', CouponClaim(p)', Numbered(p)' => Numbered(p)
  PROVE  IInv'
<1>0. TypeOK /\ Claim(p) /\ Apart
  BY DEF IInv
<1>1. /\ proc' \in [Procs -> ProcState] /\ proc'[p].pc = point
      /\ proc'[p].off = proc[p].off /\ proc'[p].invoice = proc[p].invoice
      /\ Job(p)' = Job(p) /\ Ord(p)' = Ord(p) /\ Fact(p)' = Fact(p)
      /\ \A q \in Procs \ {p} : proc'[q] = proc[q]
  BY <1>0, GotoForm DEF Working
<1>2. Ord(p) \in Rows
  BY CallForm DEF Working, Rows
<1>3. CallClaim(p)' /\ OrderClaim(p)'
  BY <1>0, <1>1, <1>2 DEF Claim, CallClaim, OrderClaim, Working
<1>4. Invoiced' = Invoiced
  BY DEF Invoiced
<1>5. NumberClaim(p)'
  BY <1>0, <1>1, <1>4 DEF Claim, NumberClaim
<1>6. Claim(p)'
  BY <1>3, <1>5 DEF Claim
<1>7. \A q \in Procs \ {p} : proc[q].pc \in Working => Ord(q) # Ord(p)'
  BY <1>0, <1>1 DEF Apart
<1> QED BY <1>1, <1>6, <1>7, QuietStep

\* The coupon: counted under its lock and below the limit, or not at all.
LEMMA CouponStep ==
  ASSUME IInv, NEW p \in Procs, UseCoupon(p)
  PROVE  IInv'
<1>0. TypeOK /\ Claim(p)
  BY DEF IInv
<1> DEFINE next == IF Job(p).kind = "checkout" THEN "debit" ELSE "save"
<1>1. /\ proc[p].pc = "coupon" /\ UNCHANGED <<orders, facts, balance, credited, used>>
      /\ \/ ~Fact(p).discounted /\ Goto(p, next) /\ UNCHANGED lock
         \/ Fact(p).discounted /\ ~UsedUp /\ Acquire(p, Coupon) /\ Goto(p, next)
         \/ Job(p).kind = "checkout" /\ Abort(p, "CouponLimitError")
         \/ Job(p).kind # "checkout" /\ UsedUp /\ Goto(p, next) /\ UNCHANGED lock
  BY DEF UseCoupon, UsedUp
<1>2. CASE Abort(p, "CouponLimitError")
  BY <1>1, <1>2, QuietEnd DEF Abort
<1>3. ASSUME Goto(p, next), lock' \in [Rows -> Procs \cup {NoProc}],
             \A q \in Procs \ {p} : \A r \in Rows : lock'[r] = q <=> lock[r] = q,
             \A r \in Rows \ {Coupon} : lock'[r] = lock[r],
             lock[Coupon] = p => lock'[Coupon] = p,
             lock'[Coupon] = p => Fact(p).discounted /\ ~UsedUp,
             Fact(p).discounted => lock'[Coupon] = p \/ UsedUp
      PROVE  IInv'
  <2>1. next \in {"debit", "save"} /\ (next = "debit" <=> Job(p).kind = "checkout")
    OBVIOUS
  <2> HIDE DEF next
  <2>2. /\ proc'[p].pc = next /\ Job(p)' = Job(p) /\ Fact(p)' = Fact(p)
    BY <1>0, <1>1, <1>3, <2>1, GotoForm
  <2>3. Debited(p)' => Debited(p)
    <3>1. Job(p).kind \in Kinds /\ Job(p).kind # "reject"
      BY <1>0, <1>1, CallForm DEF Claim, CallClaim, Working
    <3> QED BY <1>1, <2>1, <2>2, <3>1 DEF Debited, Kinds
  <2>4. Numbered(p)' => Numbered(p)
    BY <1>1, <2>1, <2>2 DEF Numbered
  <2>5. Counted(p)'
    BY <2>1, <2>2 DEF Counted
  <2>6. CouponClaim(p)'
    BY <1>1, <1>3, <2>2, <2>5 DEF CouponClaim, UsedUp
  <2>7. WalletClaim(p)'
    <3> SUFFICES ASSUME Debited(p), Fact(p).amount > 0
                 PROVE  lock'[Fact(p).wallet] = p /\ balance'[Fact(p).wallet] >= Fact(p).amount
      BY <2>2, <2>3 DEF WalletClaim
    <3>1. lock[Fact(p).wallet] = p /\ balance[Fact(p).wallet] >= Fact(p).amount
      BY <1>0 DEF Claim, WalletClaim
    <3>2. Fact(p).wallet \in Wallets
      <4>1. Job(p) \in Jobs /\ Job(p).kind # "checkout" => orders[Ord(p)].status = "pending"
        BY <1>0, <1>1 DEF Claim, OrderClaim, Working
      <4>2. Job(p) \in Jobs /\ Ord(p) \in Orders
        BY <1>1, CallForm
      <4> QED BY <1>0, <4>1, <4>2, FactForm DEF IInv, FactsInv
    <3> QED BY <1>1, <1>3, <3>1, <3>2, CheckoutAssumption DEF Rows
  <2>8. \A r \in Rows : lock[r] = p => lock'[r] = p
    BY <1>3
  <2> QED BY <1>1, <1>3, <2>1, <2>4, <2>6, <2>7, <2>8, WorkingMove DEF Working
<1>4. lock[Coupon] # p
  <2>1. ~Counted(p)
    BY <1>1 DEF Counted
  <2> QED BY <1>0, <2>1 DEF Claim, CouponClaim
<1>5. CASE Goto(p, next) /\ UNCHANGED lock /\ (Fact(p).discounted => UsedUp)
  BY <1>0, <1>3, <1>4, <1>5 DEF TypeOK
<1>6. CASE Fact(p).discounted /\ ~UsedUp /\ Acquire(p, Coupon) /\ Goto(p, next)
  <2>1. /\ lock' \in [Rows -> Procs \cup {NoProc}] /\ lock'[Coupon] = p
        /\ \A r \in Rows \ {Coupon} : lock'[r] = lock[r]
        /\ \A q \in Procs \ {p} : \A r \in Rows : lock'[r] = q <=> lock[r] = q
    BY <1>0, <1>6, AcquireForm DEF Rows
  <2> QED BY <1>3, <1>6, <2>1
<1> QED BY <1>1, <1>2, <1>5, <1>6

\* debit(): the wallet is locked and covers the amount.
LEMMA DebitStep ==
  ASSUME IInv, NEW p \in Procs, Debit(p)
  PROVE  IInv'
<1>0. TypeOK /\ Claim(p) /\ FactsInv
  BY DEF IInv
<1> DEFINE f == Fact(p)
<1>1. /\ proc[p].pc = "debit" /\ UNCHANGED <<orders, facts, balance, credited, used>>
      /\ \/ f.amount = 0 /\ Goto(p, "invoice") /\ UNCHANGED lock
         \/ \E how : Abort(p, how)
         \/ /\ f.amount > 0 /\ ~(balance[f.wallet] < f.amount)
            /\ Acquire(p, f.wallet) /\ Goto(p, "invoice")
  BY DEF Debit
<1>2. ASSUME NEW how, Abort(p, how) PROVE IInv'
  BY <1>1, <1>2, QuietEnd DEF Abort
<1>3. f \in FactRow /\ f.wallet \in Wallets
  <2>1. Job(p) \in Jobs /\ Ord(p) \in Orders
    BY <1>1, CallForm
  <2>2. Job(p).kind # "checkout" => orders[Ord(p)].status = "pending"
    BY <1>0, <1>1 DEF Claim, OrderClaim, Working
  <2> QED BY <1>0, <2>1, <2>2, FactForm DEF FactsInv
<1>4. ASSUME Goto(p, "invoice"), lock' \in [Rows -> Procs \cup {NoProc}],
             \A q \in Procs \ {p} : \A r \in Rows : lock'[r] = q <=> lock[r] = q,
             \A r \in Rows : lock[r] = p => lock'[r] = p,
             lock'[Coupon] = lock[Coupon],
             f.amount > 0 => lock'[f.wallet] = p /\ balance[f.wallet] >= f.amount
      PROVE  IInv'
  <2>1. proc'[p].pc = "invoice" /\ Job(p)' = Job(p) /\ Fact(p)' = Fact(p)
    BY <1>0, <1>1, <1>4, GotoForm
  <2>2. WalletClaim(p)'
    BY <1>1, <1>4, <2>1 DEF WalletClaim
  <2>3. (Counted(p)' <=> Counted(p)) /\ (Numbered(p)' => Numbered(p))
    BY <1>1, <2>1 DEF Counted, Numbered
  <2>4. CouponClaim(p)'
    BY <1>0, <1>1, <1>4, <2>1, <2>3 DEF Claim, CouponClaim, UsedUp
  <2> HIDE DEF f
  <2> QED BY <1>1, <1>4, <2>2, <2>3, <2>4, WorkingMove DEF Working
<1>5. CASE f.amount = 0 /\ Goto(p, "invoice") /\ UNCHANGED lock
  BY <1>0, <1>4, <1>5 DEF TypeOK
<1>6. CASE /\ f.amount > 0 /\ ~(balance[f.wallet] < f.amount)
           /\ Acquire(p, f.wallet) /\ Goto(p, "invoice")
  <2>1. f.wallet \in Rows /\ f.wallet # Coupon /\ Coupon \in Rows
    BY <1>3, CheckoutAssumption DEF Rows
  <2>2. balance[f.wallet] \in Int /\ f.amount \in Nat
    BY <1>0, <1>3 DEF TypeOK, FactRow
  <2>3. balance[f.wallet] >= f.amount
    BY <1>6, <2>2
  <2> HIDE DEF f
  <2>4. /\ lock' \in [Rows -> Procs \cup {NoProc}] /\ lock'[f.wallet] = p
        /\ \A r \in Rows \ {f.wallet} : lock'[r] = lock[r]
        /\ \A q \in Procs \ {p} : \A r \in Rows : lock'[r] = q <=> lock[r] = q
    BY <1>0, <1>6, <2>1, AcquireForm
  <2> QED BY <1>4, <1>6, <2>1, <2>3, <2>4
<1> QED BY <1>1, <1>2, <1>5, <1>6

\* The number drawn is one more than the invoices there are.
LEMMA NextInvoice ==
  ASSUME TypeOK, InvoicesAreSequential, Orders # {}
  PROVE  assign_invoice_number(orders) = Cardinality(Invoiced) + 1
<1> DEFINE g == [x \in Orders |-> orders[x].invoice]
           n == Cardinality(Invoiced)
           m == Max({g[x] : x \in Orders})
<1>1. DOMAIN orders = Orders /\ \A x \in Orders : g[x] \in Nat /\ g[x] = orders[x].invoice
  BY DEF TypeOK, OrderRow
<1>2. n \in Nat
  BY InvoicedCount
<1>3. m \in {g[x] : x \in Orders} /\ \A y \in Orders : g[y] <= m
  <2>1. IsFiniteSet(Orders) /\ \A x \in Orders : g[x] \in Int
    BY <1>1, CheckoutAssumption
  <2> HIDE DEF g
  <2> QED BY <2>1, MaxOfRows
<1>4. {orders[x].invoice : x \in DOMAIN orders} = {g[x] : x \in Orders}
  BY <1>1
<1>5. PICK x \in Orders : m = orders[x].invoice
  BY <1>1, <1>3
<1>6. m \in Nat
  BY <1>1, <1>5
<1>7. assign_invoice_number(orders) = m + 1
  BY <1>4 DEF assign_invoice_number
<1>8. \A y \in Orders : orders[y].invoice \in Nat /\ orders[y].invoice <= m
  BY <1>1, <1>3
<1> HIDE DEF m, n, g
<1>9. {orders[o].invoice : o \in Invoiced} = 1 .. n
  BY DEF InvoicesAreSequential, n
<1>10. m <= n
  <2>1. CASE m = 0
    BY <1>2, <2>1
  <2>2. CASE m > 0
    <3>1. x \in Invoiced
      BY <1>5, <2>2 DEF Invoiced
    <3>2. orders[x].invoice \in 1 .. n
      BY <1>9, <3>1
    <3> QED BY <1>2, <1>5, <3>2
  <2> QED BY <1>6, <2>1, <2>2
<1>11. n <= m
  <2>1. CASE n = 0
    BY <1>6, <2>1
  <2>2. CASE n > 0
    <3>1. n \in 1 .. n
      BY <1>2, <2>2
    <3>2. PICK o \in Invoiced : n = orders[o].invoice
      BY <1>9, <3>1
    <3> QED BY <1>8, <3>2 DEF Invoiced
  <2> QED BY <1>2, <2>1, <2>2
<1> QED BY <1>2, <1>6, <1>7, <1>10, <1>11 DEF n

\* _assign_invoice_number.
LEMMA DrawStep ==
  ASSUME IInv, NEW p \in Procs, DrawInvoice(p)
  PROVE  IInv'
<1>0. TypeOK /\ Claim(p) /\ InvoicesAreSequential /\ Apart
  BY DEF IInv
<1> DEFINE next == IF Job(p).kind = "checkout" THEN "save" ELSE "coupon"
           n == Cardinality(Invoiced)
           number == assign_invoice_number(orders)
<1>1. /\ proc[p].pc = "invoice" /\ UNCHANGED <<orders, facts, balance, credited, used, lock>>
      /\ proc' = [proc EXCEPT ![p].invoice = number, ![p].pc = next]
  BY DEF DrawInvoice
<1>2. Job(p) \in Jobs /\ Ord(p) \in Orders /\ Job(p).kind \in Kinds
  BY <1>1, CallForm
<1>3. n \in Nat /\ number = n + 1 /\ number \in Nat
  BY <1>0, <1>2, NextInvoice, InvoicedCount
<1>4. next \in {"save", "coupon"} /\ (next = "save" <=> Job(p).kind = "checkout")
  OBVIOUS
<1> HIDE DEF next, number
<1>5. /\ proc' \in [Procs -> ProcState] /\ proc'[p].pc = next /\ proc'[p].job = proc[p].job
      /\ proc'[p].invoice = number /\ \A q \in Procs \ {p} : proc'[q] = proc[q]
  BY <1>0, <1>1, <1>3, <1>4 DEF TypeOK, ProcState
<1>6. proc'[p].off = proc[p].off
  BY <1>0, <1>1, <1>3, <1>4 DEF TypeOK, ProcState
<1>7. Job(p)' = Job(p) /\ Ord(p)' = Ord(p)
  BY <1>5 DEF Job, Ord
<1>8. Fact(p)' = Fact(p)
  BY <1>1, <1>5, <1>6, <1>7 DEF Fact, EffectivePrice
<1>9. CallClaim(p)' /\ OrderClaim(p)'
  BY <1>0, <1>1, <1>4, <1>5, <1>6, <1>7 DEF Claim, CallClaim, OrderClaim, Working
<1>10. WalletClaim(p)'
  <2>1. Debited(p)' => Debited(p)
    BY <1>1, <1>4, <1>5, <1>7 DEF Debited
  <2> QED BY <1>0, <1>1, <1>8, <2>1 DEF Claim, WalletClaim
<1>11. CouponClaim(p)'
  <2>1. Counted(p)' <=> Counted(p)
    BY <1>1, <1>4, <1>5, <1>7 DEF Counted
  <2> QED BY <1>0, <1>1, <1>8, <2>1 DEF Claim, CouponClaim, UsedUp
<1>12. NumberClaim(p)'
  <2>1. Invoiced' = Invoiced
    BY <1>1 DEF Invoiced
  <2> QED BY <1>3, <1>4, <1>5, <2>1 DEF NumberClaim
<1>13. Claim(p)'
  BY <1>9, <1>10, <1>11, <1>12 DEF Claim
<1>14. /\ lock' \in [Rows -> Procs \cup {NoProc}] /\ proc'[p].pc # "commit"
       /\ \A q \in Procs \ {p} : proc[q].pc \in Working => Ord(q) # Ord(p)'
  BY <1>0, <1>1, <1>4, <1>5, <1>7 DEF TypeOK, Apart, Working
<1> QED BY <1>1, <1>5, <1>13, <1>14, QuietStep

\* The unique index: the number is free, so it is the next one, and nobody
\* else is about to commit it.
LEMMA SaveStep ==
  ASSUME IInv, NEW p \in Procs, SaveOrder(p)
  PROVE  IInv'
<1>0. TypeOK /\ (\A q \in Procs : Claim(q)) /\ InvoicesAreSequential /\ Apart
  BY DEF IInv
<1> DEFINE n == Cardinality(Invoiced)
<1>1. /\ proc[p].pc = "save" /\ UNCHANGED <<orders, facts, balance, credited, used>>
      /\ \A q \in Procs \ {p} : ~(proc[q].pc = "commit" /\ proc[q].invoice = proc[p].invoice)
      /\ \/ Abort(p, "IntegrityError")
         \/ /\ ~\E o \in Orders : orders[o].invoice = proc[p].invoice
            /\ Goto(p, "commit") /\ UNCHANGED lock
  BY DEF SaveOrder
<1>2. CASE Abort(p, "IntegrityError")
  BY <1>1, <1>2, QuietEnd DEF Abort
<1>3. CASE /\ ~\E o \in Orders : orders[o].invoice = proc[p].invoice
           /\ Goto(p, "commit") /\ UNCHANGED lock
  <2>1. /\ proc' \in [Procs -> ProcState] /\ proc'[p].pc = "commit"
        /\ proc'[p].off = proc[p].off /\ proc'[p].invoice = proc[p].invoice
        /\ Job(p)' = Job(p) /\ Ord(p)' = Ord(p) /\ Fact(p)' = Fact(p)
        /\ \A q \in Procs \ {p} : proc'[q] = proc[q]
    BY <1>0, <1>1, <1>3, GotoForm
  <2>2. n \in Nat /\ proc[p].invoice \in 1 .. n + 1
    BY <1>0, <1>1, InvoicedCount DEF Claim, NumberClaim, Numbered
  <2>3. proc[p].invoice \notin 1 .. n
    <3>1. {orders[o].invoice : o \in Invoiced} = 1 .. n
      BY <1>0 DEF InvoicesAreSequential
    <3> QED BY <1>3, <3>1 DEF Invoiced
  <2>4. proc[p].invoice = n + 1
    BY <2>2, <2>3
  <2>5. \A q \in Procs \ {p} : proc[q].pc # "commit"
    BY <1>0, <1>1, <2>4 DEF Claim, NumberClaim
  <2>6. CallClaim(p)' /\ OrderClaim(p)'
    BY <1>0, <1>1, <1>3, <2>1 DEF Claim, CallClaim, OrderClaim, Working
  <2>7. (Debited(p)' <=> Debited(p)) /\ (Counted(p)' <=> Counted(p))
    BY <1>1, <2>1 DEF Debited, Counted
  <2>8. WalletClaim(p)' /\ CouponClaim(p)'
    BY <1>0, <1>1, <1>3, <2>1, <2>7 DEF Claim, WalletClaim, CouponClaim, UsedUp
  <2>9. NumberClaim(p)'
    <3>1. Invoiced' = Invoiced
      BY <1>1 DEF Invoiced
    <3> QED BY <2>1, <2>2, <2>4, <3>1 DEF NumberClaim
  <2>10. Claim(p)'
    BY <2>6, <2>8, <2>9 DEF Claim
  <2>11. /\ lock' \in [Rows -> Procs \cup {NoProc}]
         /\ \A q \in Procs \ {p} : proc[q].pc \in Working => Ord(q) # Ord(p)'
    BY <1>0, <1>1, <1>3, <2>1 DEF TypeOK, Apart, Working
  <2> QED BY <1>1, <1>3, <2>1, <2>5, <2>10, <2>11, QuietStep
<1> QED BY <1>1, <1>2, <1>3

\* A transaction is rolled back.
LEMMA AbortSteps ==
  ASSUME IInv, NEW p \in Procs, RollBack(p) \/ DeadlockVictim(p)
  PROVE  IInv'
BY QuietEnd DEF RollBack, DeadlockVictim, Abort

-----------------------------------------------------------------------------
(* Steps that write an order *)

\* The sums and counts are over finite sets of integers.
LEMMA BillTypes ==
  ASSUME TypeOK, NEW w
  PROVE  /\ IsFiniteSet(Bill(w)) /\ Bill(w) \subseteq PaidOrders /\ PaidOrders \subseteq Orders
         /\ IsFiniteSet(Redemptions) /\ Redemptions \subseteq PaidOrders
         /\ \A o \in Orders : Amounts[o] = facts[o].amount /\ Amounts[o] \in Nat /\ Amounts[o] \in Int
         /\ SumOf(Amounts, Bill(w)) \in Int
<1>1. Bill(w) \subseteq PaidOrders /\ PaidOrders \subseteq Orders /\ Redemptions \subseteq PaidOrders
  BY DEF Bill, PaidOrders, Redemptions
<1>2. IsFiniteSet(Bill(w)) /\ IsFiniteSet(Redemptions)
  BY <1>1, CheckoutAssumption, FS_Subset
<1>3. \A o \in Orders : Amounts[o] = facts[o].amount /\ Amounts[o] \in Nat /\ Amounts[o] \in Int
  BY DEF TypeOK, FactRow, Amounts
<1>4. SumOf(Amounts, Bill(w)) \in Int
  BY <1>1, <1>2, <1>3, SumOfType
<1> QED BY <1>1, <1>2, <1>3, <1>4

\* An order that is created or closed without being paid is on no account.
LEMMA UnpaidWrite ==
  ASSUME IInv, NEW o \in Orders, orders[o].status # "paid", orders'[o].status # "paid",
         \A x \in Orders \ {o} : orders'[x] = orders[x] /\ facts'[x] = facts[x],
         orders'[o].invoice = orders[o].invoice, orders'[o].grants = orders[o].grants,
         orders'[o].subs = orders[o].subs, orders'[o].earnings = orders[o].earnings,
         TypeOK', UNCHANGED <<balance, credited, used>>
  PROVE  /\ ChargedExactlyOnce' /\ FulfilledExactlyOnce'
         /\ InvoicesAreSequential' /\ RedemptionsAreCounted' /\ Invoiced' = Invoiced
<1>0. TypeOK /\ ChargedExactlyOnce /\ FulfilledExactlyOnce
      /\ InvoicesAreSequential /\ RedemptionsAreCounted
  BY DEF IInv
<1>1. PaidOrders' = PaidOrders /\ o \notin PaidOrders /\ Invoiced' = Invoiced
  BY DEF PaidOrders, Invoiced
<1>2. Redemptions' = Redemptions /\ \A w : Bill(w)' = Bill(w)
  BY <1>1 DEF Redemptions, Bill, PaidOrders
<1>3. ChargedExactlyOnce'
  <2> SUFFICES ASSUME NEW w \in Wallets PROVE SumOf(Amounts', Bill(w)) = SumOf(Amounts, Bill(w))
    BY <1>0, <1>2 DEF ChargedExactlyOnce
  <2>1. /\ IsFiniteSet(Bill(w)) /\ Bill(w) \subseteq PaidOrders /\ PaidOrders \subseteq Orders
    BY <1>0, BillTypes
  <2>2. \A x \in Orders : Amounts[x] = facts[x].amount /\ Amounts'[x] = facts'[x].amount
    BY DEF Amounts
  <2>3. \A x \in Bill(w) : Amounts'[x] = Amounts[x]
    BY <1>1, <2>1, <2>2
  <2> QED BY <2>1, <2>3, SumOfSame
<1>4. FulfilledExactlyOnce'
  BY <1>0, <1>1 DEF FulfilledExactlyOnce
<1>5. InvoicesAreSequential'
  <2>1. {orders'[x].invoice : x \in Invoiced} = {orders[x].invoice : x \in Invoiced}
    BY DEF Invoiced
  <2> QED BY <1>0, <1>1, <2>1 DEF InvoicesAreSequential
<1>6. RedemptionsAreCounted'
  BY <1>0, <1>2 DEF RedemptionsAreCounted
<1> QED BY <1>1, <1>3, <1>4, <1>5, <1>6

\* A call that ends after it wrote an order nobody else works on.
LEMMA WriteEnd ==
  ASSUME IInv, NEW p \in Procs, NEW how, End(p, how), proc[p].pc \notin Working,
         NEW o \in Orders, orders[o].status \in {"absent", "pending"},
         \A q \in Procs \ {p} : proc[q].pc \in Working => Ord(q) # o,
         orders'[o].status # "absent", orders[o].status = "pending" => facts'[o] = facts[o],
         facts'[o].wallet \in Wallets, orders' \in [Orders -> OrderRow], facts' \in [Orders -> FactRow],
         \A x \in Orders \ {o} : orders'[x] = orders[x] /\ facts'[x] = facts[x],
         Invoiced' = Invoiced, UNCHANGED <<balance, credited, used, lock>>
  PROVE  TypeOK' /\ (\A q \in Procs : Claim(q)') /\ Apart' /\ FactsInv'
<1>0. TypeOK /\ (\A q \in Procs : Claim(q)) /\ Apart /\ FactsInv
  BY DEF IInv
<1>1. lock'[Coupon] # p
  <2>1. ~Counted(p)
    BY DEF Counted, Working
  <2> QED BY <1>0, <2>1 DEF Claim, CouponClaim
<1>2. /\ proc' \in [Procs -> ProcState] /\ proc'[p].pc = "idle" /\ Claim(p)'
      /\ \A q \in Procs \ {p} : proc'[q] = proc[q]
  BY <1>0, <1>1, EndForm
<1>3. TypeOK'
  BY <1>0, <1>2 DEF TypeOK
<1>4. Frame(p)
  <2>1. \A x \in Orders : orders[x].status # "absent" =>
          orders'[x].status # "absent" /\ facts'[x] = facts[x]
    OBVIOUS
  <2>2. ASSUME NEW q \in Procs \ {p}, proc[q].pc \in Working
        PROVE  orders'[Ord(q)].status = orders[Ord(q)].status
    <3>1. Ord(q) \in Orders /\ Ord(q) # o
      BY <2>2, CallForm DEF Working
    <3> QED BY <3>1
  <2>3. used \in Nat /\ Cardinality(Invoiced) \in Nat
    BY <1>0, InvoicedCount DEF TypeOK
  <2> QED BY <1>2, <2>1, <2>2, <2>3 DEF Frame
<1>5. \A q \in Procs : Claim(q)'
  BY <1>2, <1>4, OthersKeep, InvoicedCount
<1>6. Apart'
  BY <1>0, <1>2 DEF Apart, Ord, Job, Working
<1>7. FactsInv'
  BY <1>0 DEF FactsInv
<1> QED BY <1>3, <1>5, <1>6, <1>7

\* The order p is about to create is nobody else's.
LEMMA NotInserted ==
  ASSUME IInv, NEW p \in Procs, NEW o \in Orders, ~Inserted(o, p), orders[o].status = "absent",
         NEW q \in Procs \ {p}, proc[q].pc \in Working
  PROVE  Ord(q) # o
BY DEF IInv, Claim, OrderClaim, Inserted, Working

\* A PENDING order for a static QRIS payment or a TopUp.
LEMMA PendingStep ==
  ASSUME IInv, NEW p \in Procs, CreatePending(p)
  PROVE  IInv'
<1>0. TypeOK /\ Claim(p)
  BY DEF IInv
<1> DEFINE o == Ord(p)
<1>1. /\ proc[p].pc \in {"shortfall", "insert"} /\ ~Inserted(o, p)
      /\ UNCHANGED <<balance, credited, used, lock>>
  BY DEF CreatePending
<1>2. Job(p) \in Jobs /\ o \in Orders /\ Job(p).kind = "checkout"
  BY <1>0, <1>1, CallForm DEF Claim, CallClaim
<1>3. Fact(p) \in FactRow /\ Fact(p).wallet \in Wallets
  BY <1>0, <1>2, FactForm
<1>4. CASE End(p, "TransactionManagementError") /\ UNCHANGED <<orders, facts>>
  BY <1>1, <1>4, QuietEnd DEF Working
<1>5. CASE /\ orders[o].status = "absent"
           /\ orders' = [orders EXCEPT ![o].status = "pending"]
           /\ facts' = [facts EXCEPT ![o] = Fact(p)] /\ End(p, "pending")
  <2> HIDE DEF o
  <2>1. /\ orders' \in [Orders -> OrderRow] /\ orders'[o].status = "pending"
        /\ \A x \in Orders \ {o} : orders'[x] = orders[x]
        /\ orders'[o].invoice = orders[o].invoice /\ orders'[o].grants = orders[o].grants
        /\ orders'[o].subs = orders[o].subs /\ orders'[o].earnings = orders[o].earnings
    BY <1>0, <1>2, <1>5 DEF TypeOK, OrderRow
  <2>2. /\ facts' \in [Orders -> FactRow] /\ facts'[o] = Fact(p)
        /\ \A x \in Orders \ {o} : facts'[x] = facts[x]
    BY <1>0, <1>2, <1>3, <1>5 DEF TypeOK
  <2>3. Invoiced' = Invoiced
    BY <2>1 DEF Invoiced
  <2>4. \A q \in Procs \ {p} : proc[q].pc \in Working => Ord(q) # o
    BY <1>1, <1>2, <1>5, NotInserted
  <2>5. TypeOK' /\ (\A q \in Procs : Claim(q)') /\ Apart' /\ FactsInv'
    BY <1>1, <1>2, <1>3, <1>5, <2>1, <2>2, <2>3, <2>4, WriteEnd DEF Working
  <2>6. /\ ChargedExactlyOnce' /\ FulfilledExactlyOnce'
        /\ InvoicesAreSequential' /\ RedemptionsAreCounted'
    BY <1>1, <1>2, <1>5, <2>1, <2>2, <2>5, UnpaidWrite
  <2> QED BY <2>5, <2>6 DEF IInv
<1> QED BY <1>4, <1>5 DEF CreatePending

\* complete_pending_order, confirm_manual_payment and reject_manual_payment
\* take over a PENDING order that nobody works on, or leave it.
LEMMA LockStep ==
  ASSUME IInv, NEW p \in Procs, LockOrder(p)
  PROVE  IInv'
<1>0. TypeOK /\ (\A q \in Procs : Claim(q)) /\ FactsInv
  BY DEF IInv
<1> DEFINE o == Ord(p)
<1>1. /\ proc[p].pc = "lock_order" /\ lock[o] = NoProc
      /\ UNCHANGED <<facts, balance, credited, used>>
  BY DEF LockOrder
<1>2. Job(p) \in Jobs /\ o \in Orders /\ Job(p).kind # "checkout" /\ o \in Rows /\ o # Coupon
      /\ (proc[p].off => Job(p).kind = "checkout")
  BY <1>0, <1>1, CallForm, CheckoutAssumption DEF Claim, CallClaim, Rows
<1>3. CASE End(p, "skipped") /\ UNCHANGED <<orders, lock>>
  BY <1>1, <1>3, QuietEnd DEF Working
<1>4. ASSUME orders[o].status = "pending", NEW q \in Procs \ {p}, proc[q].pc \in Working
      PROVE  Ord(q) # o
  BY <1>0, <1>1, <1>4, CheckoutAssumption DEF Claim, OrderClaim
<1>5. ASSUME NEW point \in {"debit", "invoice"}, Goto(p, point), Acquire(p, o), UNCHANGED orders,
             orders[o].status = "pending", Job(p).kind \in {"complete", "confirm"},
             Job(p).kind = "confirm" => facts[o].channel = "qris_static",
             point = "invoice" => Job(p).kind = "confirm"
      PROVE  IInv'
  <2>1. /\ proc' \in [Procs -> ProcState] /\ proc'[p].pc = point
        /\ proc'[p].off = proc[p].off
        /\ Job(p)' = Job(p) /\ Ord(p)' = Ord(p) /\ Fact(p)' = Fact(p)
        /\ \A q \in Procs \ {p} : proc'[q] = proc[q]
    BY <1>0, <1>1, <1>5, GotoForm
  <2>2. /\ lock' \in [Rows -> Procs \cup {NoProc}] /\ lock'[o] = p
        /\ \A r \in Rows \ {o} : lock'[r] = lock[r]
        /\ \A q \in Procs \ {p} : \A r \in Rows : lock'[r] = q <=> lock[r] = q
    BY <1>0, <1>2, <1>5, AcquireForm
  <2>3. CallClaim(p)'
    BY <1>1, <1>2, <1>5, <2>1 DEF CallClaim, Working
  <2>4. OrderClaim(p)'
    <3>1. Job(p).kind = "complete" => facts[o].channel = "wallet"
      BY <1>0, <1>1 DEF Claim, OrderClaim
    <3> QED BY <1>1, <1>2, <1>5, <2>1, <2>2, <3>1 DEF OrderClaim
  <2>5. ~Debited(p)' /\ ~Counted(p)' /\ ~Numbered(p)' /\ proc'[p].pc # "commit"
    BY <1>5, <2>1 DEF Debited, Counted, Numbered
  <2>6. lock'[Coupon] # p
    <3>1. ~Counted(p)
      BY <1>1 DEF Counted
    <3> QED BY <1>0, <1>2, <2>2, <3>1 DEF Claim, CouponClaim, Rows
  <2>7. Claim(p)'
    BY <2>3, <2>4, <2>5, <2>6 DEF Claim, WalletClaim, CouponClaim, NumberClaim
  <2>8. \A q \in Procs \ {p} : proc[q].pc \in Working => Ord(q) # Ord(p)'
    BY <1>4, <1>5, <2>1
  <2> QED BY <1>1, <1>5, <2>1, <2>2, <2>5, <2>7, <2>8, QuietStep
<1>6. ASSUME orders[o].status = "pending", orders' = [orders EXCEPT ![o].status = "failed"],
             End(p, "rejected"), UNCHANGED lock
      PROVE  IInv'
  <2>0. \A q \in Procs \ {p} : proc[q].pc \in Working => Ord(q) # o
    BY <1>4, <1>6
  <2> HIDE DEF o
  <2>1. /\ orders' \in [Orders -> OrderRow] /\ orders'[o].status = "failed"
        /\ \A x \in Orders \ {o} : orders'[x] = orders[x]
        /\ orders'[o].invoice = orders[o].invoice /\ orders'[o].grants = orders[o].grants
        /\ orders'[o].subs = orders[o].subs /\ orders'[o].earnings = orders[o].earnings
    BY <1>0, <1>2, <1>6 DEF TypeOK, OrderRow
  <2>2. Invoiced' = Invoiced
    BY <2>1 DEF Invoiced
  <2>3. facts' \in [Orders -> FactRow] /\ facts'[o].wallet \in Wallets
    BY <1>0, <1>1, <1>2, <1>6 DEF TypeOK, FactsInv
  <2>4. TypeOK' /\ (\A q \in Procs : Claim(q)') /\ Apart' /\ FactsInv'
    BY <1>1, <1>2, <1>6, <2>0, <2>1, <2>2, <2>3, WriteEnd DEF Working
  <2>5. /\ ChargedExactlyOnce' /\ FulfilledExactlyOnce'
        /\ InvoicesAreSequential' /\ RedemptionsAreCounted'
    BY <1>1, <1>2, <1>6, <2>1, <2>4, UnpaidWrite
  <2> QED BY <2>4, <2>5 DEF IInv
<1> QED BY <1>3, <1>5, <1>6 DEF LockOrder, StillPending

-----------------------------------------------------------------------------
(* Steps that pay an order *)

\* o, and no other order, is PAID now and has what a PAID order has.
Pays(o) ==
  /\ orders[o].status # "paid" /\ orders'[o].status = "paid" /\ orders'[o].grants = 1
  /\ orders'[o].subs = IF facts'[o].plan = "recurring" /\ orders'[o].invoice > 0 THEN 1 ELSE 0
  /\ orders'[o].earnings = IF facts'[o].channel = "wallet" \/ orders'[o].invoice = 0 THEN 1 ELSE 0
  /\ \A x \in Orders \ {o} : orders'[x] = orders[x] /\ facts'[x] = facts[x]
  /\ orders' \in [Orders -> OrderRow] /\ facts' \in [Orders -> FactRow]

\* What it adds to its wallet's bill and to the redemptions.
LEMMA PaidWrite ==
  ASSUME IInv, NEW o \in Orders, Pays(o)
  PROVE  /\ o \notin PaidOrders /\ PaidOrders' = PaidOrders \cup {o}
         /\ Redemptions' = Redemptions \cup (IF facts'[o].discounted THEN {o} ELSE {})
         /\ FulfilledExactlyOnce'
         /\ \A w \in Wallets :
              SumOf(Amounts, Bill(w))' =
                SumOf(Amounts, Bill(w))
                  + (IF facts'[o].wallet = w /\ facts'[o].channel = "wallet" THEN facts'[o].amount ELSE 0)
<1>0. TypeOK /\ FulfilledExactlyOnce
  BY DEF IInv
<1> DEFINE f == facts'[o]
<1>6. /\ orders[o].status # "paid" /\ orders'[o].status = "paid" /\ orders'[o].grants = 1
      /\ orders'[o].subs = IF f.plan = "recurring" /\ orders'[o].invoice > 0 THEN 1 ELSE 0
      /\ orders'[o].earnings = IF f.channel = "wallet" \/ orders'[o].invoice = 0 THEN 1 ELSE 0
      /\ \A x \in Orders \ {o} : orders'[x] = orders[x]
  BY DEF Pays
<1>7. /\ facts' \in [Orders -> FactRow] /\ facts'[o] = f /\ f \in FactRow
      /\ \A x \in Orders \ {o} : facts'[x] = facts[x]
  BY DEF Pays
<1> HIDE DEF f
<1>8. o \notin PaidOrders /\ PaidOrders' = PaidOrders \cup {o}
  BY <1>6 DEF PaidOrders
<1>9. Redemptions' = Redemptions \cup (IF f.discounted THEN {o} ELSE {})
  BY <1>7, <1>8 DEF Redemptions, PaidOrders
<1>10. FulfilledExactlyOnce'
  <2> SUFFICES ASSUME NEW x \in Orders
               PROVE  /\ orders'[x].grants = IF x \in PaidOrders' THEN 1 ELSE 0
                      /\ orders'[x].subs = IF x \in PaidOrders' /\ facts'[x].plan = "recurring"
                                              /\ orders'[x].invoice > 0 THEN 1 ELSE 0
                      /\ orders'[x].earnings = IF x \in PaidOrders' /\
                           (facts'[x].channel = "wallet" \/ orders'[x].invoice = 0) THEN 1 ELSE 0
    BY DEF FulfilledExactlyOnce
  <2>1. CASE x = o
    BY <1>6, <1>7, <1>8, <2>1
  <2>2. CASE x # o
    BY <1>0, <1>6, <1>7, <1>8, <2>2 DEF FulfilledExactlyOnce
  <2> QED BY <2>1, <2>2
<1>11. ASSUME NEW w \in Wallets
       PROVE  SumOf(Amounts', Bill(w)') =
                SumOf(Amounts, Bill(w)) + (IF f.wallet = w /\ f.channel = "wallet" THEN f.amount ELSE 0)
  <2>1. /\ IsFiniteSet(Bill(w)) /\ Bill(w) \subseteq PaidOrders /\ PaidOrders \subseteq Orders
        /\ \A x \in Orders : Amounts[x] \in Int
        /\ SumOf(Amounts, Bill(w)) \in Int
    BY <1>0, BillTypes
  <2>2. Bill(w)' = Bill(w) \cup (IF f.wallet = w /\ f.channel = "wallet" THEN {o} ELSE {})
    BY <1>7, <1>8 DEF Bill, PaidOrders
  <2>3. /\ Amounts'[o] = f.amount /\ f.amount \in Int
        /\ \A x \in Orders \ {o} : Amounts'[x] = Amounts[x]
    BY <1>7 DEF Amounts, FactRow
  <2>4. SumOf(Amounts', Bill(w)) = SumOf(Amounts, Bill(w)) /\ o \notin Bill(w)
    BY <1>8, <2>1, <2>3, SumOfSame
  <2>5. CASE f.wallet = w /\ f.channel = "wallet"
    <3>1. \A y \in Bill(w) \cup {o} : Amounts'[y] \in Int
      BY <2>1, <2>3
    <3>2. SumOf(Amounts', Bill(w) \cup {o}) = SumOf(Amounts', Bill(w)) + Amounts'[o]
      BY <2>1, <2>4, <3>1, SumOfAdd
    <3> QED BY <2>2, <2>3, <2>4, <2>5, <3>2
  <2>6. CASE ~(f.wallet = w /\ f.channel = "wallet")
    <3>1. Bill(w)' = Bill(w)
      BY <2>2, <2>6
    <3> QED BY <2>1, <2>4, <2>6, <3>1
  <2> QED BY <2>5, <2>6
<1> QED BY <1>7, <1>8, <1>9, <1>10, <1>11

\* A free order: no invoice number, and nothing is debited or counted.
LEMMA FreeStep ==
  ASSUME IInv, NEW p \in Procs, CreateFree(p)
  PROVE  IInv'
<1>0. TypeOK /\ Claim(p) /\ ChargedExactlyOnce /\ InvoicesAreSequential /\ RedemptionsAreCounted
  BY DEF IInv
<1> DEFINE o == Ord(p)
           f == Fact(p)
<1>1. /\ proc[p].pc = "insert" /\ Job(p).base = 0 /\ ~Inserted(o, p)
      /\ UNCHANGED <<balance, credited, used, lock>>
  BY DEF CreateFree
<1>2. Job(p) \in Jobs /\ o \in Orders /\ Job(p).kind = "checkout" /\ ~proc[p].off
  BY <1>0, <1>1, CallForm DEF Claim, CallClaim
<1>3. f \in FactRow /\ f.wallet \in Wallets /\ f.amount = 0
  BY <1>0, <1>1, <1>2, FactForm
<1>4. ~f.discounted
  BY <1>0, <1>2, FactForm
<1>5. CASE End(p, "TransactionManagementError") /\ UNCHANGED <<orders, facts>>
  BY <1>1, <1>5, QuietEnd DEF Working
<1>6. CASE /\ orders[o].status = "absent"
           /\ orders' = [orders EXCEPT ![o] = Fulfil(@, 0, FALSE, TRUE)]
           /\ facts' = [facts EXCEPT ![o] = Fact(p)] /\ End(p, "paid")
  <2>0. \A q \in Procs \ {p} : proc[q].pc \in Working => Ord(q) # o
    BY <1>1, <1>2, <1>6, NotInserted
  <2> HIDE DEF o, f
  <2>9. /\ orders' \in [Orders -> OrderRow] /\ facts' \in [Orders -> FactRow]
        /\ orders'[o].status = "paid" /\ orders'[o].invoice = 0 /\ facts'[o] = f
        /\ \A x \in Orders \ {o} : orders'[x] = orders[x] /\ facts'[x] = facts[x]
        /\ Pays(o)
    <3> DEFINE row == Fulfil(orders[o], 0, FALSE, TRUE)
    <3>1. /\ row \in OrderRow /\ row.status = "paid" /\ row.invoice = 0
          /\ row.grants = 1 /\ row.subs = 0 /\ row.earnings = 1
      <4>1. orders[o].grants = 0 /\ orders[o].subs = 0
        BY <1>2, <1>6 DEF IInv, FulfilledExactlyOnce, PaidOrders
      <4>2. row = [status |-> "paid", invoice |-> 0, grants |-> 1, subs |-> 0, earnings |-> 1]
        BY <4>1 DEF Fulfil
      <4> HIDE DEF row
      <4> QED BY <4>2 DEF OrderRow
    <3>2. orders' = [orders EXCEPT ![o] = row] /\ facts' = [facts EXCEPT ![o] = f]
          /\ orders[o].status # "paid"
      BY <1>6 DEF f
    <3> HIDE DEF row
    <3>3. /\ orders' \in [Orders -> OrderRow] /\ facts' \in [Orders -> FactRow]
          /\ orders'[o] = row /\ facts'[o] = f
          /\ \A x \in Orders \ {o} : orders'[x] = orders[x] /\ facts'[x] = facts[x]
      BY <1>0, <1>2, <1>3, <3>1, <3>2 DEF TypeOK
    <3> QED BY <3>1, <3>2, <3>3 DEF Pays
  <2>1. /\ PaidOrders' = PaidOrders \cup {o}
        /\ Redemptions' = Redemptions \cup (IF f.discounted THEN {o} ELSE {})
        /\ FulfilledExactlyOnce'
        /\ \A w \in Wallets :
             SumOf(Amounts, Bill(w))' =
               SumOf(Amounts, Bill(w)) + (IF f.wallet = w /\ f.channel = "wallet" THEN f.amount ELSE 0)
    BY <1>2, <2>9, PaidWrite
  <2>2. Invoiced' = Invoiced
    <3>1. orders[o].invoice = 0
      BY <1>0, <1>2, <1>6 DEF InvoicesAreSequential, Invoiced, PaidOrders, TypeOK, OrderRow
    <3> QED BY <2>9, <3>1 DEF Invoiced
  <2>3. TypeOK' /\ (\A q \in Procs : Claim(q)') /\ Apart' /\ FactsInv'
    BY <1>1, <1>2, <1>3, <1>6, <2>0, <2>9, <2>2, WriteEnd DEF Working
  <2>4. ChargedExactlyOnce'
    <3>1. \A w \in Wallets : SumOf(Amounts, Bill(w))' = SumOf(Amounts, Bill(w))
      BY <1>0, <1>3, <2>1, BillTypes
    <3> QED BY <1>0, <1>1, <3>1 DEF ChargedExactlyOnce
  <2>5. InvoicesAreSequential'
    <3>1. {orders'[x].invoice : x \in Invoiced} = {orders[x].invoice : x \in Invoiced}
      <4>1. o \notin Invoiced
        BY <2>9, <2>2 DEF Invoiced
      <4> QED BY <2>9, <4>1, InvoicedCount
    <3> QED BY <1>0, <2>1, <2>2, <3>1 DEF InvoicesAreSequential
  <2>6. RedemptionsAreCounted'
    BY <1>0, <1>1, <1>4, <2>1 DEF RedemptionsAreCounted
  <2> QED BY <2>1, <2>3, <2>4, <2>5, <2>6 DEF IInv
<1> QED BY <1>5, <1>6 DEF CreateFree

\* The commit: what p claimed is what it needs now.
LEMMA CommitStep ==
  ASSUME IInv, NEW p \in Procs, Commit(p)
  PROVE  IInv'
<1>0. /\ TypeOK /\ (\A q \in Procs : Claim(q)) /\ Apart /\ FactsInv
      /\ ChargedExactlyOnce /\ InvoicesAreSequential /\ RedemptionsAreCounted
  BY DEF IInv
<1> DEFINE o == Ord(p)
           f == Fact(p)
           kind == Job(p).kind
           n == Cardinality(Invoiced)
           owed(w) == IF f.wallet = w /\ f.channel = "wallet" THEN f.amount ELSE 0
<1>1. /\ proc[p].pc = "commit" /\ End(p, "paid") /\ Release(p) /\ UNCHANGED credited
      /\ orders' = [orders EXCEPT ![o] =
           Fulfil(@, proc[p].invoice, f.plan = "recurring", kind # "confirm")]
      /\ facts' = [facts EXCEPT ![o] = f]
      /\ balance' = IF kind = "confirm" \/ f.amount = 0 THEN balance
                    ELSE [balance EXCEPT ![f.wallet] = @ - f.amount]
      /\ used' = IF lock[Coupon] = p THEN used + 1 ELSE used
  BY DEF Commit, Abort
<1>2. Job(p) \in Jobs /\ o \in Orders /\ kind \in {"checkout", "complete", "confirm"}
  BY <1>0, <1>1, CallForm DEF Claim, CallClaim, Kinds, Working
<1>3. /\ orders[o].status \in {"absent", "pending"}
      /\ kind # "checkout" => orders[o].status = "pending"
      /\ orders[o].status = "pending" => f = facts[o]
  <2>1. /\ kind = "checkout" => orders[o].status = "absent"
        /\ kind # "checkout" => orders[o].status = "pending"
    BY <1>0, <1>1 DEF Claim, OrderClaim, Working
  <2> QED BY <1>0, <1>2, <2>1, FactForm
<1>4. f \in FactRow /\ f.wallet \in Wallets /\ (f.channel = "wallet" <=> kind # "confirm")
  <2>1. f \in FactRow /\ f.wallet \in Wallets
    BY <1>0, <1>2, <1>3, FactForm DEF FactsInv
  <2>2. CASE kind = "checkout"
    <3>1. Job(p).method = "wallet"
      BY <1>0, <1>1, <2>2 DEF Claim, CallClaim, Working
    <3> QED BY <1>0, <1>2, <2>1, <2>2, <3>1, FactForm
  <2>3. CASE kind # "checkout"
    <3>1. /\ kind = "complete" => facts[o].channel = "wallet"
          /\ kind = "confirm" => facts[o].channel = "qris_static"
      BY <1>0, <1>1 DEF Claim, OrderClaim, Working
    <3> QED BY <1>2, <1>3, <2>1, <2>3, <3>1
  <2> QED BY <2>2, <2>3
<1>5. n \in Nat /\ proc[p].invoice = n + 1
  BY <1>0, <1>1, InvoicedCount DEF Claim, NumberClaim
<1>6. /\ kind # "confirm" /\ f.amount > 0 => lock[f.wallet] = p /\ balance[f.wallet] >= f.amount
      /\ lock[Coupon] = p => f.discounted /\ ~UsedUp
      /\ f.discounted => lock[Coupon] = p \/ UsedUp
  <2>1. Counted(p) /\ (kind # "confirm" => Debited(p))
    BY <1>1 DEF Counted, Debited
  <2> QED BY <1>0, <2>1 DEF Claim, WalletClaim, CouponClaim
<1>7. \A q \in Procs \ {p} : proc[q].pc # "commit" /\ (proc[q].pc \in Working => Ord(q) # o)
  BY <1>0, <1>1 DEF Apart, Working
<1> HIDE DEF o, f, kind, n
<1>8. /\ Pays(o) /\ orders'[o].invoice = n + 1 /\ facts'[o] = f /\ orders'[o].status = "paid"
      /\ \A x \in Orders \ {o} : orders'[x] = orders[x] /\ facts'[x] = facts[x]
      /\ orders' \in [Orders -> OrderRow] /\ facts' \in [Orders -> FactRow]
  <2> DEFINE sub == IF f.plan = "recurring" THEN 1 ELSE 0
             earning == IF kind # "confirm" THEN 1 ELSE 0
             row == Fulfil(orders[o], proc[p].invoice, f.plan = "recurring", kind # "confirm")
  <2>1. orders[o].grants = 0 /\ orders[o].subs = 0 /\ orders[o].earnings = 0
        /\ orders[o].status # "paid"
    BY <1>2, <1>3 DEF IInv, FulfilledExactlyOnce, PaidOrders
  <2>2. row = [status |-> "paid", invoice |-> n + 1, grants |-> 1, subs |-> sub, earnings |-> earning]
    BY <1>5, <2>1 DEF Fulfil
  <2>3. sub \in Nat /\ earning \in Nat /\ n + 1 \in Nat
    BY <1>5
  <2>4. row \in OrderRow
    <3> HIDE DEF sub, earning, row
    <3> QED BY <2>2, <2>3 DEF OrderRow
  <2>5. /\ row.status = "paid" /\ row.invoice = n + 1 /\ row.grants = 1
        /\ row.subs = sub /\ row.earnings = earning
    <3> HIDE DEF sub, earning, row
    <3> QED BY <2>2
  <2>6. orders' = [orders EXCEPT ![o] = row] /\ facts' = [facts EXCEPT ![o] = f]
    BY <1>1
  <2> HIDE DEF row
  <2>7. /\ orders' \in [Orders -> OrderRow] /\ facts' \in [Orders -> FactRow]
        /\ orders'[o] = row /\ facts'[o] = f
        /\ \A x \in Orders \ {o} : orders'[x] = orders[x] /\ facts'[x] = facts[x]
    BY <1>0, <1>2, <1>4, <2>4, <2>6 DEF TypeOK
  <2> QED BY <1>4, <1>5, <2>1, <2>5, <2>7 DEF Pays
<1>9. /\ o \notin PaidOrders /\ PaidOrders' = PaidOrders \cup {o}
      /\ Redemptions' = Redemptions \cup (IF f.discounted THEN {o} ELSE {})
      /\ FulfilledExactlyOnce'
      /\ \A w \in Wallets : SumOf(Amounts, Bill(w))' = SumOf(Amounts, Bill(w)) + owed(w)
  BY <1>2, <1>8, PaidWrite
<1>10. o \notin Invoiced /\ Invoiced' = Invoiced \cup {o} /\ Cardinality(Invoiced') = n + 1
  <2>1. o \notin Invoiced
    BY <1>0, <1>9 DEF InvoicesAreSequential
  <2>2. Invoiced' = Invoiced \cup {o}
    BY <1>2, <1>5, <1>8 DEF Invoiced
  <2> QED BY <2>1, <2>2, InvoicedCount, FS_AddElement DEF n
<1>11. /\ proc' \in [Procs -> ProcState] /\ proc'[p].pc = "idle" /\ Claim(p)'
       /\ \A q \in Procs \ {p} : proc'[q] = proc[q]
       /\ lock' \in [Rows -> Procs \cup {NoProc}]
       /\ \A q \in Procs \ {p} : \A r \in Rows : lock'[r] = q <=> lock[r] = q
  <2>1. /\ lock' \in [Rows -> Procs \cup {NoProc}] /\ lock'[Coupon] # p
        /\ \A q \in Procs \ {p} : \A r \in Rows : lock'[r] = q <=> lock[r] = q
    BY <1>0, <1>1, ReleaseForm DEF Rows
  <2> QED BY <1>0, <1>1, <2>1, EndForm
<1>12. /\ balance' \in [Wallets -> Int]
       /\ \A w \in Wallets : /\ owed(w) \in Nat /\ balance'[w] = balance[w] - owed(w) /\ balance'[w] >= 0
                             /\ lock[w] # p => balance'[w] = balance[w]
  <2>1. f.amount \in Nat /\ balance \in [Wallets -> Int] /\ \A w \in Wallets : balance[w] >= 0
    BY <1>0, <1>4 DEF TypeOK, ChargedExactlyOnce, FactRow
  <2>2. CASE kind = "confirm" \/ f.amount = 0
    BY <1>1, <1>4, <2>1, <2>2
  <2>3. CASE kind # "confirm" /\ f.amount # 0
    <3>1. balance' = [balance EXCEPT ![f.wallet] = @ - f.amount]
      BY <1>1, <2>3
    <3>2. f.amount > 0 /\ lock[f.wallet] = p /\ balance[f.wallet] >= f.amount
      BY <1>6, <2>1, <2>3
    <3> QED BY <1>4, <2>1, <2>3, <3>1, <3>2
  <2> QED BY <2>2, <2>3
<1>13. used' \in Nat /\ used' >= used /\ (lock[Coupon] # p => used' = used) /\ used \in Nat
  BY <1>0, <1>1 DEF TypeOK
<1>14. TypeOK'
  BY <1>0, <1>1, <1>8, <1>11, <1>12, <1>13 DEF TypeOK
<1>15. Frame(p)
  <2>1. ASSUME NEW q \in Procs \ {p}, proc[q].pc \in Working
        PROVE  orders'[Ord(q)].status = orders[Ord(q)].status
    <3>1. Ord(q) \in Orders /\ Ord(q) # o
      BY <1>7, <2>1, CallForm DEF Working
    <3> QED BY <1>8, <3>1
  <2>2. \A x \in Orders : orders[x].status # "absent" =>
          orders'[x].status # "absent" /\ facts'[x] = facts[x]
    BY <1>3, <1>8
  <2>3. \A q \in Procs \ {p} : /\ \A w \in Wallets : lock[w] = q => balance'[w] = balance[w]
                               /\ lock[Coupon] = q => used' = used
    BY <1>12, <1>13
  <2>4. Cardinality(Invoiced') \in Nat /\ Cardinality(Invoiced') >= Cardinality(Invoiced)
    BY <1>5, <1>10 DEF n
  <2> QED BY <1>7, <1>11, <1>13, <2>1, <2>2, <2>3, <2>4 DEF Frame
<1>16. \A q \in Procs : Claim(q)'
  BY <1>11, <1>15, OthersKeep, InvoicedCount
<1>17. Apart' /\ FactsInv'
  <2>1. Apart'
    BY <1>0, <1>11 DEF Apart, Ord, Job, Working
  <2>2. FactsInv'
    BY <1>0, <1>4, <1>8 DEF FactsInv
  <2> QED BY <2>1, <2>2
<1>18. ChargedExactlyOnce'
  <2> SUFFICES ASSUME NEW w \in Wallets
               PROVE  balance'[w] = StartBalance[w] + credited[w] * TopUpAmount
                                      - SumOf(Amounts, Bill(w))'
    BY <1>1, <1>12 DEF ChargedExactlyOnce
  <2> DEFINE brought == credited[w] * TopUpAmount
             bill == SumOf(Amounts, Bill(w))
             bill2 == SumOf(Amounts, Bill(w))'
  <2>1. balance[w] = StartBalance[w] + brought - bill
    BY <1>0 DEF ChargedExactlyOnce
  <2>2. /\ StartBalance[w] \in Int /\ brought \in Int /\ balance[w] \in Int
        /\ bill \in Int /\ bill2 = bill + owed(w)
    BY <1>0, <1>9, CheckoutAssumption, BillTypes DEF TypeOK
  <2>3. owed(w) \in Nat /\ balance'[w] = balance[w] - owed(w)
    BY <1>12
  <2> HIDE DEF brought, bill, bill2, owed
  <2>4. balance'[w] = StartBalance[w] + brought - bill2
    BY <2>1, <2>2, <2>3
  <2> QED BY <2>4 DEF brought, bill2
<1>19. InvoicesAreSequential'
  <2>1. {orders[x].invoice : x \in Invoiced} = 1 .. n /\ Invoiced \subseteq PaidOrders
    BY <1>0 DEF InvoicesAreSequential, n
  <2>2. \A x \in Invoiced : orders'[x].invoice = orders[x].invoice
    BY <1>8, <1>10, InvoicedCount
  <2>3. {orders'[x].invoice : x \in Invoiced \cup {o}} = 1 .. n + 1
    <3>1. {orders'[x].invoice : x \in Invoiced \cup {o}} =
            {orders[x].invoice : x \in Invoiced} \cup {n + 1}
      BY <1>8, <2>2
    <3>2. 1 .. n + 1 = (1 .. n) \cup {n + 1}
      BY <1>5
    <3> QED BY <2>1, <3>1, <3>2
  <2>4. Invoiced' \subseteq PaidOrders'
    BY <1>9, <1>10, <2>1
  <2> QED BY <1>10, <2>3, <2>4 DEF InvoicesAreSequential
<1>20. RedemptionsAreCounted'
  <2> DEFINE c == Cardinality(Redemptions)
             c2 == Cardinality(Redemptions')
  <2>1. IsFiniteSet(Redemptions) /\ Redemptions \subseteq PaidOrders /\ c \in Nat
    BY <1>0, BillTypes, FS_CardinalityType
  <2>2. used = IF UsageLimit > 0 /\ c > UsageLimit THEN UsageLimit ELSE c
    BY <1>0 DEF RedemptionsAreCounted
  <2>3. CASE f.discounted
    <3>1. Redemptions' = Redemptions \cup {o} /\ o \notin Redemptions
      BY <1>9, <2>1, <2>3
    <3>2. c2 = c + 1
      BY <2>1, <3>1, FS_AddElement
    <3> HIDE DEF c, c2
    <3>3. used' = IF UsageLimit > 0 /\ c2 > UsageLimit THEN UsageLimit ELSE c2
      BY <1>1, <1>6, <1>13, <2>1, <2>2, <2>3, <3>2, CheckoutAssumption DEF UsedUp
    <3> QED BY <3>3 DEF RedemptionsAreCounted, c2
  <2>4. CASE ~f.discounted
    <3>1. Redemptions' = Redemptions
      BY <1>9, <2>4
    <3> QED BY <1>6, <1>13, <2>2, <2>4, <3>1 DEF RedemptionsAreCounted
  <2> QED BY <2>3, <2>4
<1> QED BY <1>9, <1>14, <1>16, <1>17, <1>18, <1>19, <1>20 DEF IInv

\* A TopUp is credited to a wallet that nobody has locked.
LEMMA CreditStep ==
  ASSUME IInv, NEW w \in Wallets, CreditTopUp(w)
  PROVE  IInv'
<1>0. /\ TypeOK /\ (\A q \in Procs : Claim(q)) /\ Apart /\ FactsInv
      /\ ChargedExactlyOnce /\ FulfilledExactlyOnce
      /\ InvoicesAreSequential /\ RedemptionsAreCounted
  BY DEF IInv
<1>1. /\ lock[w] = NoProc /\ UNCHANGED <<orders, facts, used, lock, proc>>
      /\ balance' = [balance EXCEPT ![w] = @ + TopUpAmount]
      /\ credited' = [credited EXCEPT ![w] = @ + 1]
  BY DEF CreditTopUp
<1>2. /\ balance \in [Wallets -> Int] /\ credited \in [Wallets -> Nat] /\ TopUpAmount \in Nat
      /\ NoProc \notin Procs /\ StartBalance \in [Wallets -> Nat]
  BY <1>0, CheckoutAssumption DEF TypeOK
<1>3. /\ balance' \in [Wallets -> Int] /\ credited' \in [Wallets -> Nat]
      /\ balance'[w] = balance[w] + TopUpAmount /\ credited'[w] = credited[w] + 1
      /\ \A v \in Wallets \ {w} : balance'[v] = balance[v] /\ credited'[v] = credited[v]
  BY <1>1, <1>2
<1>4. Invoiced' = Invoiced /\ PaidOrders' = PaidOrders /\ Redemptions' = Redemptions
      /\ Amounts' = Amounts /\ \A v : Bill(v)' = Bill(v)
  BY <1>1 DEF Invoiced, PaidOrders, Redemptions, Amounts, Bill
<1>5. TypeOK'
  BY <1>0, <1>1, <1>3 DEF TypeOK
<1>6. Frame(NoProc)
  BY <1>0, <1>1, <1>2, <1>3, <1>4, InvoicedCount DEF Frame, TypeOK
<1>7. \A q \in Procs : Claim(q)'
  BY <1>2, <1>6, OthersKeep, InvoicedCount
<1>8. Apart' /\ FactsInv' /\ FulfilledExactlyOnce' /\ InvoicesAreSequential' /\ RedemptionsAreCounted'
  BY <1>0, <1>1, <1>4 DEF Apart, Ord, Job, FactsInv, FulfilledExactlyOnce, InvoicesAreSequential,
                          RedemptionsAreCounted
<1>9. ChargedExactlyOnce'
  <2> SUFFICES ASSUME NEW v \in Wallets
               PROVE  /\ balance'[v] = StartBalance[v] + credited'[v] * TopUpAmount
                                      - SumOf(Amounts, Bill(v))
                      /\ balance'[v] >= 0
    BY <1>4 DEF ChargedExactlyOnce
  <2> DEFINE bill == SumOf(Amounts, Bill(v))
  <2>1. /\ balance[v] = StartBalance[v] + credited[v] * TopUpAmount - bill
        /\ balance[v] >= 0 /\ bill \in Int
    BY <1>0, BillTypes DEF ChargedExactlyOnce
  <2> HIDE DEF bill
  <2>2. CASE v # w
    BY <1>3, <2>1, <2>2 DEF bill
  <2>3. CASE v = w
    <3> DEFINE brought == credited[v] * TopUpAmount
    <3>1. brought \in Int /\ credited'[v] * TopUpAmount = brought + TopUpAmount
      <4>1. \A a, b \in Nat : a * b \in Int /\ (a + 1) * b = a * b + b
        OBVIOUS
      <4>2. credited[v] \in Nat /\ credited'[v] = credited[v] + 1 /\ TopUpAmount \in Nat
        BY <1>2, <1>3, <2>3
      <4> QED BY <4>1, <4>2
    <3> HIDE DEF brought
    <3>2. balance[v] = StartBalance[v] + brought - bill
      BY <2>1 DEF brought
    <3>3. balance'[v] = StartBalance[v] + (brought + TopUpAmount) - bill /\ balance'[v] >= 0
      BY <1>2, <1>3, <2>1, <2>3, <3>1, <3>2
    <3> QED BY <3>1, <3>3 DEF bill
  <2> QED BY <2>2, <2>3
<1> QED BY <1>5, <1>7, <1>8, <1>9 DEF IInv

-----------------------------------------------------------------------------
(* The invariant *)

\* At the start nothing is ordered, and nobody has a claim.
LEMMA InitIInv == Init => IInv
<1> SUFFICES ASSUME Init PROVE IInv
  OBVIOUS
<1>1. NoOrder \in OrderRow /\ NoFacts \in FactRow /\ Idle \in ProcState /\ Idle.pc = "idle"
      /\ NoOrder.status = "absent" /\ NoOrder.invoice = 0 /\ NoOrder.grants = 0
      /\ NoOrder.subs = 0 /\ NoOrder.earnings = 0
  BY DEF NoOrder, OrderRow, NoFacts, FactRow, Idle, ProcState
<1>2. TypeOK
  BY <1>1, CheckoutAssumption DEF Init, TypeOK
<1>3. \A o \in Orders : /\ orders[o].status = "absent" /\ orders[o].invoice = 0 /\ orders[o].grants = 0
                        /\ orders[o].subs = 0 /\ orders[o].earnings = 0
  BY <1>1 DEF Init
<1>4. PaidOrders = {} /\ Invoiced = {} /\ Redemptions = {} /\ \A w : Bill(w) = {}
  BY <1>3 DEF PaidOrders, Invoiced, Redemptions, Bill
<1>5. ASSUME NEW p \in Procs PROVE Claim(p) /\ proc[p].pc = "idle"
  <2>1. proc[p].pc = "idle" /\ lock[Coupon] # p
    BY <1>1, CheckoutAssumption DEF Init, Rows
  <2>2. ~Debited(p) /\ ~Counted(p) /\ ~Numbered(p)
    BY <2>1 DEF Debited, Counted, Numbered
  <2>3. CallClaim(p) /\ OrderClaim(p)
    BY <2>1 DEF CallClaim, OrderClaim, Working
  <2> QED BY <2>1, <2>2, <2>3 DEF Claim, WalletClaim, CouponClaim, NumberClaim
<1>6. Apart /\ FactsInv
  BY <1>3, <1>5 DEF Apart, FactsInv, Working
<1>7. ChargedExactlyOnce
  <2> SUFFICES ASSUME NEW w \in Wallets
               PROVE  /\ balance[w] = StartBalance[w] + credited[w] * TopUpAmount - SumOf(Amounts, {})
                      /\ balance[w] >= 0
    BY <1>4 DEF ChargedExactlyOnce
  <2>1. balance[w] = StartBalance[w] /\ credited[w] = 0 /\ StartBalance[w] \in Nat
    BY CheckoutAssumption DEF Init
  <2>2. SumOf(Amounts, {}) = 0
    BY SumOfEmpty
  <2>3. credited[w] * TopUpAmount = 0
    BY <2>1, CheckoutAssumption
  <2> QED BY <2>1, <2>2, <2>3
<1>8. FulfilledExactlyOnce
  BY <1>3, <1>4 DEF FulfilledExactlyOnce
<1>9. InvoicesAreSequential /\ RedemptionsAreCounted
  BY <1>4, CheckoutAssumption, FS_EmptySet DEF Init, InvoicesAreSequential, RedemptionsAreCounted
<1> QED BY <1>2, <1>5, <1>6, <1>7, <1>8, <1>9 DEF IInv

\* The claims and the books together are an invariant of any number of
\* overlapping checkouts, completions, confirmations and rejections.
THEOREM Invariance == Spec => []IInv
<1>1. IInv /\ [Next]_vars => IInv'
  <2> SUFFICES ASSUME IInv, [Next]_vars PROVE IInv'
    OBVIOUS
  <2>1. CASE UNCHANGED vars
    <3>1. UNCHANGED <<orders, facts, balance, credited, used, lock, proc>>
      BY <2>1 DEF vars
    <3>2. /\ PaidOrders' = PaidOrders /\ Invoiced' = Invoiced /\ Redemptions' = Redemptions
          /\ Amounts' = Amounts /\ \A w : Bill(w)' = Bill(w)
      BY <3>1 DEF PaidOrders, Invoiced, Redemptions, Amounts, Bill
    <3>3. ASSUME NEW p \in Procs PROVE Claim(p)'
      <4>1. Claim(p)
        BY DEF IInv
      <4>2. /\ Job(p)' = Job(p) /\ Ord(p)' = Ord(p) /\ Fact(p)' = Fact(p)
            /\ Debited(p)' = Debited(p) /\ Counted(p)' = Counted(p) /\ Numbered(p)' = Numbered(p)
        BY <3>1 DEF Job, Ord, Fact, EffectivePrice, Debited, Counted, Numbered
      <4>3. CallClaim(p)' /\ OrderClaim(p)'
        BY <3>1, <4>1, <4>2 DEF Claim, CallClaim, OrderClaim
      <4>4. WalletClaim(p)' /\ CouponClaim(p)' /\ NumberClaim(p)'
        BY <3>1, <3>2, <4>1, <4>2 DEF Claim, WalletClaim, CouponClaim, NumberClaim, UsedUp
      <4> QED BY <4>3, <4>4 DEF Claim
    <3>4. TypeOK' /\ Apart' /\ FactsInv'
      BY <3>1 DEF IInv, TypeOK, Apart, Job, Ord, FactsInv
    <3>5. ChargedExactlyOnce' /\ FulfilledExactlyOnce' /\ InvoicesAreSequential' /\ RedemptionsAreCounted'
      BY <3>1, <3>2 DEF IInv, ChargedExactlyOnce, FulfilledExactlyOnce, InvoicesAreSequential,
                        RedemptionsAreCounted
    <3> QED BY <3>3, <3>4, <3>5 DEF IInv
  <2>2. CASE \E w \in Wallets : CreditTopUp(w)
    BY <2>2, CreditStep
  <2>3. ASSUME NEW p \in Procs, Step(p) \/ Refuse(p) \/ RollBack(p) \/ \E j \in Jobs : Start(p, j)
        PROVE  IInv'
    <3>1. CASE Lookup(p) \/ CheckBalance(p) \/ Refuse(p)
      BY <3>1, EarlySteps
    <3>2. CASE CreatePending(p) \/ CreateFree(p)
      BY <3>2, PendingStep, FreeStep
    <3>3. CASE InsertOrder(p) \/ LockOrder(p)
      BY <3>3, InsertStep, LockStep
    <3>4. CASE UseCoupon(p) \/ Debit(p)
      BY <3>4, CouponStep, DebitStep
    <3>5. CASE DrawInvoice(p) \/ SaveOrder(p) \/ Commit(p)
      BY <3>5, DrawStep, SaveStep, CommitStep
    <3>6. CASE RollBack(p) \/ DeadlockVictim(p)
      BY <3>6, AbortSteps
    <3>7. CASE \E j \in Jobs : Start(p, j)
      BY <3>7, StartStep
    <3> QED BY <2>3, <3>1, <3>2, <3>3, <3>4, <3>5, <3>6, <3>7 DEF Step
  <2> QED BY <2>1, <2>2, <2>3 DEF Next
<1> QED BY <1>1, InitIInv, PTL DEF Spec

\* Every reachable state is well typed.
THEOREM TypeCorrect == Spec => []TypeOK
<1>1. IInv => TypeOK
  BY DEF IInv
<1> QED BY <1>1, Invariance, PTL

\* However calls overlap, repeat a key, fail or deadlock, each wallet lost
\* exactly the amounts of its PAID wallet orders, and never more than it had.
THEOREM ChargedOnce == Spec => []ChargedExactlyOnce
<1>1. IInv => ChargedExactlyOnce
  BY DEF IInv
<1> QED BY <1>1, Invariance, PTL

\* A PAID order has its grants, subscription and earning once, any other
\* order has none.
THEOREM FulfilledOnce == Spec => []FulfilledExactlyOnce
<1>1. IInv => FulfilledExactlyOnce
  BY DEF IInv
<1> QED BY <1>1, Invariance, PTL

\* Invoice numbers have no gap and no repetition, although they are drawn
\* from an aggregate that locks nothing: the unique index lets only the next
\* number through, and one transaction at a time.
THEOREM InvoicesHaveNoGaps == Spec => []InvoicesAreSequential
<1>1. IInv => InvoicesAreSequential
  BY DEF IInv
<1> QED BY <1>1, Invariance, PTL

\* used_count is the number of discounted PAID orders, up to the limit.
THEOREM RedemptionsCounted == Spec => []RedemptionsAreCounted
<1>1. IInv => RedemptionsAreCounted
  BY DEF IInv
<1> QED BY <1>1, Invariance, PTL
=============================================================================
