-------------------------- MODULE SubscriptionProofs --------------------------
(***************************************************************************)
(* TLAPS proofs about Subscription, for any number of customers, workers,  *)
(* subscriptions, top-ups and edits and any plan.                          *)
(*                                                                         *)
(* A job acts on rows it read earlier.  FreshInv is what makes that        *)
(* harmless: a period end that a stale row still shows was charged, so     *)
(* that the re-check of the idempotency key under the lock finds it.       *)
(*                                                                         *)
(* The second half is about the reminders and notices these jobs and the   *)
(* events of billing give rise to (Notifications).  OnceInv says that a    *)
(* notification is in the hands of one sender, MailsInv counts the e-mails *)
(* that may still follow.                                                  *)
(***************************************************************************)
EXTENDS Subscription, Notifications, FiniteSetTheorems, TLAPS

\* The row a worker acts on exists, the edit it is at was counted, and rows
\* are left to handle in a job only.
PointInv ==
  \A p \in Procs :
    /\ proc[p].pc \notin {"idle", "credited", "next"} => proc[p].s \in Subs
    /\ proc[p].pc \in Edits => edits[proc[p].pc] > 0
    /\ proc[p].todo # {} => proc[p].kind \in JobKinds \cup {"topup"}

\* The period ends in read are the present ones or were charged.
Fresh(read) == \A s \in Subs : read[s].end = sub[s].end \/ <<s, read[s].end>> \in charges

\* While nobody extends, period ends grow past what was charged, and no
\* worker holds one that is neither current nor charged.
FreshInv ==
  edits["extend"] = 0 =>
    /\ \A k \in charges : k[2] < sub[k[1]].end
    /\ Fresh(Start)
    /\ \A p \in Procs : Fresh(proc[p].read)

\* EachChargeBuysOnePeriod for all rows, those of other customers included.
PeriodsInv ==
  edits["extend"] = 0 =>
    \A s \in Subs : sub[s].end = Period + Period * Cardinality(ChargesOf(s))

IInv == /\ TypeOK /\ PointInv /\ IsFiniteSet(charges)
        /\ ChargedOncePerPeriod /\ FreshInv /\ PeriodsInv /\ LicenseFollowsStatus

-----------------------------------------------------------------------------
(* Workers *)

\* p moves, and keeps the rows it read, reads them now or drops them.
Moved(p) ==
  /\ proc' \in [Procs -> ProcState]
  /\ \A q \in Procs \ {p} : proc'[q] = proc[q]
  /\ proc'[p].read \in {Start, sub, proc[p].read}
  /\ proc'[p].pc \notin {"idle", "credited", "next"} => proc'[p].s \in Subs
  /\ proc'[p].pc \in Edits => edits'[proc'[p].pc] > 0
  /\ proc'[p].todo # {} => proc'[p].kind \in JobKinds \cup {"topup"}

\* The rows a subscription starts with, and what an idle worker holds.
LEMMA StartTypes ==
  /\ Start \in [Subs -> RowType] /\ \A s \in Subs : Start[s].end = Period
  /\ Idle \in ProcState /\ Idle.pc = "idle" /\ Idle.read = Start /\ Idle.todo = {}
<1>1. StartRow \in RowType /\ StartRow.end = Period
  BY SubscriptionAssumption DEF StartRow, RowType, Status
<1>2. Start \in [Subs -> RowType] /\ \A s \in Subs : Start[s].end = Period
  BY <1>1 DEF Start
<1>3. Idle = [pc |-> "idle", kind |-> "none", s |-> NoSub, read |-> Start, todo |-> {}]
  BY DEF Idle, At
<1> HIDE DEF Start
<1>4. Idle \in ProcState /\ Idle.pc = "idle" /\ Idle.read = Start /\ Idle.todo = {}
  BY <1>2, <1>3 DEF ProcState
<1> QED BY <1>2, <1>4

\* The subscriptions a job selects exist.
LEMMA DueTypes ==
  ASSUME TypeOK
  PROVE  customer.subs \subseteq Subs /\ \A kind : Due(kind) \subseteq Subs
BY DEF TypeOK, Due, Subs

\* A worker sets out on a job or an edit, or becomes idle.
LEMMA AtMoves ==
  ASSUME TypeOK, NEW p \in Procs,
         NEW point \in {"idle", "credited", "next"} \cup Edits,
         NEW kind \in JobKinds \cup Edits \cup {"topup", "none"}, NEW s \in Subs \cup {NoSub},
         NEW read \in {Start, sub}, NEW todo \in SUBSET Subs,
         proc' = [proc EXCEPT ![p] = At(point, kind, s, read, todo)],
         point \in Edits => s \in Subs /\ edits'[point] > 0,
         todo # {} => kind \in JobKinds \cup {"topup"}
  PROVE  Moved(p)
<1>1. read \in [Subs -> RowType]
  BY StartTypes DEF TypeOK
<1>2. /\ At(point, kind, s, read, todo) \in ProcState
      /\ At(point, kind, s, read, todo).pc = point /\ At(point, kind, s, read, todo).s = s
      /\ At(point, kind, s, read, todo).read = read
      /\ At(point, kind, s, read, todo).todo = todo /\ At(point, kind, s, read, todo).kind = kind
  BY <1>1 DEF At, ProcState
<1>3. /\ proc' \in [Procs -> ProcState]
      /\ \A q \in Procs \ {p} : proc'[q] = proc[q]
      /\ proc'[p] = At(point, kind, s, read, todo)
  BY <1>2 DEF TypeOK
<1> QED BY <1>2, <1>3 DEF Moved

\* A worker becomes idle.
LEMMA IdleMoves ==
  ASSUME TypeOK, NEW p \in Procs, proc' = [proc EXCEPT ![p] = Idle]
  PROVE  Moved(p)
<1>1. Idle \in ProcState /\ Idle.pc = "idle" /\ Idle.read = Start /\ Idle.todo = {}
  BY StartTypes
<1>2. /\ proc' \in [Procs -> ProcState]
      /\ \A q \in Procs \ {p} : proc'[q] = proc[q]
      /\ proc'[p] = Idle
  BY <1>1 DEF TypeOK
<1> QED BY <1>1, <1>2 DEF Moved, Edits

\* A worker goes on with its row.
LEMMA GotoMoves ==
  ASSUME TypeOK, PointInv, NEW p \in Procs,
         NEW point \in {"next", "fast", "charge", "degrade", "grace", "cancel"}, Goto(p, point),
         point # "next" => proc[p].s \in Subs
  PROVE  Moved(p)
<1>1. /\ proc' \in [Procs -> ProcState]
      /\ \A q \in Procs \ {p} : proc'[q] = proc[q]
      /\ proc'[p].pc = point /\ proc'[p].s = proc[p].s /\ proc'[p].read = proc[p].read
      /\ proc'[p].todo = proc[p].todo /\ proc'[p].kind = proc[p].kind
  BY DEF TypeOK, ProcState, Goto
<1> QED BY <1>1 DEF Moved, Edits, PointInv

\* A worker is through with its row.
LEMMA DoneMoves ==
  ASSUME TypeOK, PointInv, NEW p \in Procs, Done(p)
  PROVE  Moved(p)
BY IdleMoves, GotoMoves DEF Done

\* PointInv over a move.
LEMMA PointKept ==
  ASSUME PointInv, NEW p \in Procs, Moved(p), edits \in [Edits -> Nat], edits' \in [Edits -> Nat],
         \A kind \in Edits : edits'[kind] >= edits[kind]
  PROVE  PointInv'
BY DEF PointInv, Moved

\* FreshInv and PeriodsInv over a move that charges nothing, with period ends
\* that change only after an extension.
LEMMA PeriodsKept ==
  ASSUME FreshInv, PeriodsInv, NEW p \in Procs, Moved(p), charges' = charges,
         edits'["extend"] = 0 => edits["extend"] = 0 /\ \A s \in Subs : sub'[s].end = sub[s].end,
         charges \subseteq Subs \X Nat
  PROVE  FreshInv' /\ PeriodsInv'
<1> SUFFICES ASSUME edits'["extend"] = 0
             PROVE  /\ \A k \in charges' : k[2] < sub'[k[1]].end
                    /\ Fresh(Start)' /\ \A q \in Procs : Fresh(proc[q].read)'
                    /\ \A s \in Subs : sub'[s].end = Period + Period * Cardinality(ChargesOf(s)')
  BY DEF FreshInv, PeriodsInv
<1>1. edits["extend"] = 0 /\ \A s \in Subs : sub'[s].end = sub[s].end
  OBVIOUS
<1>2. /\ \A k \in charges : k[1] \in Subs /\ k[2] < sub[k[1]].end
      /\ Fresh(Start) /\ Fresh(sub) /\ \A q \in Procs : Fresh(proc[q].read)
      /\ \A s \in Subs : sub[s].end = Period + Period * Cardinality(ChargesOf(s))
  BY <1>1 DEF FreshInv, PeriodsInv, Fresh
<1>3. \A q \in Procs : proc'[q].read \in {Start, sub, proc[q].read}
  BY DEF Moved
<1>4. ASSUME NEW read, Fresh(read) PROVE \A s \in Subs : read[s].end = sub'[s].end \/ <<s, read[s].end>> \in charges'
  BY <1>1, <1>4 DEF Fresh
<1>5. Fresh(Start)' /\ \A q \in Procs : Fresh(proc[q].read)'
  BY <1>2, <1>3, <1>4 DEF Fresh
<1>6. \A s \in Subs : ChargesOf(s)' = ChargesOf(s)
  BY DEF ChargesOf
<1> QED BY <1>1, <1>2, <1>5, <1>6

\* What concerns money and periods, over such a move.
LEMMA MoneyKept ==
  ASSUME IInv, NEW p \in Procs, Moved(p), charges' = charges, balance' = balance,
         topups' = topups, edits' \in [Edits -> Nat],
         \A kind \in Edits : edits'[kind] >= edits[kind],
         edits'["extend"] = 0 => \A s \in Subs : sub'[s].end = sub[s].end
  PROVE  PointInv' /\ IsFiniteSet(charges)' /\ ChargedOncePerPeriod' /\ FreshInv' /\ PeriodsInv'
<1>1. edits \in [Edits -> Nat] /\ charges \subseteq Subs \X Nat
  BY DEF IInv, TypeOK
<1>2. edits'["extend"] = 0 => edits["extend"] = 0
  BY <1>1 DEF Edits
<1>3. PointInv'
  BY <1>1, PointKept DEF IInv
<1>4. FreshInv' /\ PeriodsInv'
  BY <1>1, <1>2, PeriodsKept DEF IInv
<1> QED BY <1>3, <1>4 DEF IInv, ChargedOncePerPeriod

\* A move that leaves the database alone.
LEMMA MoveOnly ==
  ASSUME IInv, NEW p \in Procs, Moved(p), UNCHANGED <<customer, now, db, topups>>,
         toggles' \in Nat, crashes' \in Nat, edits' \in [Edits -> Nat],
         \A kind \in Edits : edits'[kind] >= edits[kind]
  PROVE  IInv'
<1>1. UNCHANGED <<customer, now, sub, license, grant, charges, balance, topups>>
  BY DEF db
<1>2. TypeOK'
  BY <1>1 DEF IInv, TypeOK, Moved
<1>3. PointInv' /\ IsFiniteSet(charges)' /\ ChargedOncePerPeriod' /\ FreshInv' /\ PeriodsInv'
  BY <1>1, MoneyKept
<1>4. LicenseFollowsStatus'
  <2>1. edits' = [kind \in Edits |-> 0] => edits = [kind \in Edits |-> 0]
    <3> SUFFICES ASSUME edits' = [kind \in Edits |-> 0] PROVE edits = [kind \in Edits |-> 0]
      OBVIOUS
    <3>1. edits \in [Edits -> Nat]
      BY DEF IInv, TypeOK
    <3>2. \A kind \in Edits : edits[kind] = 0
      BY <3>1
    <3> QED BY <3>1, <3>2
  <2> QED BY <1>1, <2>1 DEF IInv, LicenseFollowsStatus
<1> QED BY <1>2, <1>3, <1>4 DEF IInv

-----------------------------------------------------------------------------
(* Steps that read, take up or put down work *)

LEMMA InitIInv == Init => IInv
<1> SUFFICES ASSUME Init PROVE IInv
  OBVIOUS
<1>1. TypeOK
  BY StartTypes DEF Init, TypeOK
<1>2. PointInv
  BY StartTypes DEF Init, PointInv, Edits
<1>3. charges = {} /\ IsFiniteSet(charges) /\ Cardinality(charges) = 0
  BY FS_EmptySet DEF Init
<1>4. ChargedOncePerPeriod
  BY <1>3, SubscriptionAssumption DEF Init, ChargedOncePerPeriod
<1>5. \A s \in Subs : sub[s].end = Period /\ ChargesOf(s) = {}
  BY <1>3, StartTypes DEF Init, ChargesOf
<1>6. FreshInv
  BY <1>3, StartTypes DEF Init, FreshInv, Fresh
<1>7. PeriodsInv
  <2>1. Cardinality({}) = 0 /\ Period \in Nat /\ Period + Period * 0 = Period
    BY FS_EmptySet, SubscriptionAssumption
  <2> QED BY <1>5, <2>1 DEF PeriodsInv
<1>8. LicenseFollowsStatus
  BY DEF Init, LicenseFollowsStatus, Start, StartRow
<1> QED BY <1>1, <1>2, <1>3, <1>4, <1>6, <1>7, <1>8 DEF IInv

\* The queries, the start of an edit, an exception and a crash write nothing.
LEMMA IdleSteps ==
  ASSUME IInv, NEW p \in Procs,
         \/ \E kind \in JobKinds : Query(p, kind)
         \/ try_renew_grace_subscriptions(p) \/ Crash(p) \/ RowFails(p)
         \/ \E kind \in Edits, s \in customer.subs : OpenEdit(p, kind, s)
  PROVE  IInv'
<1>0. TypeOK
  BY DEF IInv
<1>1. ASSUME NEW kind \in JobKinds, Query(p, kind) PROVE IInv'
  <2>1. /\ proc' = [proc EXCEPT ![p] = At("next", kind, NoSub, sub, Due(kind))]
        /\ UNCHANGED <<customer, now, db, topups, toggles, edits, crashes>>
    BY <1>1 DEF Query, counters
  <2>2. Due(kind) \in SUBSET Subs
    BY <1>0, DueTypes
  <2>3. Moved(p)
    BY <1>0, <2>1, <2>2, AtMoves DEF Edits
  <2> QED BY <1>0, <2>1, <2>3, MoveOnly DEF TypeOK
<1>2. ASSUME try_renew_grace_subscriptions(p) PROVE IInv'
  <2>1. /\ \/ proc' = [proc EXCEPT ![p] = Idle]
           \/ proc' = [proc EXCEPT ![p] = At("next", "topup", NoSub, sub, Due("topup"))]
        /\ UNCHANGED <<customer, now, db, topups, toggles, edits, crashes>>
    BY <1>2 DEF try_renew_grace_subscriptions, counters
  <2>2. Due("topup") \in SUBSET Subs
    BY <1>0, DueTypes
  <2>3. CASE proc' = [proc EXCEPT ![p] = Idle]
    <3>1. Moved(p)
      BY <1>0, <2>3, IdleMoves
    <3> QED BY <1>0, <2>1, <3>1, MoveOnly DEF TypeOK
  <2>4. CASE proc' = [proc EXCEPT ![p] = At("next", "topup", NoSub, sub, Due("topup"))]
    <3>1. Moved(p)
      BY <1>0, <2>2, <2>4, AtMoves DEF Edits
    <3> QED BY <1>0, <2>1, <3>1, MoveOnly DEF TypeOK
  <2> QED BY <2>1, <2>3, <2>4
<1>3. ASSUME Crash(p) PROVE IInv'
  <2>1. /\ proc' = [proc EXCEPT ![p] = Idle] /\ crashes' = crashes + 1
        /\ UNCHANGED <<customer, now, db, topups, toggles, edits>>
    BY <1>3 DEF Crash
  <2>2. Moved(p)
    BY <1>0, <2>1, IdleMoves
  <2> QED BY <1>0, <2>1, <2>2, MoveOnly DEF TypeOK
<1>4. ASSUME NEW kind \in Edits, NEW s \in customer.subs, OpenEdit(p, kind, s) PROVE IInv'
  <2>1. /\ proc' = [proc EXCEPT ![p] = At(kind, kind, s, sub, {})]
        /\ edits' = [edits EXCEPT ![kind] = @ + 1]
        /\ UNCHANGED <<customer, now, db, topups, toggles, crashes>>
    BY <1>4 DEF OpenEdit
  <2>2. /\ edits' \in [Edits -> Nat] /\ edits'[kind] > 0
        /\ \A other \in Edits : edits'[other] >= edits[other]
    BY <1>0, <2>1 DEF TypeOK
  <2>3. s \in Subs
    BY <1>0, DueTypes
  <2>4. Moved(p)
    <3>1. /\ kind \in {"idle", "credited", "next"} \cup Edits
          /\ kind \in JobKinds \cup Edits \cup {"topup", "none"}
          /\ s \in Subs \cup {NoSub} /\ sub \in {Start, sub} /\ {} \in SUBSET Subs
      BY <2>3
    <3> QED BY <1>0, <2>1, <2>2, <2>3, <3>1, AtMoves
  <2> QED BY <1>0, <2>1, <2>2, <2>4, MoveOnly DEF TypeOK
<1>5. ASSUME RowFails(p) PROVE IInv'
  <2>1. /\ Done(p) /\ crashes' = crashes + 1
        /\ UNCHANGED <<customer, now, db, topups, toggles, edits>>
    BY <1>5 DEF RowFails
  <2>2. Moved(p)
    BY <1>0, <2>1, DoneMoves DEF IInv
  <2> QED BY <1>0, <2>1, <2>2, MoveOnly DEF TypeOK
<1> QED BY <1>1, <1>2, <1>3, <1>4, <1>5

\* Taking up a row, and the fast path.
LEMMA RowSteps ==
  ASSUME IInv, NEW p \in Procs,
         (\E s \in Subs : TakeRow(p, s)) \/ RenewFastPath(p)
  PROVE  IInv'
<1>0. TypeOK /\ PointInv
  BY DEF IInv
<1>1. ASSUME NEW s \in Subs, TakeRow(p, s) PROVE IInv'
  <2> DEFINE point == IF proc[p].kind \in {"renew", "topup"} THEN "fast" ELSE proc[p].kind
  <2>1. /\ s \in proc[p].todo
        /\ proc' = [proc EXCEPT ![p].s = s, ![p].todo = @ \ {s}, ![p].pc = point]
        /\ UNCHANGED <<customer, now, db, topups, toggles, edits, crashes>>
    BY <1>1 DEF TakeRow, counters
  <2>2. proc[p].kind \in JobKinds \cup {"topup"}
    BY <1>0, <2>1 DEF PointInv
  <2>3. point \in {"fast", "grace", "cancel"}
    BY <2>2 DEF JobKinds
  <2> HIDE DEF point
  <2>4. /\ proc' \in [Procs -> ProcState]
        /\ \A q \in Procs \ {p} : proc'[q] = proc[q]
        /\ proc'[p].pc = point /\ proc'[p].s = s /\ proc'[p].read = proc[p].read
        /\ proc'[p].kind = proc[p].kind
    BY <1>0, <2>1, <2>3 DEF TypeOK, ProcState
  <2>5. Moved(p)
    BY <2>2, <2>3, <2>4 DEF Moved, Edits
  <2> QED BY <1>0, <2>1, <2>5, MoveOnly DEF TypeOK
<1>2. ASSUME RenewFastPath(p) PROVE IInv'
  <2>1. /\ proc[p].pc = "fast" /\ (Done(p) \/ Goto(p, "charge"))
        /\ UNCHANGED <<customer, now, db, topups, toggles, edits, crashes>>
    BY <1>2 DEF RenewFastPath, counters
  <2>2. proc[p].s \in Subs
    BY <1>0, <2>1 DEF PointInv
  <2>3. Moved(p)
    BY <1>0, <2>1, <2>2, DoneMoves, GotoMoves
  <2> QED BY <1>0, <2>1, <2>3, MoveOnly DEF TypeOK
<1> QED BY <1>1, <1>2

-----------------------------------------------------------------------------
(* renew_subscription *)

\* Products of integers, for the solver.
LEMMA Products ==
  ASSUME NEW a \in Int, NEW b \in Int
  PROVE  a * b \in Int /\ a * (b + 1) = a * b + a /\ a * (b - 1) = a * b - a
OBVIOUS

\* The charge: the key is not among the charges, so the row that was read is
\* the present one, and the period that is bought follows the last.
LEMMA ChargeStep ==
  ASSUME IInv, NEW p \in Procs, RenewCharge(p)
  PROVE  IInv'
<1> DEFINE s == proc[p].s
           n == Cardinality(charges)
<1>0. TypeOK /\ PointInv /\ IsFiniteSet(charges) /\ ChargedOncePerPeriod /\ FreshInv
      /\ PeriodsInv /\ LicenseFollowsStatus
  BY DEF IInv
<1>1. /\ proc[p].pc = "charge"
      /\ UNCHANGED <<customer, now, topups, toggles, edits, crashes>>
  BY DEF RenewCharge, counters
<1>2. s \in Subs
  BY <1>0, <1>1 DEF PointInv
<1>3. ASSUME Done(p) \/ Goto(p, "degrade"), UNCHANGED db PROVE IInv'
  <2>1. Moved(p)
    BY <1>0, <1>2, <1>3, DoneMoves, GotoMoves
  <2> QED BY <1>0, <1>1, <1>3, <2>1, MoveOnly DEF TypeOK
<1>4. ASSUME ~AlreadyRenewed(p), balance >= Price,
             charges' = charges \cup {Key(p)}, balance' = balance - Price,
             sub' = [sub EXCEPT ![s].end = NextEnd(p), ![s].status = "active"],
             license' = [license EXCEPT ![s] = "active"], Done(p), UNCHANGED grant
      PROVE  IInv'
  <2> DEFINE old == Row(p).end
  <2>1. Moved(p)
    BY <1>0, <1>4, DoneMoves
  <2>2. /\ proc[p].read \in [Subs -> RowType] /\ old \in Nat
        /\ Key(p) = <<s, old>> /\ NextEnd(p) = old + Period /\ Row(p) = proc[p].read[s]
    BY <1>0, <1>2 DEF TypeOK, ProcState, RowType, Row, Key, NextEnd
  <2>3. Price \in Nat /\ Period \in Nat /\ Period > 0
    BY SubscriptionAssumption
  <2>4. /\ sub' \in [Subs -> RowType] /\ sub'[s].end = old + Period /\ sub'[s].status = "active"
        /\ \A x \in Subs \ {s} : sub'[x] = sub[x]
    <3>1. NextEnd(p) \in Nat
      BY <2>2, <2>3
    <3> QED BY <1>0, <1>2, <1>4, <2>2, <3>1 DEF TypeOK, RowType, Status
  <2>5. /\ license' \in [Subs -> {"active", "suspended"}] /\ license'[s] = "active"
        /\ \A x \in Subs \ {s} : license'[x] = license[x]
    BY <1>0, <1>2, <1>4 DEF TypeOK
  <2>6. <<s, old>> \notin charges /\ charges' = charges \cup {<<s, old>>}
    BY <1>4, <2>2 DEF AlreadyRenewed
  <2> HIDE DEF s, old
  <2>7. TypeOK'
    <3>1. charges' \subseteq Subs \X Nat
      BY <1>0, <1>2, <2>2, <2>6 DEF TypeOK
    <3>2. balance' \in Int
      BY <1>0, <1>4, <2>3 DEF TypeOK
    <3> QED BY <1>0, <1>1, <1>4, <2>1, <2>4, <2>5, <3>1, <3>2 DEF TypeOK, Moved
  <2>8. PointInv'
    BY <1>0, <1>1, <2>1, PointKept DEF TypeOK
  <2>9. IsFiniteSet(charges)' /\ Cardinality(charges') = n + 1 /\ n \in Nat
    BY <1>0, <2>6, FS_AddElement, FS_CardinalityType
  <2>10. ChargedOncePerPeriod'
    <3>1. topups - n \in Int /\ topups - (n + 1) = (topups - n) - 1
      BY <1>0, <2>9 DEF TypeOK
    <3> HIDE DEF n
    <3>2. Price * (topups - (n + 1)) = Price * (topups - n) - Price
      BY <2>3, <3>1, Products
    <3> QED BY <1>0, <1>1, <1>4, <2>3, <2>9, <3>2 DEF ChargedOncePerPeriod, TypeOK, n
  <2>11. LicenseFollowsStatus'
    BY <1>0, <1>1, <1>4, <2>4, <2>5 DEF LicenseFollowsStatus
  <2>12. ASSUME edits["extend"] = 0
         PROVE  /\ old = sub[s].end
                /\ \A k \in charges : k[2] < sub[k[1]].end
                /\ Fresh(Start) /\ Fresh(sub) /\ \A q \in Procs : Fresh(proc[q].read)
    <3>1. Fresh(proc[p].read) /\ \A k \in charges : k[2] < sub[k[1]].end
      BY <1>0, <2>12 DEF FreshInv
    <3>2. old = sub[s].end
      BY <1>2, <2>2, <2>6, <3>1 DEF Fresh, old
    <3> QED BY <1>0, <2>12, <3>1, <3>2 DEF FreshInv, Fresh
  <2>13. FreshInv'
    <3> SUFFICES ASSUME edits["extend"] = 0
                 PROVE  /\ \A k \in charges' : k[2] < sub'[k[1]].end
                        /\ Fresh(Start)' /\ \A q \in Procs : Fresh(proc[q].read)'
      BY <1>1 DEF FreshInv
    <3>1. ASSUME NEW k \in charges' PROVE k[2] < sub'[k[1]].end
      <4>1. CASE k = <<s, old>>
        BY <2>2, <2>3, <2>4, <4>1
      <4>2. CASE k \in charges
        <5>1. k[1] \in Subs /\ k[2] \in Nat /\ k[2] < sub[k[1]].end
          BY <1>0, <2>12, <4>2 DEF TypeOK
        <5>2. CASE k[1] = s
          BY <2>2, <2>3, <2>4, <2>12, <5>1, <5>2
        <5>3. CASE k[1] # s
          BY <2>4, <5>1, <5>3
        <5> QED BY <5>2, <5>3
      <4> QED BY <2>6, <4>1, <4>2
    <3>2. ASSUME NEW read, Fresh(read)
          PROVE  \A x \in Subs : read[x].end = sub'[x].end \/ <<x, read[x].end>> \in charges'
      BY <2>4, <2>6, <2>12, <3>2 DEF Fresh
    <3>3. \A q \in Procs : proc'[q].read \in {Start, sub, proc[q].read}
      BY <2>1 DEF Moved
    <3>4. Fresh(Start)' /\ \A q \in Procs : Fresh(proc[q].read)'
      BY <2>12, <3>2, <3>3 DEF Fresh
    <3> QED BY <3>1, <3>4
  <2>14. PeriodsInv'
    <3> SUFFICES ASSUME edits["extend"] = 0, NEW x \in Subs
                 PROVE  sub'[x].end = Period + Period * Cardinality(ChargesOf(x)')
      BY <1>1 DEF PeriodsInv
    <3>1. sub[x].end = Period + Period * Cardinality(ChargesOf(x))
      BY <1>0 DEF PeriodsInv
    <3>2. CASE x # s
      <4>1. ChargesOf(x)' = ChargesOf(x)
        BY <2>6, <3>2 DEF ChargesOf
      <4> QED BY <2>4, <3>1, <3>2, <4>1
    <3>3. CASE x = s
      <4>1. ChargesOf(x)' = ChargesOf(x) \cup {<<s, old>>} /\ <<s, old>> \notin ChargesOf(x)
        BY <2>6, <3>3 DEF ChargesOf
      <4>2. IsFiniteSet(ChargesOf(x))
        BY <1>0, FS_Subset DEF ChargesOf
      <4>3. Cardinality(ChargesOf(x)') = Cardinality(ChargesOf(x)) + 1
            /\ Cardinality(ChargesOf(x)) \in Nat
        BY <4>1, <4>2, FS_AddElement, FS_CardinalityType
      <4> DEFINE m == Cardinality(ChargesOf(x))
      <4>4. m \in Int /\ Cardinality(ChargesOf(x)') = m + 1 /\ sub[x].end = Period + Period * m
        BY <3>1, <4>3
      <4> HIDE DEF m
      <4>5. Period * (m + 1) = Period * m + Period /\ Period * m \in Int
        BY <2>3, <4>4, Products
      <4> QED BY <2>3, <2>4, <2>12, <3>3, <4>4, <4>5
    <3> QED BY <3>2, <3>3
  <2> QED BY <2>7, <2>8, <2>9, <2>10, <2>11, <2>13, <2>14 DEF IInv
<1> QED BY <1>3, <1>4 DEF RenewCharge

-----------------------------------------------------------------------------
(* Steps that change statuses, and the rest *)

\* A worker that writes statuses but no period ends, and is done with its row.
LEMMA StatusStep ==
  ASSUME IInv, NEW p \in Procs, Done(p),
         UNCHANGED <<customer, now, charges, balance, topups, toggles, edits, crashes>>,
         sub' \in [Subs -> RowType],
         edits["extend"] = 0 => \A s \in Subs : sub'[s].end = sub[s].end,
         license' \in [Subs -> {"active", "suspended"}],
         grant' \in [Subs -> {"active", "suspended"}],
         LicenseFollowsStatus'
  PROVE  IInv'
<1>0. TypeOK /\ PointInv
  BY DEF IInv
<1>1. Moved(p)
  BY <1>0, DoneMoves
<1>2. edits' \in [Edits -> Nat] /\ \A kind \in Edits : edits'[kind] >= edits[kind]
  BY <1>0 DEF TypeOK
<1>3. PointInv' /\ IsFiniteSet(charges)' /\ ChargedOncePerPeriod' /\ FreshInv' /\ PeriodsInv'
  BY <1>1, <1>2, MoneyKept
<1>4. TypeOK'
  BY <1>0, <1>1 DEF TypeOK, Moved
<1> QED BY <1>3, <1>4 DEF IInv

\* The job moves an unpaid ACTIVE row to GRACE.
LEMMA GraceStep ==
  ASSUME IInv, NEW p \in Procs, MoveToGrace(p)
  PROVE  IInv'
<1> DEFINE s == proc[p].s
<1>0. TypeOK /\ PointInv /\ LicenseFollowsStatus
  BY DEF IInv
<1>1. /\ proc[p].pc = "degrade" /\ Done(p)
      /\ sub' = [sub EXCEPT ![s].status = IF sub[s].status = "active" THEN "grace" ELSE sub[s].status]
      /\ UNCHANGED <<customer, now, license, grant, charges, balance,
                     topups, toggles, edits, crashes>>
  BY DEF MoveToGrace, counters
<1>2. s \in Subs
  BY <1>0, <1>1 DEF PointInv
<1>3. /\ sub' \in [Subs -> RowType] /\ \A x \in Subs : sub'[x].end = sub[x].end
      /\ \A x \in Subs : sub'[x].status \in {"active", "grace"} <=> sub[x].status \in {"active", "grace"}
  <2> DEFINE new == IF sub[s].status = "active" THEN "grace" ELSE sub[s].status
  <2>1. new \in Status /\ (new \in {"active", "grace"} <=> sub[s].status \in {"active", "grace"})
    BY <1>0, <1>2 DEF TypeOK, RowType, Status
  <2>2. sub' = [sub EXCEPT ![s].status = new]
    BY <1>1
  <2> HIDE DEF new
  <2> QED BY <1>0, <1>2, <2>1, <2>2 DEF TypeOK, RowType
<1>4. LicenseFollowsStatus'
  BY <1>0, <1>1, <1>3 DEF LicenseFollowsStatus
<1> QED BY <1>0, <1>1, <1>3, <1>4, StatusStep DEF TypeOK

\* suspend_subscription and cancel_subscription carry the grants along.
LEMMA LapseStep ==
  ASSUME IInv, NEW p \in Procs, suspend_subscription(p) \/ cancel_subscription(p)
  PROVE  IInv'
<1> DEFINE s == proc[p].s
<1>0. TypeOK /\ PointInv /\ LicenseFollowsStatus
  BY DEF IInv
<1>1. PICK point \in {"grace", "cancel"}, status \in {"suspended", "cancelled"} :
        Lapse(p, point, status)
  BY DEF suspend_subscription, cancel_subscription
<1>2. /\ proc[p].pc = point /\ Done(p)
      /\ UNCHANGED <<customer, now, charges, balance, topups, toggles, edits, crashes>>
      /\ \/ UNCHANGED <<sub, license, grant>>
         \/ /\ sub' = [sub EXCEPT ![s].status = status]
            /\ license' = [license EXCEPT ![s] = "suspended"]
            /\ grant' = [grant EXCEPT ![s] = "suspended"]
  BY <1>1 DEF Lapse, counters
<1>3. s \in Subs
  BY <1>0, <1>2 DEF PointInv
<1>4. CASE UNCHANGED <<sub, license, grant>>
  BY <1>0, <1>2, <1>4, StatusStep DEF TypeOK, LicenseFollowsStatus
<1>5. CASE /\ sub' = [sub EXCEPT ![s].status = status]
           /\ license' = [license EXCEPT ![s] = "suspended"]
           /\ grant' = [grant EXCEPT ![s] = "suspended"]
  <2>1. /\ sub' \in [Subs -> RowType] /\ \A x \in Subs : sub'[x].end = sub[x].end
        /\ sub'[s].status = status /\ \A x \in Subs \ {s} : sub'[x] = sub[x]
    BY <1>0, <1>3, <1>5 DEF TypeOK, RowType, Status
  <2>2. /\ license' \in [Subs -> {"active", "suspended"}]
        /\ grant' \in [Subs -> {"active", "suspended"}]
        /\ license'[s] = "suspended" /\ grant'[s] = "suspended"
        /\ \A x \in Subs \ {s} : license'[x] = license[x] /\ grant'[x] = grant[x]
    BY <1>0, <1>3, <1>5 DEF TypeOK
  <2>3. LicenseFollowsStatus'
    BY <1>0, <1>2, <1>3, <2>1, <2>2 DEF LicenseFollowsStatus
  <2> QED BY <1>2, <2>1, <2>2, <2>3, StatusStep
<1> QED BY <1>2, <1>4, <1>5

\* The views that write what they read were counted as edits.
LEMMA EditSteps ==
  ASSUME IInv, NEW p \in Procs,
         extend_subscription(p) \/ subscription_cancel(p) \/ subscription_toggle_suspend(p)
  PROVE  IInv'
<1> DEFINE s == proc[p].s
<1>0. TypeOK /\ PointInv
  BY DEF IInv
<1>1. /\ proc[p].pc \in Edits /\ Done(p)
      /\ UNCHANGED <<customer, now, charges, balance, topups, toggles, edits, crashes>>
  BY DEF extend_subscription, subscription_cancel, subscription_toggle_suspend, counters, Edits
<1>2. s \in Subs /\ edits[proc[p].pc] > 0 /\ edits # [kind \in Edits |-> 0]
  BY <1>0, <1>1 DEF PointInv, Edits
<1>3. LicenseFollowsStatus'
  BY <1>1, <1>2 DEF LicenseFollowsStatus
<1>4. Row(p) \in RowType
  BY <1>0, <1>2 DEF TypeOK, ProcState, Row
<1>5. CASE extend_subscription(p)
  <2> DEFINE resumed == Row(p).status = "suspended"
             end == Row(p).end + ExtendBy
             new == IF resumed THEN "active" ELSE Row(p).status
             lic == IF resumed THEN "active" ELSE license[s]
             gra == IF resumed THEN "active" ELSE grant[s]
  <2>1. /\ edits["extend"] # 0
        /\ sub' = [sub EXCEPT ![s].end = end, ![s].status = new]
        /\ license' = [license EXCEPT ![s] = lic] /\ grant' = [grant EXCEPT ![s] = gra]
    BY <1>0, <1>2, <1>5 DEF extend_subscription, TypeOK, Edits
  <2>2. /\ end \in Nat /\ new \in Status
        /\ lic \in {"active", "suspended"} /\ gra \in {"active", "suspended"}
    BY <1>0, <1>2, <1>4, SubscriptionAssumption DEF TypeOK, RowType, Status
  <2> HIDE DEF end, new, lic, gra
  <2>3. /\ sub' \in [Subs -> RowType]
        /\ license' \in [Subs -> {"active", "suspended"}]
        /\ grant' \in [Subs -> {"active", "suspended"}]
    BY <1>0, <1>2, <2>1, <2>2 DEF TypeOK, RowType
  <2> QED BY <1>1, <1>3, <2>1, <2>3, StatusStep
<1>6. CASE subscription_cancel(p)
  <2>1. /\ \/ sub' = sub
           \/ sub' = [sub EXCEPT ![s].status = "cancelled", ![s].auto_renew = FALSE]
        /\ UNCHANGED <<license, grant>>
    BY <1>6 DEF subscription_cancel
  <2>2. sub' \in [Subs -> RowType] /\ \A x \in Subs : sub'[x].end = sub[x].end
    <3>1. CASE sub' = sub
      BY <1>0, <3>1 DEF TypeOK
    <3>2. CASE sub' = [sub EXCEPT ![s].status = "cancelled", ![s].auto_renew = FALSE]
      BY <1>0, <1>2, <3>2 DEF TypeOK, RowType, Status
    <3> QED BY <2>1, <3>1, <3>2
  <2> QED BY <1>0, <1>1, <1>3, <2>1, <2>2, StatusStep DEF TypeOK
<1>7. CASE subscription_toggle_suspend(p)
  <2> DEFINE new == IF Row(p).status = "suspended" THEN "active"
                    ELSE IF Row(p).status = "cancelled" THEN sub[s].status ELSE "suspended"
  <2>1. sub' = [sub EXCEPT ![s].status = new] /\ UNCHANGED <<license, grant>>
    BY <1>7 DEF subscription_toggle_suspend
  <2>2. new \in Status
    BY <1>0, <1>2 DEF TypeOK, RowType, Status
  <2> HIDE DEF new
  <2>3. sub' \in [Subs -> RowType] /\ \A x \in Subs : sub'[x].end = sub[x].end
    BY <1>0, <1>2, <2>1, <2>2 DEF TypeOK, RowType
  <2> QED BY <1>0, <1>1, <1>3, <2>1, <2>3, StatusStep DEF TypeOK
<1> QED BY <1>5, <1>6, <1>7

\* A top-up is credited.
LEMMA CreditStep ==
  ASSUME IInv, NEW p \in Procs, CreditTopUp(p)
  PROVE  IInv'
<1>0. TypeOK /\ PointInv /\ IsFiniteSet(charges) /\ ChargedOncePerPeriod /\ FreshInv
      /\ PeriodsInv /\ LicenseFollowsStatus
  BY DEF IInv
<1>1. /\ balance' = balance + Price /\ topups' = topups + 1
      /\ proc' = [proc EXCEPT ![p] = At("credited", "topup", NoSub, Start, {})]
      /\ UNCHANGED <<customer, now, sub, license, grant, charges, toggles, edits, crashes>>
  BY DEF CreditTopUp
<1>2. Moved(p)
  <2>1. NoSub \in Subs \cup {NoSub} /\ Start \in {Start, sub} /\ {} \in SUBSET Subs
        /\ "credited" \notin Edits
    BY DEF Edits
  <2> QED BY <1>0, <1>1, <2>1, AtMoves
<1>3. PointInv'
  BY <1>0, <1>1, <1>2, PointKept DEF TypeOK
<1>4. FreshInv' /\ PeriodsInv'
  BY <1>0, <1>1, <1>2, PeriodsKept DEF TypeOK
<1>5. ChargedOncePerPeriod'
  <2> DEFINE n == Cardinality(charges)
  <2>1. Price \in Nat /\ n \in Nat /\ topups \in Nat /\ balance \in Int
    BY <1>0, FS_CardinalityType, SubscriptionAssumption DEF TypeOK
  <2>2. balance = Price * (topups - n) /\ balance >= 0
    BY <1>0 DEF ChargedOncePerPeriod
  <2> HIDE DEF n
  <2>3. topups - n \in Int /\ (topups + 1) - n = (topups - n) + 1
    BY <2>1
  <2>4. Price * ((topups + 1) - n) = Price * (topups - n) + Price
    BY <2>1, <2>3, Products
  <2> QED BY <1>1, <2>1, <2>2, <2>4 DEF ChargedOncePerPeriod, n
<1>6. TypeOK'
  BY <1>0, <1>1, <1>2, SubscriptionAssumption DEF TypeOK, Moved
<1> QED BY <1>0, <1>1, <1>3, <1>4, <1>5, <1>6 DEF IInv, LicenseFollowsStatus

\* The customer's or the seller's toggle, and the passing of a day.
LEMMA OtherSteps ==
  ASSUME IInv, Tick \/ \E s \in customer.subs : toggle_auto_renew(s)
  PROVE  IInv'
<1>0. TypeOK /\ PointInv /\ IsFiniteSet(charges) /\ ChargedOncePerPeriod /\ FreshInv
      /\ PeriodsInv /\ LicenseFollowsStatus
  BY DEF IInv
<1>1. /\ UNCHANGED <<customer, license, grant, charges, balance, proc, topups, edits, crashes>>
      /\ now' \in {now, now + 1} /\ toggles' \in {toggles, toggles + 1}
  BY DEF Tick, toggle_auto_renew, db, counters
<1>2. /\ sub' \in [Subs -> RowType]
      /\ \A x \in Subs : sub'[x].end = sub[x].end /\ sub'[x].status = sub[x].status
  <2>1. CASE Tick
    BY <1>0, <2>1 DEF Tick, db, TypeOK
  <2>2. ASSUME NEW s \in customer.subs, toggle_auto_renew(s)
        PROVE  /\ sub' \in [Subs -> RowType]
               /\ \A x \in Subs : sub'[x].end = sub[x].end /\ sub'[x].status = sub[x].status
    <3>1. s \in Subs
      BY <1>0, DueTypes
    <3>2. sub' = [sub EXCEPT ![s].auto_renew = ~sub[s].auto_renew]
      BY <2>2 DEF toggle_auto_renew
    <3> DEFINE new == ~sub[s].auto_renew
    <3>3. new \in BOOLEAN /\ sub' = [sub EXCEPT ![s].auto_renew = new]
      BY <3>2
    <3> HIDE DEF new
    <3> QED BY <1>0, <3>1, <3>3 DEF TypeOK, RowType
  <2> QED BY <2>1, <2>2
<1>3. TypeOK'
  BY <1>0, <1>1, <1>2 DEF TypeOK
<1>4. PointInv' /\ ChargedOncePerPeriod' /\ IsFiniteSet(charges)' /\ LicenseFollowsStatus'
  BY <1>0, <1>1, <1>2 DEF PointInv, ChargedOncePerPeriod, LicenseFollowsStatus
<1>5. FreshInv' /\ PeriodsInv'
  <2>1. \A s \in Subs : ChargesOf(s)' = ChargesOf(s)
    BY <1>1 DEF ChargesOf
  <2>2. \A k \in charges : k[1] \in Subs
    BY <1>0 DEF TypeOK
  <2> QED BY <1>0, <1>1, <1>2, <2>1, <2>2 DEF FreshInv, PeriodsInv, Fresh
<1> QED BY <1>3, <1>4, <1>5 DEF IInv

-----------------------------------------------------------------------------
\* IInv holds throughout, in any interleaving of jobs, edits and crashes.
THEOREM Invariance == Spec => []IInv
<1>1. Init => IInv
  BY InitIInv
<1>2. IInv /\ [Next]_vars => IInv'
  <2> SUFFICES ASSUME IInv, [Next]_vars PROVE IInv'
    OBVIOUS
  <2>1. CASE Next
    <3>1. ASSUME NEW p \in Procs, Run(p) PROVE IInv'
      BY <3>1, IdleSteps, RowSteps, ChargeStep, GraceStep, LapseStep, EditSteps DEF Run
    <3>2. ASSUME NEW p \in Procs, NEW kind \in JobKinds, Query(p, kind) PROVE IInv'
      BY <3>2, IdleSteps
    <3>3. ASSUME NEW p \in Procs, CreditTopUp(p) \/ Crash(p) \/ RowFails(p)
                   \/ \E kind \in Edits, s \in customer.subs : OpenEdit(p, kind, s)
          PROVE  IInv'
      BY <3>3, IdleSteps, CreditStep
    <3> QED BY <2>1, <3>1, <3>2, <3>3, OtherSteps DEF Next, Beat
  <2>2. CASE UNCHANGED vars
    <3>1. UNCHANGED <<customer, now, sub, license, grant, charges, balance, proc,
                      topups, toggles, edits, crashes>>
      BY <2>2 DEF vars, db, counters
    <3> QED BY <3>1 DEF IInv, TypeOK, PointInv, ChargedOncePerPeriod, FreshInv, PeriodsInv,
            LicenseFollowsStatus, Fresh, ChargesOf
  <2> QED BY <2>1, <2>2
<1> QED BY <1>1, <1>2, PTL DEF Spec

\* TypeOK is an invariant.
THEOREM TypeCorrect == Spec => []TypeOK
<1>1. IInv => TypeOK
  BY DEF IInv
<1> QED BY <1>1, Invariance, PTL

\* A period end is charged once and never on credit, however many jobs, retried
\* tasks and top-ups compete to renew it.
THEOREM ChargedOnce == Spec => []ChargedOncePerPeriod
<1>1. IInv => ChargedOncePerPeriod
  BY DEF IInv
<1> QED BY <1>1, Invariance, PTL

\* While nobody extends by hand, the periods of a subscription are the first
\* and those that were charged.
THEOREM ChargesBuyPeriods == Spec => []EachChargeBuysOnePeriod
<1>1. IInv => EachChargeBuysOnePeriod
  BY DueTypes DEF IInv, PeriodsInv, EachChargeBuysOnePeriod
<1> QED BY <1>1, Invariance, PTL

\* The license works exactly while the subscription is ACTIVE or in GRACE, as
\* long as only the jobs and top-ups act on it.
THEOREM LicenseFollows == Spec => []LicenseFollowsStatus
<1>1. IInv => LicenseFollowsStatus
  BY DEF IInv
<1> QED BY <1>1, Invariance, PTL

\* A renewal that selected a row before it was cancelled neither charges for it
\* nor brings it back; only staff's extension and the seller's resume can.
THEOREM CancelledIsKept == Spec => CancelledIsNotRenewed
<1>1. IInv /\ [Next]_vars => [KeepsCancelled]_vars
  <2> SUFFICES ASSUME IInv, Next, NEW s \in Subs, sub[s].status = "cancelled"
               PROVE  /\ ChargesOf(s)' = ChargesOf(s)
                      /\ \/ sub'[s].status \notin {"active", "grace"}
                         \/ edits["extend"] > 0 \/ edits["seller_toggle_suspend"] > 0
    BY DEF KeepsCancelled
  <2>0. TypeOK /\ PointInv
    BY DEF IInv
  <2>1. CASE UNCHANGED <<sub, charges>>
    BY <2>1 DEF ChargesOf
  <2>2. ASSUME NEW p \in Procs, RenewCharge(p), ~UNCHANGED <<sub, charges>>
        PROVE  ChargesOf(s)' = ChargesOf(s) /\ sub'[s].status = "cancelled"
    <3>1. /\ proc[p].pc = "charge" /\ ~Cancelled(proc[p].s)
          /\ charges' = charges \cup {<<proc[p].s, Row(p).end>>}
          /\ sub' = [sub EXCEPT ![proc[p].s].end = NextEnd(p), ![proc[p].s].status = "active"]
      BY <2>2 DEF RenewCharge, Key, db
    <3>2. proc[p].s # s
      BY <3>1 DEF Cancelled
    <3>3. sub'[s] = sub[s]
      BY <2>0, <3>1, <3>2 DEF TypeOK
    <3> QED BY <3>1, <3>2, <3>3 DEF ChargesOf
  <2>3. ASSUME NEW p \in Procs, MoveToGrace(p)
        PROVE  charges' = charges /\ sub'[s].status = "cancelled"
    <3> DEFINE x == proc[p].s
               new == IF sub[x].status = "active" THEN "grace" ELSE sub[x].status
    <3>1. charges' = charges /\ sub' = [sub EXCEPT ![x].status = new]
      BY <2>3 DEF MoveToGrace
    <3>2. x = s => new = "cancelled"
      OBVIOUS
    <3> HIDE DEF x, new
    <3> QED BY <2>0, <3>1, <3>2 DEF TypeOK, RowType
  <2>4. ASSUME NEW p \in Procs, suspend_subscription(p) \/ cancel_subscription(p)
        PROVE  charges' = charges /\ sub'[s].status \in {"cancelled", "suspended"}
    <3>1. /\ charges' = charges
          /\ \/ sub' = sub
             \/ \E status \in {"cancelled", "suspended"} :
                  sub' = [sub EXCEPT ![proc[p].s].status = status]
      BY <2>4 DEF suspend_subscription, cancel_subscription, Lapse
    <3>2. ASSUME NEW status \in {"cancelled", "suspended"},
                 sub' = [sub EXCEPT ![proc[p].s].status = status]
          PROVE  sub'[s].status \in {"cancelled", "suspended"}
      BY <2>0, <3>2 DEF TypeOK, RowType
    <3> QED BY <3>1, <3>2
  <2>5. ASSUME NEW p \in Procs, extend_subscription(p) \/ subscription_toggle_suspend(p)
        PROVE  charges' = charges /\ (edits["extend"] > 0 \/ edits["seller_toggle_suspend"] > 0)
    BY <2>0, <2>5 DEF extend_subscription, subscription_toggle_suspend, PointInv, Edits
  <2>6. ASSUME NEW p \in Procs, subscription_cancel(p)
        PROVE  charges' = charges /\ sub'[s].status = "cancelled"
    <3>1. /\ charges' = charges
          /\ \/ sub' = sub
             \/ sub' = [sub EXCEPT ![proc[p].s].status = "cancelled", ![proc[p].s].auto_renew = FALSE]
      BY <2>6 DEF subscription_cancel
    <3>2. CASE sub' = [sub EXCEPT ![proc[p].s].status = "cancelled", ![proc[p].s].auto_renew = FALSE]
      BY <2>0, <3>1, <3>2 DEF TypeOK, RowType
    <3> QED BY <3>1, <3>2
  <2>7. ASSUME NEW x \in customer.subs, toggle_auto_renew(x)
        PROVE  charges' = charges /\ sub'[s].status = "cancelled"
    <3> DEFINE new == ~sub[x].auto_renew
    <3>1. charges' = charges /\ sub' = [sub EXCEPT ![x].auto_renew = new]
      BY <2>7 DEF toggle_auto_renew
    <3> HIDE DEF new
    <3> QED BY <2>0, <3>1 DEF TypeOK, RowType
  <2>8. ASSUME NEW p \in Procs,
               \/ \E kind \in JobKinds : Query(p, kind)
               \/ \E x \in Subs : TakeRow(p, x)
               \/ try_renew_grace_subscriptions(p) \/ RenewFastPath(p) \/ CreditTopUp(p)
               \/ Crash(p) \/ RowFails(p)
               \/ \E kind \in Edits, x \in customer.subs : OpenEdit(p, kind, x)
        PROVE  UNCHANGED <<sub, charges>>
    BY <2>8 DEF Query, TakeRow, try_renew_grace_subscriptions, RenewFastPath, CreditTopUp, Crash,
                RowFails, OpenEdit, db
  <2>9. Tick => UNCHANGED <<sub, charges>>
    BY DEF Tick, db
  <2>10. charges' = charges => ChargesOf(s)' = ChargesOf(s)
    BY DEF ChargesOf
  <2>11. ASSUME NEW p \in Procs, Run(p)
         PROVE  /\ ChargesOf(s)' = ChargesOf(s)
                /\ \/ sub'[s].status \notin {"active", "grace"}
                   \/ edits["extend"] > 0 \/ edits["seller_toggle_suspend"] > 0
    BY <2>1, <2>2, <2>3, <2>4, <2>5, <2>6, <2>8, <2>10, <2>11 DEF Run
  <2> QED BY <2>1, <2>7, <2>8, <2>9, <2>10, <2>11 DEF Next, Beat
<1> QED BY <1>1, Invariance, PTL DEF Spec, CancelledIsNotRenewed

-----------------------------------------------------------------------------
(* The notifications about subscriptions and orders (module Notifications).  *)

SenderRow == [pc : {"idle", "log", "notify", "recorded"}, note : Notes \cup {NoNote},
              pref : {"whatsapp", "email"}]
Statuses == {"none", "queued", "sent", "delivered", "read", "failed", "fallback_sent"}
DeliveryRow == [channel : {"none", "whatsapp", "email"}, msg : Nat, status : Statuses]
TaskRow == [pc : {"none", "queued", "sending", "sent", "acking", "done", "dropped"},
            retries : 0 .. MaxRetries, msg : Nat]
HandlerRow == [pc : {"idle", "decide", "fallback", "mailed"}, event : reported \cup {NoEvent},
               seen : Statuses]

\* The type invariant in three parts: who sends, what was sent, what came back.
SourceType ==
  /\ time \in DOMAIN Timeline /\ lost \in 0 .. MaxCrashes
  /\ pref \in {"whatsapp", "email"} /\ suppressed \in BOOLEAN
  /\ emitted \subseteq Occasions \cup Copies /\ log \subseteq Reminders
  /\ sender \in [Senders -> SenderRow]
DeliveryType ==
  /\ rows \in [Notes -> Nat] /\ fails \in [Notes -> Nat]
  /\ mails \in [Notes -> Nat]
  /\ row \in [Notes -> DeliveryRow]
  /\ task \in [Notes -> TaskRow]
ReportType ==
  /\ sent \in [Notes -> Nat]
  /\ events \subseteq reported
  /\ reported \subseteq [note : Notes, msg : Nat, status : Reports]
  /\ \A e \in reported : e.msg \in 1 .. sent[e.note]
  /\ handler \in [Handlers -> HandlerRow]
  /\ \A h \in Handlers : handler[h].pc # "idle" => handler[h].event \in reported

\* Senders between the decision that n goes out and its dispatch.
Sending(n) == {s \in Senders : sender[s].pc \in {"notify", "recorded"} /\ sender[s].note = n}

\* A notification is on its way in one sender at most, and not before its key is
\* in the log or its event was emitted; until it is recorded there is no row,
\* until it is dispatched nothing was sent.
Once(n) ==
  /\ rows[n] \in {0, 1} /\ (rows[n] = 0 <=> row[n].channel = "none")
  /\ \A s, t \in Sending(n) : s = t
  /\ n \notin log \cup emitted => rows[n] = 0 /\ Sending(n) = {}
  /\ \A s \in Sending(n) : /\ sender[s].pc = "notify" => rows[n] = 0
                           /\ sender[s].pc = "recorded" => rows[n] = 1
  /\ rows[n] = 0 \/ Sending(n) # {} =>
       mails[n] = 0 /\ sent[n] = 0 /\ task[n].pc = "none" /\ row[n].msg = 0
OnceInv ==
  /\ \A s \in Senders : /\ sender[s].pc # "idle" => sender[s].note \in Notes
                        /\ sender[s].pc = "log" => sender[s].note \in Reminders
  /\ \A n \in Notes : Once(n)

Failed(S, n) == {e \in S : e.note = n /\ e.status = "failed"}

\* Web workers that handle a failure of n and have not mailed yet.
InHand(n) == {h \in Handlers : /\ handler[h].pc \in {"decide", "fallback"}
                               /\ handler[h].event.note = n /\ handler[h].event.status = "failed"}

\* Each e-mail of a WhatsApp notification answers a failure of its own: those
\* still on the way or in hand have not been answered.
Answered(n) ==
  row[n].channel # "email" =>
    mails[n] + Cardinality(InHand(n)) + Cardinality(Failed(events, n)) <= Cardinality(Failed(reported, n))

\* The failure of the message in the row may still be handled; the task may still
\* put another message there.
Open(n) == LET e == Callback(n, row[n].msg, "failed")
           IN  row[n].msg # 0 /\ (e \notin reported \/ e \in events)
Trying(n) == task[n].pc \in {"queued", "sending", "sent"}
One(b) == IF b THEN 1 ELSE 0

\* What was mailed and what may still be mailed without another process lost.
MailsLeft(n) ==
  mails[n] + Cardinality(InHand(n)) + One(Open(n)) + One(Trying(n)) <= 1 + lost

MailsInv ==
  /\ IsFiniteSet(reported)
  /\ \A h \in Handlers : handler[h].pc = "fallback" => handler[h].event.status = "failed"
  /\ \A n \in Notes : Answered(n) /\ MailsLeft(n)


-----------------------------------------------------------------------------
(* Types *)

LEMMA TypeParts == NoticeTypeOK <=> SourceType /\ DeliveryType /\ ReportType
BY DEF NoticeTypeOK, SourceType, DeliveryType, ReportType, SenderRow, Statuses, DeliveryRow, TaskRow, HandlerRow

LEMMA TypePartsNext == SourceType' /\ DeliveryType' /\ ReportType' => NoticeTypeOK'
BY TypeParts, PTL

\* The actions of one sender, and of one web worker.
Sends(s) == \/ \E r \in Reminders : Select(s, r)
            \/ \E n \in Occasions \cup Copies : HandleEvent(s, n)
            \/ TryLog(s) \/ Record(s) \/ Dispatch(s) \/ LoseSender(s)
Handles(h) == \/ \E e \in events : Receive(h, e)
              \/ SaveStatus(h) \/ Fallback(h) \/ SaveFallback(h) \/ LoseHandler(h)
Delivers(n) == \/ Take(n) \/ SendOk(n) \/ SendRaises(n) \/ Finish(n) \/ Ack(n)
               \/ LoseNode(n) \/ KillProcess(n)
Chooses == Stop \/ Restart \/ (\E c \in {"whatsapp", "email"} : Prefer(c)) \/ TimePasses

LEMMA NotificationSteps ==
  NoticeNext <=> \/ \E s \in Senders : Sends(s)
                 \/ \E n \in Notes : Delivers(n)
                 \/ \E n \in Notes : \E k \in 1 .. sent[n], t \in Reports : Report(n, k, t)
                 \/ \E h \in Handlers : Handles(h)
                 \/ Chooses
BY DEF NoticeNext, Work, Sends, Handles, Delivers, Chooses

LEMMA SenderIdle == IdleSender \in SenderRow
BY DEF IdleSender, SenderRow

\* A sender moves on.
LEMMA SourceStep ==
  ASSUME NotificationsOK, SourceType, NEW s \in Senders, Sends(s),
         sender[s].pc = "log" => sender[s].note \in Reminders
  PROVE  SourceType'
<1> USE DEF SourceType
<1>1. ASSUME NEW r \in SenderRow, sender' = [sender EXCEPT ![s] = r],
             emitted' \subseteq Occasions \cup Copies, log' \subseteq Reminders,
             lost' \in 0 .. MaxCrashes, UNCHANGED <<time, pref, suppressed>>
      PROVE  SourceType'
  BY <1>1
<1>2. MaxCrashes \in Nat /\ Reminders \subseteq Notes /\ Occasions \cup Copies \subseteq Notes
  BY DEF NotificationsOK, Notes
<1>3. sender[s] \in SenderRow
  OBVIOUS
<1>4. ASSUME NEW n \in Reminders, Select(s, n) PROVE SourceType'
  <2> DEFINE r == [pc |-> "log", note |-> n, pref |-> pref]
  <2>1. r \in SenderRow
    BY <1>2 DEF SenderRow
  <2>2. sender' = [sender EXCEPT ![s] = r] /\ UNCHANGED <<time, pref, suppressed, emitted, log, lost>>
    BY <1>4 DEF Select, choice
  <2> HIDE DEF r
  <2> QED BY <1>1, <2>1, <2>2
<1>5. ASSUME NEW n \in Occasions \cup Copies, HandleEvent(s, n) PROVE SourceType'
  <2> DEFINE r == [pc |-> "notify", note |-> n, pref |-> pref]
  <2>1. r \in SenderRow
    BY <1>2 DEF SenderRow
  <2>2. sender' = [sender EXCEPT ![s] = r] /\ UNCHANGED <<time, pref, suppressed, log, lost>>
        /\ emitted' = emitted \cup {n}
    BY <1>5 DEF HandleEvent, choice
  <2> HIDE DEF r
  <2> QED BY <1>1, <2>1, <2>2
<1>6. ASSUME TryLog(s), sender[s].note \in Reminders PROVE SourceType'
  <2> DEFINE r == IF sender[s].note \in log THEN IdleSender ELSE [sender[s] EXCEPT !.pc = "notify"]
  <2>1. r \in SenderRow
    BY <1>3, SenderIdle DEF SenderRow
  <2>2. sender' = [sender EXCEPT ![s] = r] /\ UNCHANGED <<time, pref, suppressed, emitted, lost>>
        /\ log' = log \cup {sender[s].note}
    BY <1>6 DEF TryLog, choice
  <2> HIDE DEF r
  <2> QED BY <1>1, <1>6, <2>1, <2>2
<1>7. ASSUME Record(s) PROVE SourceType'
  <2> DEFINE r == [sender[s] EXCEPT !.pc = "recorded"]
  <2>1. r \in SenderRow
    BY <1>3 DEF SenderRow
  <2>2. /\ sender' = [sender EXCEPT ![s] = IdleSender] \/ sender' = [sender EXCEPT ![s] = r]
        /\ UNCHANGED <<time, pref, suppressed, emitted, log, lost>>
    BY <1>7 DEF Record, choice
  <2> HIDE DEF r
  <2> QED BY <1>1, <2>1, <2>2, SenderIdle
<1>8. ASSUME Dispatch(s) PROVE SourceType'
  <2>1. /\ sender' = [sender EXCEPT ![s] = IdleSender]
        /\ UNCHANGED <<time, pref, suppressed, emitted, log, lost>>
    BY <1>8 DEF Dispatch, choice
  <2> QED BY <1>1, <2>1, SenderIdle
<1>9. ASSUME LoseSender(s) PROVE SourceType'
  <2>1. /\ sender' = [sender EXCEPT ![s] = IdleSender] /\ lost < MaxCrashes /\ lost' = lost + 1
        /\ UNCHANGED <<time, pref, suppressed, emitted, log>>
    BY <1>9 DEF LoseSender, choice
  <2>2. lost' \in 0 .. MaxCrashes
    BY <1>2, <2>1
  <2> QED BY <1>1, <2>1, <2>2, SenderIdle
<1> QED BY <1>4, <1>5, <1>6, <1>7, <1>8, <1>9 DEF Sends, TryLog

\* A notification is recorded or dispatched.
LEMMA DeliveryBySender ==
  ASSUME NotificationsOK, SourceType, DeliveryType, NEW s \in Senders, Sends(s),
         sender[s].pc # "idle" => sender[s].note \in Notes
  PROVE  DeliveryType' /\ UNCHANGED <<sent, reported, events, handler, fails>>
<1> USE DEF DeliveryType
<1> DEFINE n == sender[s].note
<1>1. CASE UNCHANGED <<rows, fails, mails, row, task, sent, reported, events, handler>>
  BY <1>1
<1>2. ASSUME Record(s) PROVE DeliveryType' /\ UNCHANGED <<sent, reported, events, handler, fails>>
  <2>1. UNCHANGED <<fails, mails, task, sent, reported, events, handler>> /\ n \in Notes
    BY <1>2 DEF Record, hook
  <2>2. CASE UNCHANGED <<rows, row>>
    BY <2>1, <2>2
  <2>3. CASE ~UNCHANGED <<rows, row>>
    <3> DEFINE d == [channel |-> Channel(s), status |-> "queued", msg |-> 0]
    <3>1. rows' = [rows EXCEPT ![n] = @ + 1] /\ row' = [row EXCEPT ![n] = d]
      BY <1>2, <2>3 DEF Record
    <3>2. d \in DeliveryRow
      BY DEF DeliveryRow, Statuses, Channel, effective_channel
    <3> HIDE DEF d
    <3> QED BY <2>1, <3>1, <3>2
  <2> QED BY <2>2, <2>3
<1>3. ASSUME Dispatch(s) PROVE DeliveryType' /\ UNCHANGED <<sent, reported, events, handler, fails>>
  <2>1. UNCHANGED <<rows, row, fails, sent, reported, events, handler>> /\ n \in Notes
    BY <1>3 DEF Dispatch, hook
  <2>2. CASE UNCHANGED mails
    <3>1. task' = [task EXCEPT ![n] = Queued] \/ task' = task
      BY <1>3 DEF Dispatch
    <3>2. Queued \in TaskRow
      BY DEF Queued, TaskRow, NotificationsOK
    <3> QED BY <2>1, <2>2, <3>1, <3>2
  <2>3. CASE ~UNCHANGED mails
    <3>1. mails' = [mails EXCEPT ![n] = @ + 1] /\ task' = task
      BY <1>3, <2>3 DEF Dispatch
    <3> QED BY <2>1, <3>1
  <2> QED BY <2>2, <2>3
<1>4. ASSUME NEW r, Select(s, r) \/ HandleEvent(s, r) \/ TryLog(s) \/ LoseSender(s)
      PROVE  UNCHANGED <<rows, fails, mails, row, task, sent, reported, events, handler>>
  BY <1>4 DEF Select, HandleEvent, TryLog, LoseSender, hook
<1> QED BY <1>1, <1>2, <1>3, <1>4 DEF Sends

\* The task moves on; what the provider accepted only grows.
LEMMA DeliveryByTask ==
  ASSUME NotificationsOK, DeliveryType, NEW n \in Notes, Delivers(n), ReportType, SourceType
  PROVE  DeliveryType' /\ ReportType' /\ SourceType'
<1>1. /\ MaxRetries \in Nat /\ MaxCrashes \in Nat /\ task[n] \in TaskRow /\ row[n] \in DeliveryRow
      /\ sent[n] \in Nat
  BY DEF NotificationsOK, DeliveryType, ReportType
<1>2. ASSUME NEW d \in TaskRow, NEW r \in DeliveryRow, task' = [task EXCEPT ![n] = d],
             row' = [row EXCEPT ![n] = r] \/ row' = row, fails' \in [Notes -> Nat],
             UNCHANGED <<rows, mails>>
      PROVE  DeliveryType'
  BY <1>2 DEF DeliveryType
<1>3. ASSUME NEW k \in Nat, k >= sent[n], sent' = [sent EXCEPT ![n] = k], UNCHANGED <<reported, events, handler>>
      PROVE  ReportType'
  <2>1. sent' \in [Notes -> Nat]
    BY <1>3 DEF ReportType
  <2>2. HandlerRow' = HandlerRow
    BY <1>3 DEF HandlerRow
  <2>3. \A e \in reported : e.note \in Notes /\ e.msg \in 1 .. sent'[e.note]
    <3> SUFFICES ASSUME NEW e \in reported PROVE e.note \in Notes /\ e.msg \in 1 .. sent'[e.note]
      OBVIOUS
    <3>1. e.note \in Notes /\ e.msg \in 1 .. sent[e.note] /\ sent[e.note] \in Nat
      BY DEF ReportType
    <3>2. sent'[e.note] \in Nat /\ sent'[e.note] >= sent[e.note]
      BY <1>1, <1>3, <3>1 DEF ReportType
    <3> QED BY <3>1, <3>2
  <2> QED BY <1>3, <2>1, <2>2, <2>3 DEF ReportType
<1>4. ASSUME Take(n) \/ Finish(n) \/ Ack(n) \/ LoseNode(n) \/ KillProcess(n)
      PROVE  DeliveryType' /\ ReportType' /\ SourceType'
  <2>0. UNCHANGED <<sent, reported, events, handler>>
    BY <1>4 DEF Take, Finish, Ack, LoseNode, KillProcess, hook
  <2>1. HandlerRow' = HandlerRow
    BY <2>0 DEF HandlerRow
  <2>2. ReportType'
    BY <2>0, <2>1 DEF ReportType
  <2>3. ASSUME Finish(n) PROVE DeliveryType' /\ SourceType'
    <3> DEFINE d == [task[n] EXCEPT !.pc = "acking"]
               r == [row[n] EXCEPT !.status = "sent", !.msg = task[n].msg]
    <3>1. task' = [task EXCEPT ![n] = d] /\ row' = [row EXCEPT ![n] = r]
          /\ UNCHANGED <<rows, mails, fails>>
      BY <2>3 DEF Finish, source
    <3>2. d \in TaskRow /\ r \in DeliveryRow
      BY <1>1 DEF TaskRow, DeliveryRow, Statuses
    <3>3. SourceType'
      BY <2>3 DEF Finish, source, choice, SourceType
    <3>4. fails' \in [Notes -> Nat]
      BY <3>1 DEF DeliveryType
    <3> HIDE DEF d, r
    <3> QED BY <1>2, <3>1, <3>2, <3>3, <3>4
  <2>4. ASSUME Ack(n) PROVE DeliveryType' /\ SourceType'
    <3> DEFINE d == [task[n] EXCEPT !.pc = "done"]
    <3>1. task' = [task EXCEPT ![n] = d] /\ row' = row /\ UNCHANGED <<rows, mails, fails>>
      BY <2>4 DEF Ack, source
    <3>2. d \in TaskRow
      BY <1>1 DEF TaskRow
    <3>3. SourceType'
      BY <2>4 DEF Ack, source, choice, SourceType
    <3>4. fails' \in [Notes -> Nat]
      BY <3>1 DEF DeliveryType
    <3> HIDE DEF d
    <3> QED BY <1>1, <1>2, <3>1, <3>2, <3>3, <3>4
  <2>5. ASSUME LoseNode(n) PROVE DeliveryType' /\ SourceType'
    <3> DEFINE d == [task[n] EXCEPT !.pc = "queued", !.msg = 0]
    <3>1. task' = [task EXCEPT ![n] = d] /\ row' = row /\ UNCHANGED <<rows, mails, fails>>
      BY <2>5 DEF LoseNode, source
    <3>2. d \in TaskRow
      BY <1>1 DEF TaskRow
    <3>3. lost < MaxCrashes /\ lost' = lost + 1 /\ UNCHANGED <<time, pref, suppressed, emitted, log, sender>>
      BY <2>5 DEF LoseNode, source, choice
    <3>4. SourceType'
      BY <1>1, <3>3 DEF SourceType
    <3>5. fails' \in [Notes -> Nat]
      BY <3>1 DEF DeliveryType
    <3> HIDE DEF d
    <3> QED BY <1>1, <1>2, <3>1, <3>2, <3>4, <3>5
  <2>6. ASSUME KillProcess(n) PROVE DeliveryType' /\ SourceType'
    <3> DEFINE d == [task[n] EXCEPT !.pc = "dropped"]
    <3>1. task' = [task EXCEPT ![n] = d] /\ row' = row /\ UNCHANGED <<rows, mails, fails>>
      BY <2>6 DEF KillProcess, source
    <3>2. d \in TaskRow
      BY <1>1 DEF TaskRow
    <3>3. lost < MaxCrashes /\ lost' = lost + 1 /\ UNCHANGED <<time, pref, suppressed, emitted, log, sender>>
      BY <2>6 DEF KillProcess, source, choice
    <3>4. SourceType'
      BY <1>1, <3>3 DEF SourceType
    <3>5. fails' \in [Notes -> Nat]
      BY <3>1 DEF DeliveryType
    <3> HIDE DEF d
    <3> QED BY <1>1, <1>2, <3>1, <3>2, <3>4, <3>5
  <2>7. ASSUME Take(n) PROVE DeliveryType' /\ SourceType'
    <3> DEFINE d == [task[n] EXCEPT !.pc = "sending"]
    <3>1. task' = [task EXCEPT ![n] = d] /\ row' = row /\ UNCHANGED <<rows, mails, fails>>
      BY <2>7 DEF Take, source
    <3>2. d \in TaskRow
      BY <1>1 DEF TaskRow
    <3>3. SourceType'
      BY <2>7 DEF Take, source, choice, SourceType
    <3>4. fails' \in [Notes -> Nat]
      BY <3>1 DEF DeliveryType
    <3> HIDE DEF d
    <3> QED BY <1>1, <1>2, <3>1, <3>2, <3>3, <3>4
  <2> QED BY <1>4, <2>2, <2>3, <2>4, <2>5, <2>6, <2>7
<1>5. ASSUME SendOk(n) PROVE DeliveryType' /\ ReportType' /\ SourceType'
  <2> DEFINE d == [task[n] EXCEPT !.pc = "sent", !.msg = IF Tracked THEN sent[n] + 1 ELSE 0]
             k == sent[n] + 1
  <2>1. task' = [task EXCEPT ![n] = d] /\ row' = row /\ UNCHANGED <<rows, mails, fails, reported, events, handler>>
        /\ sent' = [sent EXCEPT ![n] = k]
    BY <1>5 DEF SendOk, source, hook
  <2>2. d \in TaskRow /\ k \in Nat /\ k >= sent[n]
    <3>1. k \in Nat /\ k >= sent[n]
      BY <1>1
    <3>2. CASE Tracked
      <4>1. d = [task[n] EXCEPT !.pc = "sent", !.msg = k]
        BY <3>2
      <4> HIDE DEF d, k
      <4> QED BY <1>1, <3>1, <4>1 DEF TaskRow
    <3>3. CASE ~Tracked
      <4>1. d = [task[n] EXCEPT !.pc = "sent", !.msg = 0]
        BY <3>3
      <4> HIDE DEF d, k
      <4> QED BY <1>1, <3>1, <4>1 DEF TaskRow
    <3> QED BY <3>1, <3>2, <3>3
  <2>3. SourceType'
    BY <1>5 DEF SendOk, source, choice, SourceType
  <2>4. fails' \in [Notes -> Nat]
    BY <2>1 DEF DeliveryType
  <2> HIDE DEF d, k
  <2> QED BY <1>1, <1>2, <1>3, <2>1, <2>2, <2>3, <2>4
<1>6. ASSUME SendRaises(n) PROVE DeliveryType' /\ ReportType' /\ SourceType'
  <2>1. PICK accepted \in {0, 1} : sent' = [sent EXCEPT ![n] = @ + accepted]
    BY <1>6 DEF SendRaises
  <2> DEFINE k == sent[n] + accepted
             d == IF Exhausted(n) THEN [task[n] EXCEPT !.pc = "acking"]
                  ELSE [task[n] EXCEPT !.pc = "queued", !.retries = task[n].retries + 1]
  <2>2. sent' = [sent EXCEPT ![n] = k] /\ k \in Nat /\ k >= sent[n]
    BY <1>1, <2>1
  <2>3. task' = [task EXCEPT ![n] = d] /\ row' = row /\ UNCHANGED <<rows, mails, reported, events, handler>>
        /\ fails' = [fails EXCEPT ![n] = @ + 1]
    <3>1. row' = row /\ UNCHANGED <<rows, mails, reported, events, handler>>
          /\ fails' = [fails EXCEPT ![n] = @ + 1]
      BY <1>6 DEF SendRaises, source, hook
    <3>2. task' = [task EXCEPT ![n] = d]
      <4>1. task \in [Notes -> TaskRow]
        BY DEF DeliveryType
      <4>2. CASE Exhausted(n)
        BY <1>1, <1>6, <4>1, <4>2 DEF SendRaises, TaskRow
      <4>3. CASE ~Exhausted(n)
        <5> DEFINE e == [task[n] EXCEPT !.pc = "queued", !.retries = task[n].retries + 1]
        <5>1. task' = [task EXCEPT ![n] = e]
          BY <1>6, <4>1, <4>3 DEF SendRaises
        <5>2. d = e
          BY <4>3
        <5> HIDE DEF d, e
        <5> QED BY <5>1, <5>2
      <4> QED BY <4>2, <4>3
    <3> QED BY <3>1, <3>2
  <2>4. d \in TaskRow
    <3>1. CASE Exhausted(n)
      BY <1>1, <3>1 DEF TaskRow
    <3>2. CASE ~Exhausted(n)
      <4> DEFINE left == task[n].retries + 1
      <4>1. left \in 0 .. MaxRetries
        BY <1>1, <3>2 DEF TaskRow, Exhausted
      <4>2. d = [task[n] EXCEPT !.pc = "queued", !.retries = left]
        BY <3>2
      <4> HIDE DEF d, left
      <4> QED BY <1>1, <4>1, <4>2 DEF TaskRow
    <3> QED BY <3>1, <3>2
  <2>5. SourceType'
    BY <1>6 DEF SendRaises, source, choice, SourceType
  <2>6. fails' \in [Notes -> Nat]
    BY <2>3 DEF DeliveryType
  <2> HIDE DEF d, k
  <2> QED BY <1>1, <1>2, <1>3, <2>2, <2>3, <2>4, <2>5, <2>6
<1> QED BY <1>4, <1>5, <1>6 DEF Delivers

\* The provider reports on a message it accepted.
LEMMA TypesByReport ==
  ASSUME NoticeTypeOK, NEW n \in Notes, NEW k \in 1 .. sent[n], NEW t \in Reports, Report(n, k, t)
  PROVE  NoticeTypeOK'
<1> DEFINE e == Callback(n, k, t)
<1>1. /\ reported' = reported \cup {e} /\ events' = events \cup {e} /\ UNCHANGED <<sent, handler>>
      /\ UNCHANGED <<rows, fails, mails, row, task>>
      /\ UNCHANGED <<time, lost, pref, suppressed, emitted, log, sender>>
  BY DEF Report, source, choice
<1>2. SourceType /\ DeliveryType /\ ReportType
  BY TypeParts
<1>3. SourceType' /\ DeliveryType'
  BY <1>1, <1>2 DEF SourceType, DeliveryType
<1>4. e \in [note : Notes, msg : Nat, status : Reports] /\ e.note = n /\ e.msg = k
  BY <1>2 DEF Callback, ReportType
<1> HIDE DEF e
<1>5. \A c \in reported' : c.msg \in 1 .. sent'[c.note]
  BY <1>1, <1>2, <1>4 DEF ReportType
<1>6. \A c \in HandlerRow : c \in HandlerRow'
  BY <1>1 DEF HandlerRow
<1>7. handler' \in [Handlers -> HandlerRow']
  BY <1>1, <1>2, <1>6 DEF ReportType
<1>8. ReportType'
  BY <1>1, <1>2, <1>4, <1>5, <1>7 DEF ReportType
<1> QED BY <1>3, <1>8, TypePartsNext

LEMMA HandlerIdle == IdleHandler \in HandlerRow /\ IdleHandler.pc = "idle"
BY DEF IdleHandler, HandlerRow, Statuses

\* A web worker moves on.
LEMMA TypesByHandler ==
  ASSUME NotificationsOK, NoticeTypeOK, NEW h \in Handlers, Handles(h)
  PROVE  NoticeTypeOK'
<1>1. SourceType /\ DeliveryType /\ ReportType
  BY TypeParts
<1>2. /\ handler[h] \in HandlerRow
      /\ handler[h].pc # "idle" => /\ handler[h].event \in reported
                                   /\ handler[h].event.note \in Notes
                                   /\ handler[h].event.status \in Reports
      /\ MaxCrashes \in Nat /\ Reports \subseteq Statuses
  BY <1>1 DEF ReportType, NotificationsOK, Statuses
<1>3. ASSUME NEW r \in HandlerRow, r.pc # "idle" => r.event \in reported,
             handler' = [handler EXCEPT ![h] = r], reported' = reported, sent' = sent,
             events' \subseteq events
      PROVE  ReportType'
  <2>1. HandlerRow' = HandlerRow
    BY <1>3 DEF HandlerRow
  <2>2. handler' \in [Handlers -> HandlerRow']
    BY <1>1, <1>3, <2>1 DEF ReportType
  <2>3. \A g \in Handlers : handler'[g].pc # "idle" => handler'[g].event \in reported'
    BY <1>1, <1>3 DEF ReportType
  <2> QED BY <1>1, <1>3, <2>2, <2>3 DEF ReportType
<1>4. ASSUME NEW n \in Notes, NEW t \in Statuses,
             row' = [row EXCEPT ![n].status = t], UNCHANGED <<rows, fails, mails, task>>
      PROVE  DeliveryType'
  <2> DEFINE d == [row[n] EXCEPT !.status = t]
  <2>1. row[n] \in DeliveryRow
    BY <1>1 DEF DeliveryType
  <2>2. d \in DeliveryRow
    BY <2>1 DEF DeliveryRow
  <2>3. row' = [row EXCEPT ![n] = d]
    BY <1>4
  <2> HIDE DEF d
  <2> QED BY <1>1, <1>4, <2>2, <2>3 DEF DeliveryType
<1>5. ASSUME LoseHandler(h) PROVE NoticeTypeOK'
  <2>1. /\ lost < MaxCrashes /\ lost' = lost + 1 /\ UNCHANGED <<time, pref, suppressed, emitted, log, sender>>
        /\ UNCHANGED <<rows, fails, mails, row, task, sent, reported, events>>
        /\ handler' = [handler EXCEPT ![h] = IdleHandler]
    BY <1>5 DEF LoseHandler, source, choice
  <2>2. SourceType' /\ DeliveryType'
    BY <1>1, <1>2, <2>1 DEF SourceType, DeliveryType
  <2> QED BY <1>3, <2>1, <2>2, HandlerIdle, TypePartsNext
<1>6. ASSUME NEW e \in events, Receive(h, e) PROVE NoticeTypeOK'
  <2>1. /\ UNCHANGED <<time, lost, pref, suppressed, emitted, log, sender>>
        /\ UNCHANGED <<rows, fails, mails, row, task, sent, reported>>
        /\ events' \subseteq events
    BY <1>6 DEF Receive, source, choice
  <2>2. SourceType' /\ DeliveryType'
    BY <1>1, <2>1 DEF SourceType, DeliveryType
  <2> DEFINE r == [pc |-> "decide", event |-> e, seen |-> row[e.note].status]
  <2>3. r \in HandlerRow /\ r.event \in reported
    <3>1. e \in reported /\ e.note \in Notes
      BY <1>1 DEF ReportType
    <3>2. row[e.note] \in DeliveryRow
      BY <1>1, <3>1 DEF DeliveryType
    <3> QED BY <3>1, <3>2 DEF HandlerRow, DeliveryRow
  <2>4. handler' = [handler EXCEPT ![h] = r] \/ handler' = [handler EXCEPT ![h] = IdleHandler]
    BY <1>6 DEF Receive
  <2> HIDE DEF r
  <2>5. ReportType'
    BY <1>3, <2>1, <2>3, <2>4, HandlerIdle
  <2> QED BY <2>2, <2>5, TypePartsNext
<1>7. ASSUME SaveStatus(h) PROVE NoticeTypeOK'
  <2> DEFINE r == [handler[h] EXCEPT !.pc = "fallback"]
             e == handler[h].event
  <2>1. /\ UNCHANGED <<time, lost, pref, suppressed, emitted, log, sender>>
        /\ UNCHANGED <<rows, fails, mails, task, sent, reported, events>>
        /\ handler[h].pc # "idle"
    BY <1>7 DEF SaveStatus, source, choice
  <2>2. row' = row \/ row' = [row EXCEPT ![e.note].status = e.status]
    BY <1>7 DEF SaveStatus
  <2>3. handler' = [handler EXCEPT ![h] = r] \/ handler' = [handler EXCEPT ![h] = IdleHandler]
    BY <1>7 DEF SaveStatus
  <2>4. r \in HandlerRow /\ r.event \in reported
    BY <1>2, <2>1 DEF HandlerRow
  <2>5. SourceType'
    BY <1>1, <2>1 DEF SourceType
  <2>6. e.note \in Notes /\ e.status \in Statuses
    BY <1>2, <2>1
  <2> HIDE DEF r, e
  <2>7. ReportType'
    BY <1>3, <2>1, <2>3, <2>4, HandlerIdle
  <2>8. CASE row' = row
    BY <1>1, <2>1, <2>5, <2>7, <2>8, TypePartsNext DEF DeliveryType
  <2>9. CASE row' = [row EXCEPT ![e.note].status = e.status]
    BY <1>4, <2>1, <2>5, <2>6, <2>7, <2>9, TypePartsNext
  <2> QED BY <2>2, <2>8, <2>9
<1>8. ASSUME Fallback(h) PROVE NoticeTypeOK'
  <2> DEFINE r == [handler[h] EXCEPT !.pc = "mailed"]
             n == handler[h].event.note
  <2>1. /\ UNCHANGED <<time, lost, pref, suppressed, emitted, log, sender>>
        /\ UNCHANGED <<rows, fails, row, task, sent, reported, events>>
        /\ handler[h].pc # "idle"
    BY <1>8 DEF Fallback, source, choice
  <2>2. mails' = mails \/ mails' = [mails EXCEPT ![n] = @ + 1]
    BY <1>8 DEF Fallback
  <2>3. handler' = [handler EXCEPT ![h] = r] \/ handler' = [handler EXCEPT ![h] = IdleHandler]
    BY <1>8 DEF Fallback
  <2>4. r \in HandlerRow /\ r.event \in reported
    BY <1>2, <2>1 DEF HandlerRow
  <2>5. SourceType'
    BY <1>1, <2>1 DEF SourceType
  <2> HIDE DEF r
  <2>6. ReportType'
    BY <1>3, <2>1, <2>3, <2>4, HandlerIdle
  <2>7. DeliveryType'
    BY <1>1, <1>2, <2>1, <2>2 DEF DeliveryType
  <2> QED BY <2>5, <2>6, <2>7, TypePartsNext
<1>9. ASSUME SaveFallback(h) PROVE NoticeTypeOK'
  <2> DEFINE n == handler[h].event.note
             t == "fallback_sent"
  <2>1. /\ UNCHANGED <<time, lost, pref, suppressed, emitted, log, sender>>
        /\ UNCHANGED <<rows, fails, mails, task, sent, reported, events>>
        /\ handler[h].pc # "idle"
    BY <1>9 DEF SaveFallback, source, choice
  <2>2. row' = [row EXCEPT ![n].status = t] /\ handler' = [handler EXCEPT ![h] = IdleHandler]
    BY <1>9 DEF SaveFallback
  <2>3. SourceType'
    BY <1>1, <2>1 DEF SourceType
  <2>4. n \in Notes /\ t \in Statuses
    BY <1>2, <2>1 DEF Statuses
  <2> HIDE DEF t, n
  <2>5. ReportType'
    BY <1>3, <2>1, <2>2, HandlerIdle
  <2> QED BY <1>4, <2>1, <2>2, <2>3, <2>4, <2>5, TypePartsNext
<1> QED BY <1>5, <1>6, <1>7, <1>8, <1>9 DEF Handles

\* Choices of the customer and time touch nothing else.
LEMMA TypesByChoice ==
  ASSUME NotificationsOK, NoticeTypeOK, Chooses
  PROVE  /\ NoticeTypeOK'
         /\ UNCHANGED <<emitted, log, sender, rows, row, task, sent, fails, mails, reported, events, handler, lost>>
<1>1. SourceType /\ DeliveryType /\ ReportType
  BY TypeParts
<1>2. UNCHANGED <<emitted, log, sender, rows, row, task, sent, fails, mails, reported, events, handler, lost>>
  BY DEF Chooses, Stop, Restart, Prefer, TimePasses, source, hook
<1>3. HandlerRow' = HandlerRow
  BY <1>2 DEF HandlerRow
<1>4. DeliveryType' /\ ReportType'
  BY <1>1, <1>2, <1>3 DEF DeliveryType, ReportType
<1>5. time' \in DOMAIN Timeline
  <2>1. DOMAIN Timeline = 1 .. Len(Timeline) /\ Len(Timeline) \in Nat
    BY DEF NotificationsOK
  <2>2. time \in DOMAIN Timeline
    BY <1>1 DEF SourceType
  <2>3. time' = time \/ (time < Len(Timeline) /\ time' = time + 1)
    BY DEF Chooses, Stop, Restart, Prefer, TimePasses
  <2> QED BY <2>1, <2>2, <2>3
<1>6. pref' \in {"whatsapp", "email"} /\ suppressed' \in BOOLEAN
  BY <1>1 DEF Chooses, Stop, Restart, Prefer, TimePasses, choice, SourceType
<1>7. SourceType'
  BY <1>1, <1>2, <1>5, <1>6 DEF SourceType
<1> QED BY <1>2, <1>4, <1>7, TypePartsNext

\* Every step keeps the types.
LEMMA NotificationTypes ==
  ASSUME NotificationsOK, NoticeTypeOK, OnceInv, NoticeNext
  PROVE  NoticeTypeOK'
<1>1. SourceType /\ DeliveryType /\ ReportType
  BY TypeParts
<1>2. ASSUME NEW s \in Senders, Sends(s) PROVE NoticeTypeOK'
  <2>1. /\ sender[s].pc = "log" => sender[s].note \in Reminders
        /\ sender[s].pc # "idle" => sender[s].note \in Notes
    BY DEF OnceInv
  <2>2. SourceType'
    BY <1>1, <1>2, <2>1, SourceStep
  <2>3. DeliveryType' /\ UNCHANGED <<sent, reported, events, handler>>
    BY <1>1, <1>2, <2>1, DeliveryBySender
  <2>4. HandlerRow' = HandlerRow
    BY <2>3 DEF HandlerRow
  <2>5. ReportType'
    BY <1>1, <2>3, <2>4 DEF ReportType
  <2> QED BY <2>2, <2>3, <2>5, TypePartsNext
<1>3. ASSUME NEW n \in Notes, Delivers(n) PROVE NoticeTypeOK'
  BY <1>1, <1>3, DeliveryByTask, TypePartsNext
<1> QED BY <1>2, <1>3, TypesByReport, TypesByHandler, TypesByChoice, NotificationSteps

-----------------------------------------------------------------------------
(* A notification goes out once *)

\* Nothing was done for m that concerns Once, or a sender of m gave up.
LEMMA OnceKept ==
  ASSUME NEW m \in Notes, Once(m), rows'[m] = rows[m], row'[m].channel = row[m].channel,
         log \subseteq log', emitted \subseteq emitted',
         \A t \in Sending(m)' : t \in Sending(m) /\ sender'[t].pc = sender[t].pc,
         rows[m] = 0 \/ Sending(m) # {} =>
           /\ mails'[m] = mails[m] /\ sent'[m] = sent[m]
           /\ task'[m].pc = task[m].pc /\ row'[m].msg = row[m].msg
  PROVE  Once(m)'
<1> DEFINE old == Sending(m)
           new == Sending(m)'
<1>1. new \subseteq old
  OBVIOUS
<1>2. \A t \in old : /\ sender[t].pc = "notify" => rows[m] = 0
                     /\ sender[t].pc = "recorded" => rows[m] = 1
  BY DEF Once
<1>3. \A t \in new : /\ sender'[t].pc = "notify" => rows'[m] = 0
                     /\ sender'[t].pc = "recorded" => rows'[m] = 1
  BY <1>2
<1>4. \A s, t \in new : s = t
  BY <1>1 DEF Once
<1>5. m \notin log' \cup emitted' => rows'[m] = 0 /\ new = {}
  BY <1>1 DEF Once
<1>6. rows'[m] = 0 \/ new # {} => mails'[m] = 0 /\ sent'[m] = 0 /\ task'[m].pc = "none" /\ row'[m].msg = 0
  BY <1>1 DEF Once
<1>7. rows'[m] \in {0, 1} /\ (rows'[m] = 0 <=> row'[m].channel = "none")
  BY DEF Once
<1> QED BY <1>3, <1>4, <1>5, <1>6, <1>7 DEF Once

\* A sender takes n up: it was in no sender, and nothing was done for it.
LEMMA OnceTaken ==
  ASSUME NEW n \in Notes, NEW s \in Senders, Once(n), n \notin log \cup emitted,
         n \in log' \cup emitted',
         UNCHANGED <<rows, row, mails, sent, task>>, Sending(n)' = Sending(n) \cup {s},
         sender'[s].pc = "notify"
  PROVE  Once(n)'
<1> DEFINE new == Sending(n)'
<1>1. rows[n] = 0 /\ Sending(n) = {} /\ row[n].channel = "none"
  BY DEF Once
<1>2. new = {s}
  BY <1>1
<1>3. mails[n] = 0 /\ sent[n] = 0 /\ task[n].pc = "none" /\ row[n].msg = 0
  BY <1>1 DEF Once
<1> HIDE DEF new
<1> QED BY <1>1, <1>2, <1>3 DEF Once, new

\* A sender moves on.
LEMMA OnceBySender ==
  ASSUME NotificationsOK, NoticeTypeOK, OnceInv, NEW s \in Senders, Sends(s)
  PROVE  OnceInv'
<1>1. SourceType /\ DeliveryType
  BY TypeParts
<1>2. /\ sender[s].pc # "idle" => sender[s].note \in Notes
      /\ sender[s].pc = "log" => sender[s].note \in Reminders
      /\ \A m \in Notes : Once(m)
  BY DEF OnceInv
<1>3. sender \in [Senders -> SenderRow] /\ emitted \subseteq Occasions \cup Copies /\ log \subseteq Reminders
      /\ Reminders \cap (Occasions \cup Copies) = {}
      /\ Reminders \subseteq Notes /\ Occasions \cup Copies \subseteq Notes
  BY <1>1 DEF SourceType, NotificationsOK, Notes
<1>4. ASSUME NEW r, sender' = [sender EXCEPT ![s] = r],
             r.pc # "idle" => r.note \in Notes, r.pc = "log" => r.note \in Reminders,
             \A m \in Notes : Once(m)'
      PROVE  OnceInv'
  BY <1>3, <1>4 DEF OnceInv
<1>5. ASSUME NEW r, sender' = [sender EXCEPT ![s] = r], NEW m \in Notes
      PROVE  /\ sender'[s] = r
             /\ \A t \in Senders \ {s} : t \in Sending(m)' <=> t \in Sending(m)
             /\ \A t \in Sending(m)' : t # s => sender'[t].pc = sender[t].pc
             /\ s \in Sending(m)' <=> r.pc \in {"notify", "recorded"} /\ r.note = m
  BY <1>3, <1>5 DEF Sending
<1>6. ASSUME NEW r, sender' = [sender EXCEPT ![s] = r], r.pc \in {"idle", "log"},
             r.pc = "log" => r.note \in Reminders,
             log \subseteq log', emitted \subseteq emitted', UNCHANGED <<rows, row, mails, sent, task>>
      PROVE  OnceInv'
  <2>1. ASSUME NEW m \in Notes PROVE Once(m)'
    BY <1>2, <1>5, <1>6, <2>1, OnceKept DEF Sending
  <2> QED BY <1>3, <1>4, <1>6, <2>1
<1>7. ASSUME NEW n \in Notes, NEW r, r.pc = "notify", r.note = n, sender' = [sender EXCEPT ![s] = r],
             n \notin log \cup emitted, n \in log' \cup emitted', sender[s].pc \in {"idle", "log"},
             log \subseteq log', emitted \subseteq emitted', UNCHANGED <<rows, row, mails, sent, task>>
      PROVE  OnceInv'
  <2>1. s \notin Sending(n)
    BY <1>7 DEF Sending
  <2>2. ASSUME NEW m \in Notes, m # n PROVE Once(m)'
    BY <1>2, <1>5, <1>7, <2>2, OnceKept DEF Sending
  <2>3. Once(n)'
    <3>1. Sending(n)' = Sending(n) \cup {s} /\ sender'[s].pc = "notify"
      <4>1. Sending(n)' \subseteq Senders /\ Sending(n) \subseteq Senders
        BY DEF Sending
      <4>2. s \in Sending(n)'
        BY <1>5, <1>7
      <4>3. \A t \in Senders \ {s} : t \in Sending(n)' <=> t \in Sending(n)
        BY <1>5, <1>7
      <4>4. Sending(n)' = Sending(n) \cup {s}
        BY <4>1, <4>2, <4>3
      <4>5. sender'[s].pc = "notify"
        BY <1>5, <1>7
      <4> QED BY <4>4, <4>5
    <3> QED BY <1>2, <1>7, <3>1, OnceTaken
  <2> QED BY <1>4, <1>7, <2>2, <2>3
<1>8. IdleSender.pc = "idle"
  BY DEF IdleSender
<1>9. ASSUME NEW n \in Reminders, Select(s, n) PROVE OnceInv'
  <2> DEFINE r == [pc |-> "log", note |-> n, pref |-> pref]
  <2>1. sender' = [sender EXCEPT ![s] = r] /\ UNCHANGED <<emitted, log, rows, row, mails, sent, task>>
    BY <1>9 DEF Select
  <2>2. r.pc = "log" /\ r.note \in Reminders
    OBVIOUS
  <2> HIDE DEF r
  <2> QED BY <1>6, <2>1, <2>2
<1>10. ASSUME NEW n \in Occasions \cup Copies, HandleEvent(s, n) PROVE OnceInv'
  <2> DEFINE r == [pc |-> "notify", note |-> n, pref |-> pref]
  <2>1. /\ sender' = [sender EXCEPT ![s] = r] /\ UNCHANGED <<log, rows, row, mails, sent, task>>
        /\ emitted' = emitted \cup {n} /\ n \notin emitted /\ sender[s].pc = "idle"
    BY <1>10 DEF HandleEvent
  <2>2. r.pc = "notify" /\ r.note = n
    OBVIOUS
  <2>3. n \notin log \cup emitted /\ n \in Notes
    BY <1>3, <2>1
  <2> HIDE DEF r
  <2> QED BY <1>7, <2>1, <2>2, <2>3
<1>11. ASSUME TryLog(s) PROVE OnceInv'
  <2> DEFINE n == sender[s].note
             r == [sender[s] EXCEPT !.pc = "notify"]
  <2>1. /\ UNCHANGED <<emitted, rows, row, mails, sent, task>>
        /\ log' = log \cup {n} /\ sender[s].pc = "log"
    BY <1>11 DEF TryLog
  <2>2. n \in Reminders /\ n \in Notes
    BY <1>2, <1>3, <2>1
  <2>3. CASE n \in log
    <3>1. sender' = [sender EXCEPT ![s] = IdleSender]
      BY <1>11, <2>3 DEF TryLog
    <3> HIDE DEF n
    <3> QED BY <1>6, <1>8, <2>1, <3>1
  <2>4. CASE n \notin log
    <3>1. sender' = [sender EXCEPT ![s] = r]
      BY <1>11, <2>4 DEF TryLog
    <3>2. r.pc = "notify" /\ r.note = n
      BY <1>3 DEF SenderRow
    <3>3. n \notin log \cup emitted
      BY <1>3, <2>2, <2>4
    <3> HIDE DEF n, r
    <3> QED BY <1>7, <2>1, <2>2, <3>1, <3>2, <3>3
  <2> QED BY <2>3, <2>4
<1>12. ASSUME Record(s) PROVE OnceInv'
  <2>0. PICK n \in Notes : n = sender[s].note
    BY <1>2, <1>12 DEF Record
  <2>1. sender[s].pc = "notify" /\ UNCHANGED <<emitted, log, task, sent, mails>>
    BY <1>12, <2>0 DEF Record
  <2>2. CASE n \in Copies /\ Channel(s) = "email"
    <3>1. sender' = [sender EXCEPT ![s] = IdleSender] /\ UNCHANGED <<rows, row>>
      BY <1>12, <2>0, <2>2 DEF Record
    <3> QED BY <1>6, <1>8, <2>1, <3>1
  <2>3. CASE ~(n \in Copies /\ Channel(s) = "email")
    <3> DEFINE r == [sender[s] EXCEPT !.pc = "recorded"]
               d == [channel |-> Channel(s), status |-> "queued", msg |-> 0]
    <3>1. /\ sender' = [sender EXCEPT ![s] = r] /\ rows' = [rows EXCEPT ![n] = @ + 1]
          /\ row' = [row EXCEPT ![n] = d]
      BY <1>12, <2>0, <2>3 DEF Record
    <3>2. d.channel # "none" /\ d.msg = 0 /\ r.pc = "recorded" /\ r.note = n
      BY <1>3, <2>0 DEF Channel, effective_channel, SenderRow
    <3>3. s \in Sending(n) /\ Once(n)
      BY <1>2, <2>0, <2>1 DEF Sending
    <3>4. Sending(n) = {s} /\ rows[n] = 0 /\ n \in log \cup emitted /\ mails[n] = 0 /\ sent[n] = 0 /\ task[n].pc = "none"
      BY <2>1, <3>3 DEF Once
    <3> HIDE DEF r, d
    <3>5. Sending(n)' = {s} /\ sender'[s].pc = "recorded"
      <4>1. Sending(n)' \subseteq Senders /\ Sending(n) \subseteq Senders
        BY DEF Sending
      <4>2. s \in Sending(n)' /\ sender'[s].pc = "recorded"
        BY <1>5, <3>1, <3>2
      <4>3. \A t \in Senders \ {s} : t \in Sending(n)' <=> t \in Sending(n)
        BY <1>5, <3>1
      <4> QED BY <3>4, <4>1, <4>2, <4>3
    <3>6. rows'[n] = 1 /\ row'[n] = d
      BY <1>1, <2>1, <3>1, <3>4 DEF DeliveryType
    <3>7. Once(n)'
      BY <2>1, <3>2, <3>4, <3>5, <3>6 DEF Once
    <3>8. ASSUME NEW m \in Notes, m # n PROVE Once(m)'
      <4>1. rows'[m] = rows[m] /\ row'[m] = row[m]
        BY <1>1, <3>1, <3>8 DEF DeliveryType
      <4>2. \A t \in Sending(m)' : t \in Sending(m) /\ sender'[t].pc = sender[t].pc
        BY <1>5, <3>1, <3>2, <3>8 DEF Sending
      <4> QED BY <1>2, <2>1, <4>1, <4>2, OnceKept
    <3> QED BY <1>4, <2>1, <3>1, <3>2, <3>7, <3>8
  <2> QED BY <2>2, <2>3
<1>13. ASSUME Dispatch(s) PROVE OnceInv'
  <2>0. PICK n \in Notes : n = sender[s].note
    BY <1>2, <1>13 DEF Dispatch
  <2>1. /\ sender[s].pc = "recorded" /\ UNCHANGED <<emitted, log, rows, row, sent>>
        /\ sender' = [sender EXCEPT ![s] = IdleSender]
    BY <1>2, <1>13 DEF Dispatch
  <2>2. s \in Sending(n) /\ Once(n)
    BY <1>2, <2>0, <2>1 DEF Sending
  <2>3. Sending(n) = {s} /\ rows[n] = 1 /\ n \in log \cup emitted
    BY <2>1, <2>2 DEF Once
  <2>4. \A m \in Notes : m # n => mails'[m] = mails[m] /\ task'[m] = task[m]
    BY <1>1, <1>13, <2>0 DEF Dispatch, DeliveryType
  <2>5. Sending(n)' = {}
    <3>1. Sending(n)' \subseteq Senders /\ Sending(n) \subseteq Senders
      BY DEF Sending
    <3>2. s \notin Sending(n)'
      BY <1>5, <1>8, <2>1
    <3>3. \A t \in Senders \ {s} : t \in Sending(n)' <=> t \in Sending(n)
      BY <1>5, <2>1
    <3> QED BY <2>3, <3>1, <3>2, <3>3
  <2>6. Once(n)'
    BY <2>1, <2>2, <2>3, <2>5 DEF Once
  <2>7. ASSUME NEW m \in Notes, m # n PROVE Once(m)'
    <3>1. \A t \in Sending(m)' : t \in Sending(m) /\ sender'[t].pc = sender[t].pc
      BY <1>5, <1>8, <2>1, <2>7 DEF Sending
    <3> QED BY <1>2, <2>1, <2>4, <2>7, <3>1, OnceKept
  <2> QED BY <1>4, <1>8, <2>1, <2>6, <2>7
<1>14. ASSUME LoseSender(s) PROVE OnceInv'
  <2>1. sender' = [sender EXCEPT ![s] = IdleSender] /\ UNCHANGED <<emitted, log, rows, row, mails, sent, task>>
    BY <1>14 DEF LoseSender
  <2> QED BY <1>6, <1>8, <2>1
<1> QED BY <1>9, <1>10, <1>11, <1>12, <1>13, <1>14 DEF Sends

\* The task, the provider, the web workers and the customer leave the senders
\* alone, and touch only what was dispatched.
LEMMA OnceByOthers ==
  ASSUME NoticeTypeOK, OnceInv, UNCHANGED <<emitted, log, sender, rows>>,
         \A m \in Notes : row'[m].channel = row[m].channel,
         NEW S \in SUBSET Notes, \A n \in S : rows[n] # 0 /\ Sending(n) = {},
         \A m \in Notes \ S : /\ mails'[m] = mails[m] /\ sent'[m] = sent[m]
                              /\ task'[m].pc = task[m].pc /\ row'[m].msg = row[m].msg
  PROVE  OnceInv'
<1>1. ASSUME NEW m \in Notes PROVE Once(m)'
  <2>1. Once(m) /\ Sending(m)' = Sending(m)
    BY <1>1 DEF OnceInv, Sending
  <2>2. \A t \in Sending(m)' : t \in Sending(m) /\ sender'[t].pc = sender[t].pc
    BY <2>1
  <2>3. CASE m \in S
    BY <1>1, <2>1, <2>2, <2>3, OnceKept
  <2>4. CASE m \notin S
    BY <1>1, <2>1, <2>2, <2>4, OnceKept
  <2> QED BY <2>3, <2>4
<1>2. \A s \in Senders : /\ sender'[s].pc # "idle" => sender'[s].note \in Notes
                         /\ sender'[s].pc = "log" => sender'[s].note \in Reminders
  BY DEF OnceInv
<1> QED BY <1>1, <1>2 DEF OnceInv

\* What a task or a callback is about was dispatched.
LEMMA Dispatched ==
  ASSUME OnceInv, NEW n \in Notes, task[n].pc # "none" \/ sent[n] # 0
  PROVE  rows[n] # 0 /\ Sending(n) = {}
BY DEF OnceInv, Once

LEMMA ReportedDispatched ==
  ASSUME NoticeTypeOK, OnceInv, NEW e \in reported
  PROVE  /\ e.note \in Notes /\ sent[e.note] \in Nat \ {0}
         /\ rows[e.note] # 0 /\ Sending(e.note) = {}
<1>1. e.note \in Notes /\ sent[e.note] \in Nat /\ e.msg \in 1 .. sent[e.note]
  BY DEF NoticeTypeOK
<1>2. sent[e.note] \in Nat \ {0}
  BY <1>1
<1> QED BY <1>1, <1>2, Dispatched

LEMMA OnceStep ==
  ASSUME NotificationsOK, NoticeTypeOK, OnceInv, NoticeNext
  PROVE  OnceInv'
<1>1. DeliveryType /\ ReportType
  BY TypeParts
<1>2. ASSUME NEW n \in Notes, Delivers(n) PROVE OnceInv'
  <2>1. task[n].pc # "none" /\ UNCHANGED <<emitted, log, sender, rows>>
    BY <1>2 DEF Delivers, Take, SendOk, SendRaises, Finish, Ack, LoseNode, KillProcess, Running, source
  <2>2. \A m \in Notes \ {n} : mails'[m] = mails[m] /\ sent'[m] = sent[m] /\ task'[m] = task[m] /\ row'[m] = row[m]
    BY <1>1, <1>2 DEF Delivers, Take, SendOk, SendRaises, Finish, Ack, LoseNode, KillProcess, DeliveryType, ReportType
  <2>3. row'[n].channel = row[n].channel
    <3>1. row[n] \in DeliveryRow
      BY <1>1 DEF DeliveryType
    <3>2. row' = row \/ row' = [row EXCEPT ![n].status = "sent", ![n].msg = task[n].msg]
      BY <1>2 DEF Delivers, Take, SendOk, SendRaises, Finish, Ack, LoseNode, KillProcess
    <3> QED BY <1>1, <3>1, <3>2 DEF DeliveryRow, DeliveryType
  <2>4. rows[n] # 0 /\ Sending(n) = {}
    BY <2>1, Dispatched
  <2> DEFINE S == {n}
  <2>5. S \in SUBSET Notes /\ (\A m \in S : rows[m] # 0 /\ Sending(m) = {})
    BY <2>4
  <2>6. \A m \in Notes : row'[m].channel = row[m].channel
    BY <2>2, <2>3
  <2>7. \A m \in Notes \ S : /\ mails'[m] = mails[m] /\ sent'[m] = sent[m]
                             /\ task'[m].pc = task[m].pc /\ row'[m].msg = row[m].msg
    BY <2>2
  <2> HIDE DEF S
  <2> QED BY <2>1, <2>5, <2>6, <2>7, OnceByOthers
<1>3. ASSUME NEW n \in Notes, NEW k \in 1 .. sent[n], NEW t \in Reports, Report(n, k, t)
      PROVE  OnceInv'
  <2>1. UNCHANGED <<emitted, log, sender, rows, row, mails, sent, task>>
    BY <1>3 DEF Report, source
  <2> DEFINE S == {}
  <2>2. S \in SUBSET Notes /\ (\A m \in S : rows[m] # 0 /\ Sending(m) = {})
    OBVIOUS
  <2> HIDE DEF S
  <2> QED BY <2>1, <2>2, OnceByOthers
<1>4. ASSUME NEW h \in Handlers, Handles(h) PROVE OnceInv'
  <2>1. UNCHANGED <<emitted, log, sender, rows, sent, task>>
    BY <1>4 DEF Handles, Receive, SaveStatus, Fallback, SaveFallback, LoseHandler, source
  <2>2. CASE UNCHANGED <<mails, row>>
    <3> DEFINE S == {}
    <3>1. S \in SUBSET Notes /\ (\A m \in S : rows[m] # 0 /\ Sending(m) = {})
      OBVIOUS
    <3> HIDE DEF S
    <3> QED BY <2>1, <2>2, <3>1, OnceByOthers
  <2>3. CASE ~UNCHANGED <<mails, row>>
    <3>1. handler[h].pc # "idle"
      BY <1>4, <2>3 DEF Handles, Receive, SaveStatus, Fallback, SaveFallback, LoseHandler
    <3>2. PICK e \in reported : e = handler[h].event
      BY <1>1, <3>1 DEF ReportType
    <3> DEFINE S == {e.note}
               d == "fallback_sent"
    <3>3. e.note \in Notes /\ rows[e.note] # 0 /\ Sending(e.note) = {}
      BY ReportedDispatched
    <3>4. S \in SUBSET Notes /\ (\A m \in S : rows[m] # 0 /\ Sending(m) = {})
      BY <3>3
    <3>5. /\ row' = row \/ (\E t : row' = [row EXCEPT ![e.note].status = t])
          /\ mails' = mails \/ mails' = [mails EXCEPT ![e.note] = @ + 1]
      <4>1. ASSUME SaveStatus(h) PROVE (row' = row \/ row' = [row EXCEPT ![e.note].status = e.status]) /\ mails' = mails
        BY <3>2, <4>1 DEF SaveStatus
      <4>2. ASSUME Fallback(h) PROVE row' = row /\ (mails' = mails \/ mails' = [mails EXCEPT ![e.note] = @ + 1])
        BY <3>2, <4>2 DEF Fallback
      <4>3. ASSUME SaveFallback(h) PROVE row' = [row EXCEPT ![e.note].status = d] /\ mails' = mails
        BY <3>2, <4>3 DEF SaveFallback
      <4>4. ASSUME NEW c, Receive(h, c) \/ LoseHandler(h) PROVE UNCHANGED <<mails, row>>
        BY <4>4 DEF Receive, LoseHandler
      <4> HIDE DEF d
      <4> QED BY <1>4, <4>1, <4>2, <4>3, <4>4 DEF Handles
    <3>6. \A m \in Notes : row[m] \in DeliveryRow
      BY <1>1 DEF DeliveryType
    <3>7. \A m \in Notes : row'[m].channel = row[m].channel /\ row'[m].msg = row[m].msg
      <4>1. ASSUME NEW t, row' = [row EXCEPT ![e.note].status = t], NEW m \in Notes
            PROVE  row'[m].channel = row[m].channel /\ row'[m].msg = row[m].msg
        BY <1>1, <3>3, <3>6, <4>1 DEF DeliveryType, DeliveryRow
      <4> QED BY <3>5, <4>1
    <3>8. \A m \in Notes \ S : mails'[m] = mails[m]
      BY <1>1, <3>5 DEF DeliveryType
    <3> HIDE DEF S
    <3> QED BY <2>1, <3>4, <3>7, <3>8, OnceByOthers
  <2> QED BY <2>2, <2>3
<1>5. ASSUME Chooses PROVE OnceInv'
  <2>1. UNCHANGED <<emitted, log, sender, rows, row, mails, sent, task>>
    BY <1>5, TypesByChoice
  <2> DEFINE S == {}
  <2>2. S \in SUBSET Notes /\ (\A m \in S : rows[m] # 0 /\ Sending(m) = {})
    OBVIOUS
  <2> HIDE DEF S
  <2> QED BY <2>1, <2>2, OnceByOthers
<1> QED BY <1>2, <1>3, <1>4, <1>5, OnceBySender, NotificationSteps

-----------------------------------------------------------------------------
(* How many e-mails *)

\* Two sets that differ in x at most.
LEMMA CountDiff ==
  ASSUME NEW A, NEW B, NEW x, IsFiniteSet(A), \A y : y # x => (y \in A <=> y \in B)
  PROVE  /\ IsFiniteSet(B) /\ Cardinality(A) \in Nat /\ Cardinality(B) \in Nat
         /\ Cardinality(B) + One(x \in A) = Cardinality(A) + One(x \in B)
<1>1. Cardinality(A) \in Nat
  BY FS_CardinalityType
<1>2. CASE x \in A /\ x \notin B
  <2>1. B = A \ {x}
    BY <1>2
  <2>2. IsFiniteSet(B) /\ Cardinality(B) = Cardinality(A) - 1
    BY <1>2, <2>1, FS_RemoveElement
  <2>3. Cardinality(B) \in Nat
    BY <2>2, FS_CardinalityType
  <2> QED BY <1>1, <1>2, <2>2, <2>3 DEF One
<1>3. CASE x \notin A /\ x \in B
  <2>1. B = A \cup {x}
    BY <1>3
  <2>2. IsFiniteSet(B) /\ Cardinality(B) = Cardinality(A) + 1
    BY <1>3, <2>1, FS_AddElement
  <2> QED BY <1>1, <1>3, <2>2 DEF One
<1>4. CASE x \in A <=> x \in B
  <2>1. B = A
    BY <1>4
  <2> QED BY <1>1, <2>1
<1> QED BY <1>2, <1>3, <1>4

LEMMA FiniteCounts ==
  ASSUME NotificationsOK, NoticeTypeOK, MailsInv, NEW n \in Notes
  PROVE  /\ IsFiniteSet(InHand(n)) /\ Cardinality(InHand(n)) \in Nat
         /\ IsFiniteSet(Failed(events, n)) /\ Cardinality(Failed(events, n)) \in Nat
         /\ IsFiniteSet(Failed(reported, n)) /\ Cardinality(Failed(reported, n)) \in Nat
         /\ mails[n] \in Nat /\ lost \in Nat
<1>1. IsFiniteSet(Handlers)
  BY DEF NotificationsOK
<1>2. InHand(n) \subseteq Handlers
  BY DEF InHand
<1>3. Failed(events, n) \subseteq reported /\ Failed(reported, n) \subseteq reported
  BY DEF Failed, NoticeTypeOK
<1>4. IsFiniteSet(InHand(n)) /\ IsFiniteSet(Failed(events, n)) /\ IsFiniteSet(Failed(reported, n))
  BY <1>1, <1>2, <1>3, FS_Subset DEF MailsInv
<1>5. mails[n] \in Nat /\ lost \in Nat
  BY DEF NoticeTypeOK, NotificationsOK
<1> QED BY <1>4, <1>5, FS_CardinalityType

\* A step after which no more is left to mail for n than before.
LEMMA MailsKept ==
  ASSUME NotificationsOK, NoticeTypeOK, MailsInv, NEW n \in Notes,
         UNCHANGED <<handler, events, reported>>,
         row'[n].channel # "email" => row[n].channel # "email", mails'[n] = mails[n],
         Open(n)' => Open(n), lost' \in {lost, lost + 1},
         lost' = lost => (Trying(n)' => Trying(n))
  PROVE  Answered(n)' /\ MailsLeft(n)'
<1>1. InHand(n)' = InHand(n) /\ Failed(events, n)' = Failed(events, n) /\ Failed(reported, n)' = Failed(reported, n)
  BY DEF InHand, Failed
<1>2. Answered(n) /\ MailsLeft(n)
  BY DEF MailsInv
<1>3. Answered(n)'
  BY <1>1, <1>2 DEF Answered
<1>4. /\ Cardinality(InHand(n)) \in Nat /\ mails[n] \in Nat /\ lost \in Nat
      /\ One(Open(n)) \in {0, 1} /\ One(Open(n)') \in {0, 1} /\ One(Open(n)') <= One(Open(n))
      /\ One(Trying(n)) \in {0, 1} /\ One(Trying(n)') \in {0, 1}
      /\ lost' = lost => One(Trying(n)') <= One(Trying(n))
  BY FiniteCounts DEF One
<1>5. One(Open(n))' = One(Open(n)') /\ One(Trying(n))' = One(Trying(n)')
  BY DEF One
<1>6. MailsLeft(n)'
  BY <1>1, <1>2, <1>4, <1>5 DEF MailsLeft
<1> QED BY <1>3, <1>6

LEMMA MailsFrame ==
  ASSUME MailsInv, UNCHANGED <<handler, reported>>,
         \A n \in Notes : Answered(n)' /\ MailsLeft(n)'
  PROVE  MailsInv'
BY DEF MailsInv

\* A sender moves on.
LEMMA MailsBySender ==
  ASSUME NotificationsOK, NoticeTypeOK, OnceInv, MailsInv, NEW s \in Senders, Sends(s)
  PROVE  MailsInv'
<1>1. SourceType /\ DeliveryType /\ ReportType
  BY TypeParts
<1>2. UNCHANGED <<handler, events, reported, sent>>
  BY DEF Sends, Select, HandleEvent, TryLog, Record, Dispatch, LoseSender, hook
<1>3. ASSUME UNCHANGED <<row, mails, task>>, lost' \in {lost, lost + 1} PROVE MailsInv'
  <2>1. ASSUME NEW n \in Notes PROVE Answered(n)' /\ MailsLeft(n)'
    BY <1>2, <1>3, <2>1, MailsKept DEF Open, Trying
  <2> QED BY <1>2, <2>1, MailsFrame
<1>4. ASSUME Record(s) PROVE MailsInv'
  <2>0. PICK n \in Notes : n = sender[s].note
    BY <1>4 DEF Record, OnceInv
  <2>1. sender[s].pc = "notify" /\ UNCHANGED <<task, mails, lost>>
    BY <1>4 DEF Record
  <2>2. s \in Sending(n) /\ Once(n)
    BY <2>0, <2>1 DEF Sending, OnceInv
  <2>3. row[n].channel = "none"
    BY <2>1, <2>2 DEF Once
  <2> DEFINE d == [channel |-> Channel(s), status |-> "queued", msg |-> 0]
  <2>4. row' = row \/ row' = [row EXCEPT ![n] = d]
    BY <1>4, <2>0 DEF Record
  <2>5. d.msg = 0
    OBVIOUS
  <2> HIDE DEF d
  <2>6. ASSUME NEW m \in Notes PROVE Answered(m)' /\ MailsLeft(m)'
    <3>1. row'[m] = row[m] \/ (m = n /\ row'[m] = d)
      BY <1>1, <2>4, <2>6 DEF DeliveryType
    <3>2. CASE row'[m] = row[m]
      BY <1>2, <2>1, <2>6, <3>2, MailsKept DEF Open, Trying
    <3>3. CASE m = n /\ row'[m] = d
      <4>1. ~Open(m)'
        BY <2>5, <3>3 DEF Open
      <4> QED BY <1>2, <2>1, <2>3, <2>6, <3>3, <4>1, MailsKept DEF Trying
    <3> QED BY <3>1, <3>2, <3>3
  <2> QED BY <1>2, <2>6, MailsFrame
<1>5. ASSUME Dispatch(s) PROVE MailsInv'
  <2>0. PICK n \in Notes : n = sender[s].note
    BY <1>5 DEF Dispatch, OnceInv
  <2>1. sender[s].pc = "recorded" /\ UNCHANGED <<row, lost>>
    BY <1>5 DEF Dispatch
  <2>2. s \in Sending(n) /\ Once(n)
    BY <2>0, <2>1 DEF Sending, OnceInv
  <2>3. /\ mails[n] = 0 /\ sent[n] = 0 /\ task[n].pc = "none" /\ row[n].msg = 0
        /\ row[n].channel # "none"
    BY <2>1, <2>2 DEF Once
  <2>4. \/ row[n].channel = "whatsapp" /\ task' = [task EXCEPT ![n] = Queued] /\ mails' = mails
        \/ row[n].channel # "whatsapp" /\ mails' = [mails EXCEPT ![n] = @ + 1] /\ task' = task
    BY <1>5, <2>0 DEF Dispatch
  <2>5. row[n].channel \in {"whatsapp", "email"}
    BY <1>1, <2>3 DEF DeliveryType, DeliveryRow
  <2>6. ASSUME NEW m \in Notes, m # n PROVE Answered(m)' /\ MailsLeft(m)'
    <3>1. mails'[m] = mails[m] /\ task'[m] = task[m]
      BY <1>1, <2>4, <2>6 DEF DeliveryType
    <3> QED BY <1>2, <2>1, <2>6, <3>1, MailsKept DEF Open, Trying
  <2>7. InHand(n) = {} /\ InHand(n)' = {}
    <3>1. InHand(n) = {}
      BY <1>1, <2>3 DEF InHand, ReportType
    <3>2. InHand(n)' = InHand(n)
      BY <1>2 DEF InHand
    <3> QED BY <3>1, <3>2
  <2>8. ~Open(n)' /\ lost \in Nat /\ Cardinality({}) = 0
    BY <2>1, <2>3, FiniteCounts, FS_EmptySet DEF Open
  <2>9. Answered(n)'
    <3>1. CASE row[n].channel = "whatsapp"
      <4>1. Failed(events, n)' = Failed(events, n) /\ Failed(reported, n)' = Failed(reported, n)
        BY <1>2 DEF Failed
      <4>2. Answered(n) /\ mails' = mails
        BY <2>4, <3>1 DEF MailsInv
      <4> QED BY <2>1, <2>7, <4>1, <4>2 DEF Answered
    <3>2. CASE row[n].channel = "email"
      BY <2>1, <3>2 DEF Answered
    <3> QED BY <2>5, <3>1, <3>2
  <2>10. MailsLeft(n)'
    <3>1. mails'[n] + One(Trying(n)') \in {0, 1}
      <4>1. CASE task' = [task EXCEPT ![n] = Queued] /\ mails' = mails
        BY <2>3, <4>1 DEF One
      <4>2. CASE mails' = [mails EXCEPT ![n] = @ + 1] /\ task' = task
        <5>1. mails'[n] = 1 /\ task'[n].pc = "none"
          BY <1>1, <2>3, <4>2 DEF DeliveryType
        <5> QED BY <5>1 DEF One, Trying
      <4> QED BY <2>4, <4>1, <4>2
    <3>2. One(Open(n)') = 0
      BY <2>8 DEF One
    <3>3. mails'[n] \in Nat /\ One(Trying(n)') \in {0, 1}
      <4>1. mails' = mails \/ mails' = [mails EXCEPT ![n] = @ + 1]
        BY <2>4
      <4> QED BY <1>1, <4>1 DEF One, DeliveryType
    <3>4. One(Open(n))' = One(Open(n)') /\ One(Trying(n))' = One(Trying(n)')
      BY DEF One
    <3> QED BY <2>1, <2>7, <2>8, <3>1, <3>2, <3>3, <3>4 DEF MailsLeft
  <2> QED BY <1>2, <2>6, <2>9, <2>10, MailsFrame
<1>6. ASSUME NEW r, Select(s, r) \/ HandleEvent(s, r) \/ TryLog(s) \/ LoseSender(s)
      PROVE  UNCHANGED <<row, mails, task>> /\ lost' \in {lost, lost + 1}
  BY <1>6 DEF Select, HandleEvent, TryLog, LoseSender
<1> QED BY <1>3, <1>4, <1>5, <1>6 DEF Sends

\* The task moves on: an attempt that ends leaves at most one message open.
LEMMA MailsByTask ==
  ASSUME NotificationsOK, NoticeTypeOK, MailsInv, NEW n \in Notes, Delivers(n)
  PROVE  MailsInv'
<1>1. DeliveryType /\ ReportType
  BY TypeParts
<1>2. UNCHANGED <<handler, events, reported, mails>>
  BY DEF Delivers, Take, SendOk, SendRaises, Finish, Ack, LoseNode, KillProcess, hook
<1>3. \A m \in Notes : /\ row'[m].channel = row[m].channel
                       /\ m # n => row'[m] = row[m] /\ task'[m] = task[m]
  <2>1. row[n] \in DeliveryRow
    BY <1>1 DEF DeliveryType
  <2>2. row' = row \/ row' = [row EXCEPT ![n].status = "sent", ![n].msg = task[n].msg]
    BY DEF Delivers, Take, SendOk, SendRaises, Finish, Ack, LoseNode, KillProcess
  <2>3. \A m \in Notes : m # n => task'[m] = task[m]
    BY <1>1 DEF Delivers, Take, SendOk, SendRaises, Finish, Ack, LoseNode, KillProcess, DeliveryType
  <2> QED BY <1>1, <2>1, <2>2, <2>3 DEF DeliveryRow, DeliveryType
<1>4. lost' \in {lost, lost + 1}
  BY DEF Delivers, Take, SendOk, SendRaises, Finish, Ack, LoseNode, KillProcess
<1>5. ASSUME NEW m \in Notes, m # n PROVE Answered(m)' /\ MailsLeft(m)'
  BY <1>2, <1>3, <1>4, <1>5, MailsKept DEF Open, Trying
<1>6. ASSUME row' = row, lost' = lost => (Trying(n)' => Trying(n)) PROVE MailsInv'
  <2>1. Answered(n)' /\ MailsLeft(n)'
    BY <1>2, <1>4, <1>6, MailsKept DEF Open
  <2> QED BY <1>2, <1>5, <2>1, MailsFrame
<1>7. ASSUME Take(n) \/ SendOk(n) \/ SendRaises(n) \/ Ack(n) \/ LoseNode(n) \/ KillProcess(n)
      PROVE  MailsInv'
  <2>1. row' = row
    BY <1>7 DEF Take, SendOk, SendRaises, Ack, LoseNode, KillProcess
  <2>2. lost' = lost => (Trying(n)' => Trying(n))
    <3>1. task[n].pc \in {"queued", "sending"} => Trying(n)
      BY DEF Trying
    <3>2. ASSUME Ack(n) PROVE ~Trying(n)'
      <4>1. task'[n].pc = "done"
        BY <1>1, <3>2 DEF Ack, DeliveryType, TaskRow
      <4> QED BY <4>1 DEF Trying
    <3>3. ASSUME LoseNode(n) \/ KillProcess(n) PROVE lost' # lost
      BY <3>3 DEF LoseNode, KillProcess, NoticeTypeOK
    <3> QED BY <1>7, <3>1, <3>2, <3>3 DEF Take, SendOk, SendRaises
  <2> QED BY <1>6, <2>1, <2>2
<1>8. ASSUME Finish(n) PROVE MailsInv'
  <2>1. task[n].pc = "sent" /\ lost' = lost
    BY <1>8 DEF Finish
  <2>2. task'[n].pc = "acking"
    BY <1>1, <1>8 DEF Finish, DeliveryType, TaskRow
  <2>3. InHand(n)' = InHand(n) /\ Failed(events, n)' = Failed(events, n) /\ Failed(reported, n)' = Failed(reported, n)
    BY <1>2 DEF InHand, Failed
  <2>4. Answered(n) /\ MailsLeft(n)
    BY DEF MailsInv
  <2>5. Answered(n)'
    BY <1>2, <1>3, <2>3, <2>4 DEF Answered
  <2>6. One(Trying(n)) = 1 /\ One(Trying(n)') = 0 /\ One(Open(n)) \in {0, 1} /\ One(Open(n)') \in {0, 1}
    BY <2>1, <2>2 DEF One, Trying
  <2>7. One(Open(n))' = One(Open(n)') /\ One(Trying(n))' = One(Trying(n)')
    BY DEF One
  <2>8. MailsLeft(n)'
    BY <1>2, <2>1, <2>3, <2>4, <2>6, <2>7, FiniteCounts DEF MailsLeft
  <2> QED BY <1>2, <1>5, <2>5, <2>8, MailsFrame
<1> QED BY <1>7, <1>8 DEF Delivers

\* A report opens nothing and is counted where it is sent.
LEMMA MailsByReport ==
  ASSUME NotificationsOK, NoticeTypeOK, MailsInv,
         NEW n \in Notes, NEW k \in 1 .. sent[n], NEW t \in Reports, Report(n, k, t)
  PROVE  MailsInv'
<1> DEFINE e == Callback(n, k, t)
<1>1. /\ reported' = reported \cup {e} /\ events' = events \cup {e} /\ e \notin reported
      /\ UNCHANGED <<handler, row, mails, task, lost>>
  BY DEF Report
<1>2. e \notin events
  BY <1>1 DEF NoticeTypeOK
<1> HIDE DEF e
<1>3. IsFiniteSet(reported')
  BY <1>1, FS_AddElement DEF MailsInv
<1>4. ASSUME NEW m \in Notes PROVE Answered(m)' /\ MailsLeft(m)'
  <2>1. Answered(m) /\ MailsLeft(m)
    BY <1>4 DEF MailsInv
  <2>2. InHand(m)' = InHand(m)
    BY <1>1 DEF InHand
  <2>3. Cardinality(Failed(events', m)) + One(e \in Failed(events, m)) = Cardinality(Failed(events, m)) + One(e \in Failed(events', m))
        /\ Cardinality(Failed(events', m)) \in Nat
    <3>1. \A y : y # e => (y \in Failed(events, m) <=> y \in Failed(events', m))
      BY <1>1 DEF Failed
    <3>2. IsFiniteSet(Failed(events, m))
      BY <1>4, FiniteCounts
    <3> QED BY <3>1, <3>2, CountDiff
  <2>4. Cardinality(Failed(reported', m)) + One(e \in Failed(reported, m)) = Cardinality(Failed(reported, m)) + One(e \in Failed(reported', m))
        /\ Cardinality(Failed(reported', m)) \in Nat
    <3>1. \A y : y # e => (y \in Failed(reported, m) <=> y \in Failed(reported', m))
      BY <1>1 DEF Failed
    <3>2. IsFiniteSet(Failed(reported, m))
      BY <1>4, FiniteCounts
    <3> QED BY <3>1, <3>2, CountDiff
  <2>5. One(e \in Failed(events, m)) = 0 /\ One(e \in Failed(reported, m)) = 0
    BY <1>1, <1>2 DEF One, Failed
  <2>6. One(e \in Failed(events', m)) = One(e \in Failed(reported', m)) /\ One(e \in Failed(events', m)) \in {0, 1}
    BY <1>1 DEF One, Failed
  <2>7. Failed(events, m)' = Failed(events', m) /\ Failed(reported, m)' = Failed(reported', m)
    BY DEF Failed
  <2>8. Answered(m)'
    BY <1>1, <1>4, <2>1, <2>2, <2>3, <2>4, <2>5, <2>6, <2>7, FiniteCounts DEF Answered
  <2>9. Open(m)' <=> Open(m)
    BY <1>1, <1>2 DEF Open
  <2>10. Trying(m)' <=> Trying(m)
    BY <1>1 DEF Trying
  <2>11. One(Open(m))' = One(Open(m)) /\ One(Trying(m))' = One(Trying(m))
    BY <2>9, <2>10 DEF One
  <2>12. MailsLeft(m)'
    BY <1>1, <2>1, <2>2, <2>11 DEF MailsLeft
  <2> QED BY <2>8, <2>12
<1> QED BY <1>1, <1>3, <1>4 DEF MailsInv

\* A web worker moves on: h changes from handler[h] to r.
LEMMA InHandStep ==
  ASSUME NotificationsOK, NoticeTypeOK, MailsInv, NEW h \in Handlers, NEW r,
         handler' = [handler EXCEPT ![h] = r], NEW m \in Notes
  PROVE  /\ Cardinality(InHand(m)') + One(h \in InHand(m)) = Cardinality(InHand(m)) + One(h \in InHand(m)')
         /\ Cardinality(InHand(m)') \in Nat
         /\ h \in InHand(m) <=> /\ handler[h].pc \in {"decide", "fallback"} /\ handler[h].event.note = m
                                /\ handler[h].event.status = "failed"
         /\ h \in InHand(m)' <=> r.pc \in {"decide", "fallback"} /\ r.event.note = m /\ r.event.status = "failed"
<1>1. handler \in [Handlers -> HandlerRow]
  BY TypeParts DEF ReportType
<1>2. handler'[h] = r /\ \A g \in Handlers : g # h => handler'[g] = handler[g]
  BY <1>1
<1>3. \A y : y # h => (y \in InHand(m) <=> y \in InHand(m)')
  BY <1>2 DEF InHand
<1>4. IsFiniteSet(InHand(m))
  BY FiniteCounts
<1>5. h \in InHand(m) <=> /\ handler[h].pc \in {"decide", "fallback"} /\ handler[h].event.note = m
                          /\ handler[h].event.status = "failed"
  BY DEF InHand
<1>6. h \in InHand(m)' <=> r.pc \in {"decide", "fallback"} /\ r.event.note = m /\ r.event.status = "failed"
  BY <1>2 DEF InHand
<1>7. /\ Cardinality(InHand(m)') + One(h \in InHand(m)) = Cardinality(InHand(m)) + One(h \in InHand(m)')
      /\ Cardinality(InHand(m)') \in Nat
  <2> DEFINE A == InHand(m)
             B == InHand(m)'
  <2>1. IsFiniteSet(A) /\ \A y : y # h => (y \in A <=> y \in B)
    BY <1>3, <1>4
  <2> HIDE DEF A, B
  <2>2. Cardinality(B) + One(h \in A) = Cardinality(A) + One(h \in B) /\ Cardinality(B) \in Nat
    BY <2>1, CountDiff
  <2> QED BY <2>2 DEF A, B
<1> QED BY <1>5, <1>6, <1>7

\* A web worker mails at most the failure it has in hand.
LEMMA MailsHandled ==
  ASSUME NotificationsOK, NoticeTypeOK, MailsInv, NEW h \in Handlers, NEW r,
         handler' = [handler EXCEPT ![h] = r], NEW m \in Notes,
         UNCHANGED <<events, reported, task>>, lost' \in {lost, lost + 1},
         row'[m].channel = row[m].channel, row'[m].msg = row[m].msg,
         h \in InHand(m)' => h \in InHand(m),
         \/ mails'[m] = mails[m]
         \/ mails'[m] = mails[m] + 1 /\ h \in InHand(m) /\ h \notin InHand(m)'
  PROVE  Answered(m)' /\ MailsLeft(m)'
<1>1. Cardinality(InHand(m)') + One(h \in InHand(m)) = Cardinality(InHand(m)) + One(h \in InHand(m)')
      /\ Cardinality(InHand(m)') \in Nat
  BY InHandStep
<1>2. /\ Cardinality(InHand(m)) \in Nat /\ Cardinality(Failed(events, m)) \in Nat
      /\ Cardinality(Failed(reported, m)) \in Nat /\ mails[m] \in Nat /\ lost \in Nat
  BY FiniteCounts
<1>3. mails'[m] + Cardinality(InHand(m)') <= mails[m] + Cardinality(InHand(m)) /\ mails'[m] \in Nat
  BY <1>1, <1>2 DEF One
<1>4. Answered(m) /\ MailsLeft(m)
  BY DEF MailsInv
<1>5. Failed(events, m)' = Failed(events, m) /\ Failed(reported, m)' = Failed(reported, m)
  BY DEF Failed
<1>6. Cardinality(InHand(m))' = Cardinality(InHand(m)')
  OBVIOUS
<1>7. Answered(m)'
  BY <1>1, <1>2, <1>3, <1>4, <1>5 DEF Answered
<1>8. Open(m)' <=> Open(m)
  BY DEF Open
<1>9. Trying(m)' <=> Trying(m)
  BY DEF Trying
<1>10. One(Open(m))' = One(Open(m)) /\ One(Trying(m))' = One(Trying(m))
       /\ One(Open(m)) \in {0, 1} /\ One(Trying(m)) \in {0, 1}
  BY <1>8, <1>9 DEF One
<1>11. MailsLeft(m)'
  BY <1>1, <1>2, <1>3, <1>4, <1>10 DEF MailsLeft
<1> QED BY <1>7, <1>11

LEMMA MailsByHandler ==
  ASSUME NotificationsOK, NoticeTypeOK, MailsInv, NEW h \in Handlers, Handles(h)
  PROVE  MailsInv'
<1>1. DeliveryType /\ ReportType
  BY TypeParts
<1>2. handler[h] \in HandlerRow /\ IdleHandler.pc = "idle" /\ \A m \in Notes : row[m] \in DeliveryRow
  BY <1>1, HandlerIdle DEF ReportType, DeliveryType
<1>3. ASSUME NEW r, handler' = [handler EXCEPT ![h] = r], reported' = reported,
             r.pc = "fallback" => r.event.status = "failed",
             \A m \in Notes : Answered(m)' /\ MailsLeft(m)'
      PROVE  MailsInv'
  <2>1. \A g \in Handlers : handler'[g].pc = "fallback" => handler'[g].event.status = "failed"
    BY <1>1, <1>3 DEF MailsInv, ReportType
  <2>2. IsFiniteSet(reported')
    BY <1>3 DEF MailsInv
  <2> QED BY <1>3, <2>1, <2>2 DEF MailsInv
<1>4. ASSUME NEW n \in Notes, NEW t, row' = [row EXCEPT ![n].status = t], NEW m \in Notes
      PROVE  row'[m].channel = row[m].channel /\ row'[m].msg = row[m].msg
  BY <1>1, <1>2, <1>4 DEF DeliveryRow, DeliveryType
<1>5. ASSUME LoseHandler(h) PROVE MailsInv'
  <2>1. /\ handler' = [handler EXCEPT ![h] = IdleHandler] /\ lost' = lost + 1
        /\ UNCHANGED <<events, reported, task, row, mails>>
    BY <1>5 DEF LoseHandler
  <2>2. ASSUME NEW m \in Notes PROVE Answered(m)' /\ MailsLeft(m)'
    <3>1. h \notin InHand(m)'
      BY <1>2, <2>1, <2>2, InHandStep
    <3> QED BY <2>1, <2>2, <3>1, MailsHandled
  <2> QED BY <1>2, <1>3, <2>1, <2>2
<1>6. ASSUME SaveFallback(h) PROVE MailsInv'
  <2>1. /\ handler' = [handler EXCEPT ![h] = IdleHandler] /\ handler[h].pc = "mailed"
        /\ UNCHANGED <<events, reported, task, mails, lost>>
    BY <1>6 DEF SaveFallback
  <2> DEFINE t == "fallback_sent"
  <2>2. PICK n \in Notes : row' = [row EXCEPT ![n].status = t]
    BY <1>1, <1>6, <2>1 DEF SaveFallback, ReportType
  <2> HIDE DEF t
  <2>3. ASSUME NEW m \in Notes PROVE Answered(m)' /\ MailsLeft(m)'
    <3>1. h \notin InHand(m)'
      BY <1>2, <2>1, <2>3, InHandStep
    <3> QED BY <1>4, <2>1, <2>2, <2>3, <3>1, MailsHandled
  <2> QED BY <1>2, <1>3, <2>1, <2>3
<1>7. ASSUME Fallback(h) PROVE MailsInv'
  <2>1. /\ handler[h].pc = "fallback" /\ UNCHANGED <<events, reported, task, row, lost>>
    BY <1>7 DEF Fallback
  <2>2. PICK n \in Notes : n = handler[h].event.note
    BY <1>1, <2>1 DEF ReportType
  <2>3. handler[h].event.status = "failed"
    BY <2>1 DEF MailsInv
  <2> DEFINE k == [handler[h] EXCEPT !.pc = "mailed"]
  <2>4. PICK r : handler' = [handler EXCEPT ![h] = r] /\ r \in {k, IdleHandler}
    BY <1>7 DEF Fallback
  <2>5. r.pc \in {"mailed", "idle"}
    BY <1>2, <2>4 DEF HandlerRow
  <2>6. mails' = mails \/ mails' = [mails EXCEPT ![n] = @ + 1]
    BY <1>7, <2>2 DEF Fallback
  <2>7. ASSUME NEW m \in Notes PROVE Answered(m)' /\ MailsLeft(m)'
    <3>1. h \notin InHand(m)'
      BY <2>4, <2>5, <2>7, InHandStep
    <3>2. CASE mails'[m] = mails[m]
      BY <2>1, <2>4, <2>7, <3>1, <3>2, MailsHandled
    <3>3. CASE mails'[m] # mails[m]
      <4>1. m = n /\ mails'[m] = mails[m] + 1
        BY <1>1, <2>6, <2>7, <3>3 DEF DeliveryType
      <4>2. h \in InHand(m)
        BY <2>1, <2>2, <2>3, <4>1 DEF InHand
      <4> QED BY <2>1, <2>4, <2>7, <3>1, <4>1, <4>2, MailsHandled
    <3> QED BY <3>2, <3>3
  <2> QED BY <1>3, <2>1, <2>4, <2>5, <2>7
<1>8. ASSUME SaveStatus(h) PROVE MailsInv'
  <2>1. /\ handler[h].pc = "decide" /\ UNCHANGED <<events, reported, task, mails, lost>>
    BY <1>8 DEF SaveStatus
  <2>2. PICK e \in reported : e = handler[h].event
    BY <1>1, <2>1 DEF ReportType
  <2>3. e.note \in Notes
    BY <1>1 DEF ReportType
  <2> DEFINE k == [handler[h] EXCEPT !.pc = "fallback"]
  <2>4. PICK r : /\ handler' = [handler EXCEPT ![h] = r]
                 /\ r = IdleHandler \/ (r = k /\ e.status = "failed")
    BY <1>8, <2>2 DEF SaveStatus
  <2>5. r.pc = "idle" \/ (r.pc = "fallback" /\ r.event = e /\ e.status = "failed")
    BY <1>2, <2>2, <2>4 DEF HandlerRow
  <2>6. row' = row \/ row' = [row EXCEPT ![e.note].status = e.status]
    BY <1>8, <2>2 DEF SaveStatus
  <2>7. ASSUME NEW m \in Notes PROVE Answered(m)' /\ MailsLeft(m)'
    <3>1. h \in InHand(m)' => h \in InHand(m)
      <4>1. h \in InHand(m)' <=> r.pc \in {"decide", "fallback"} /\ r.event.note = m /\ r.event.status = "failed"
        BY <2>4, <2>7, InHandStep
      <4> QED BY <2>1, <2>2, <2>5, <4>1 DEF InHand
    <3>2. row'[m].channel = row[m].channel /\ row'[m].msg = row[m].msg
      BY <1>4, <2>3, <2>6, <2>7
    <3> QED BY <2>1, <2>4, <2>7, <3>1, <3>2, MailsHandled
  <2> QED BY <1>3, <2>1, <2>4, <2>5, <2>7
<1>9. ASSUME NEW e \in events, Receive(h, e) PROVE MailsInv'
  <2>1. /\ handler[h].pc = "idle" /\ events' = events \ {e}
        /\ UNCHANGED <<reported, task, row, mails, lost>>
    BY <1>9 DEF Receive
  <2>2. /\ e \in reported /\ e.note \in Notes /\ e.msg \in 1 .. sent[e.note]
        /\ sent[e.note] \in Nat /\ e \in [note : Notes, msg : Nat, status : Reports]
    BY <1>1 DEF ReportType
  <2> DEFINE k == [pc |-> "decide", event |-> e, seen |-> row[e.note].status]
  <2>3. PICK r : /\ handler' = [handler EXCEPT ![h] = r]
                 /\ r = IdleHandler \/ (r = k /\ row[e.note].msg = e.msg)
    BY <1>9 DEF Receive
  <2>4. r.pc = "idle" \/ (r.pc = "decide" /\ r.event = e /\ row[e.note].msg = e.msg)
    BY <1>2, <2>3
  <2>5. ASSUME NEW m \in Notes PROVE Answered(m)' /\ MailsLeft(m)'
    <3>1. /\ Cardinality(InHand(m)') + One(h \in InHand(m)) = Cardinality(InHand(m)) + One(h \in InHand(m)')
          /\ Cardinality(InHand(m)') \in Nat
          /\ h \notin InHand(m)
          /\ h \in InHand(m)' => m = e.note /\ e.status = "failed" /\ row[m].msg = e.msg
      <4>1. /\ Cardinality(InHand(m)') + One(h \in InHand(m)) = Cardinality(InHand(m)) + One(h \in InHand(m)')
            /\ Cardinality(InHand(m)') \in Nat
            /\ h \in InHand(m)' <=> r.pc \in {"decide", "fallback"} /\ r.event.note = m /\ r.event.status = "failed"
        BY <2>3, <2>5, InHandStep
      <4>2. h \notin InHand(m)
        BY <2>1 DEF InHand
      <4>3. h \in InHand(m)' => m = e.note /\ e.status = "failed" /\ row[m].msg = e.msg
        BY <2>4, <4>1
      <4> QED BY <4>1, <4>2, <4>3
    <3>2. /\ Cardinality(Failed(events', m)) + One(e \in Failed(events, m)) = Cardinality(Failed(events, m)) + One(e \in Failed(events', m))
          /\ Cardinality(Failed(events', m)) \in Nat
      <4>1. \A y : y # e => (y \in Failed(events, m) <=> y \in Failed(events', m))
        BY <2>1 DEF Failed
      <4>2. IsFiniteSet(Failed(events, m))
        BY <2>5, FiniteCounts
      <4> QED BY <4>1, <4>2, CountDiff
    <3>3. One(e \in Failed(events', m)) = 0 /\ (h \in InHand(m)' => One(e \in Failed(events, m)) = 1)
          /\ One(e \in Failed(events, m)) \in {0, 1}
      BY <2>1, <3>1 DEF One, Failed
    <3>4. One(h \in InHand(m)) = 0 /\ One(h \in InHand(m)') = (IF h \in InHand(m)' THEN 1 ELSE 0)
      BY <3>1 DEF One
    <3>5. /\ Cardinality(InHand(m)) \in Nat /\ Cardinality(Failed(events, m)) \in Nat
          /\ Cardinality(Failed(reported, m)) \in Nat /\ mails[m] \in Nat /\ lost \in Nat
          /\ Answered(m) /\ MailsLeft(m)
      BY <2>5, FiniteCounts DEF MailsInv
    <3>6. Failed(events, m)' = Failed(events', m) /\ Failed(reported, m)' = Failed(reported, m)
      BY <2>1 DEF Failed
    <3>7. Answered(m)'
      BY <2>1, <3>1, <3>2, <3>3, <3>4, <3>5, <3>6 DEF Answered
    <3>8. h \in InHand(m)' => Open(m) /\ ~Open(m)'
      <4>1. SUFFICES ASSUME h \in InHand(m)' PROVE Open(m) /\ ~Open(m)'
        OBVIOUS
      <4>2. e = Callback(m, row[m].msg, "failed") /\ row[m].msg # 0
        BY <2>2, <3>1, <4>1 DEF Callback
      <4> QED BY <2>1, <2>2, <4>2 DEF Open
    <3>9. Open(m)' => Open(m)
      BY <2>1 DEF Open
    <3>10. Trying(m)' <=> Trying(m)
      BY <2>1 DEF Trying
    <3>11. /\ One(Open(m))' = One(Open(m)') /\ One(Trying(m))' = One(Trying(m))
           /\ One(Open(m)) \in {0, 1} /\ One(Open(m)') \in {0, 1} /\ One(Trying(m)) \in {0, 1}
           /\ One(Open(m)') <= One(Open(m))
           /\ h \in InHand(m)' => One(Open(m)) = 1 /\ One(Open(m)') = 0
      BY <3>8, <3>9, <3>10 DEF One
    <3>12. MailsLeft(m)'
      BY <2>1, <3>1, <3>4, <3>5, <3>11 DEF MailsLeft
    <3> QED BY <3>7, <3>12
  <2> QED BY <1>3, <2>1, <2>3, <2>4, <2>5
<1> QED BY <1>5, <1>6, <1>7, <1>8, <1>9 DEF Handles

LEMMA MailsStep ==
  ASSUME NotificationsOK, NoticeTypeOK, OnceInv, MailsInv, NoticeNext
  PROVE  MailsInv'
<1>1. ASSUME Chooses PROVE MailsInv'
  <2>1. UNCHANGED <<row, mails, task, events, reported, handler, lost>>
    BY <1>1, TypesByChoice
  <2>2. ASSUME NEW n \in Notes PROVE Answered(n)' /\ MailsLeft(n)'
    BY <2>1, <2>2, MailsKept DEF Open, Trying
  <2> QED BY <2>1, <2>2, MailsFrame
<1> QED BY <1>1, MailsBySender, MailsByTask, MailsByReport, MailsByHandler, NotificationSteps

-----------------------------------------------------------------------------
(* The theorems *)

NotificationInv == NoticeTypeOK /\ OnceInv /\ MailsInv

LEMMA NotificationInit ==
  ASSUME NotificationsOK, NoticeInit
  PROVE  NotificationInv
<1>1. MaxRetries \in Nat /\ MaxCrashes \in Nat
  BY DEF NotificationsOK
<1>2. IdleSender \in SenderRow /\ IdleSender.pc = "idle"
  BY SenderIdle DEF IdleSender
<1>3. NoRow \in DeliveryRow /\ NoRow.channel = "none" /\ NoRow.msg = 0
  BY DEF NoRow, DeliveryRow, Statuses
<1>4. NoTask \in TaskRow /\ NoTask.pc = "none"
  BY <1>1 DEF NoTask, TaskRow
<1>5. SourceType
  BY <1>1, <1>2 DEF NoticeInit, SourceType
<1>6. DeliveryType
  BY <1>3, <1>4 DEF NoticeInit, DeliveryType
<1>7. ReportType
  <2>1. handler \in [Handlers -> HandlerRow] /\ \A h \in Handlers : handler[h].pc = "idle"
    BY HandlerIdle DEF NoticeInit
  <2>2. sent \in [Notes -> Nat] /\ reported = {} /\ events = {}
    BY DEF NoticeInit
  <2> QED BY <2>1, <2>2 DEF ReportType
<1>8. NoticeTypeOK
  BY <1>5, <1>6, <1>7, TypeParts
<1>9. \A s \in Senders : sender[s].pc = "idle"
  BY <1>2 DEF NoticeInit
<1>10. ASSUME NEW n \in Notes
       PROVE  /\ rows[n] = 0 /\ row[n].channel = "none" /\ row[n].msg = 0 /\ task[n].pc = "none"
              /\ mails[n] = 0 /\ sent[n] = 0 /\ Sending(n) = {}
  BY <1>3, <1>4, <1>9, <1>10 DEF NoticeInit, Sending
<1>11. OnceInv
  <2>1. ASSUME NEW n \in Notes PROVE Once(n)
    BY <1>10, <2>1 DEF Once
  <2> QED BY <1>9, <2>1 DEF OnceInv
<1>12. reported = {} /\ events = {} /\ lost = 0 /\ \A h \in Handlers : handler[h].pc = "idle"
  BY HandlerIdle DEF NoticeInit
<1>13. IsFiniteSet({}) /\ Cardinality({}) = 0
  BY FS_EmptySet
<1>14. ASSUME NEW n \in Notes PROVE Answered(n) /\ MailsLeft(n)
  <2>1. InHand(n) = {} /\ Failed(events, n) = {} /\ Failed(reported, n) = {}
    BY <1>12 DEF InHand, Failed
  <2>2. One(Open(n)) = 0 /\ One(Trying(n)) = 0
    BY <1>10, <1>14 DEF One, Open, Trying
  <2>3. mails[n] = 0 /\ Cardinality(InHand(n)) = 0 /\ Cardinality(Failed(events, n)) = 0
        /\ Cardinality(Failed(reported, n)) = 0
    BY <1>10, <1>13, <1>14, <2>1
  <2>4. MailsLeft(n)
    BY <1>12, <2>2, <2>3 DEF MailsLeft
  <2>5. Answered(n)
    BY <2>3 DEF Answered
  <2> QED BY <2>4, <2>5
<1>15. MailsInv
  BY <1>12, <1>13, <1>14 DEF MailsInv
<1> QED BY <1>8, <1>11, <1>15 DEF NotificationInv

LEMMA NotificationStutter ==
  ASSUME NotificationInv, UNCHANGED noticeVars
  PROVE  NotificationInv'
<1>1. UNCHANGED <<time, pref, suppressed, emitted, log, sender, rows, row, task, sent, fails, mails,
                  reported, events, handler, lost>>
  BY DEF noticeVars, choice, source, hook
<1>2. SourceType /\ DeliveryType /\ ReportType
  BY TypeParts DEF NotificationInv
<1>3. HandlerRow' = HandlerRow
  BY <1>1 DEF HandlerRow
<1>4. SourceType' /\ DeliveryType' /\ ReportType'
  BY <1>1, <1>2, <1>3 DEF SourceType, DeliveryType, ReportType
<1>5. NoticeTypeOK'
  BY <1>4, TypePartsNext
<1>6. ASSUME NEW n \in Notes PROVE Once(n)' = Once(n)
  BY <1>1 DEF Once, Sending
<1>7. OnceInv'
  BY <1>1, <1>6 DEF NotificationInv, OnceInv
<1>8. ASSUME NEW n \in Notes PROVE Answered(n)' = Answered(n) /\ MailsLeft(n)' = MailsLeft(n)
  BY <1>1 DEF Answered, MailsLeft, InHand, Failed, Open, Trying
<1>9. MailsInv'
  BY <1>1, <1>8 DEF NotificationInv, MailsInv
<1> QED BY <1>5, <1>7, <1>9 DEF NotificationInv

\* The invariant behind the three theorems below.
THEOREM NotificationInvariant == NoticeSpec => []NotificationInv
<1>1. NoticeInit => NotificationInv
  BY NotificationInit, NotificationsAssumption
<1>2. NotificationInv /\ [NoticeNext]_noticeVars => NotificationInv'
  BY NotificationTypes, OnceStep, MailsStep, NotificationStutter,
     NotificationsAssumption DEF NotificationInv
<1> QED BY <1>1, <1>2, PTL DEF NoticeSpec

\* For any number of runs of the hourly job, overlapping, crashing and repeated,
\* a reminder is recorded once at most for its dedup key (reminders._try_log).
THEOREM RemindedOnceHolds == NoticeSpec => []RemindedOnce
<1>1. NotificationInv => RemindedOnce
  BY DEF NotificationInv, OnceInv, Once, RemindedOnce, Notes
<1> QED BY <1>1, NotificationInvariant, PTL

\* However the callbacks of a message interleave with each other and with its
\* task, a WhatsApp notification is mailed for failures the provider reported
\* only, one e-mail for each at most (_handle_status, fallback_delivery_to_email).
THEOREM MailedOnlyAfterFailureHolds == NoticeSpec => []MailedOnlyAfterFailure
<1>1. ASSUME NotificationInv PROVE MailedOnlyAfterFailure
  <2>1. ASSUME NEW n \in Notes, row[n].channel = "whatsapp"
        PROVE  mails[n] <= Cardinality({e \in reported : e.note = n /\ e.status = "failed"})
    <3>1. Answered(n) /\ Cardinality(InHand(n)) \in Nat /\ Cardinality(Failed(events, n)) \in Nat
          /\ Cardinality(Failed(reported, n)) \in Nat /\ mails[n] \in Nat
      BY <1>1, <2>1, FiniteCounts, NotificationsAssumption DEF NotificationInv, MailsInv
    <3>2. mails[n] <= Cardinality(Failed(reported, n))
      BY <2>1, <3>1 DEF Answered
    <3> QED BY <3>2 DEF Failed
  <2> QED BY <2>1 DEF MailedOnlyAfterFailure
<1> QED BY <1>1, NotificationInvariant, PTL

\* For any number of callbacks, workers and retries, at most one e-mail goes out
\* per notification, and one more for each process that was lost.
THEOREM FallbackAtMostOnceHolds == NoticeSpec => []FallbackAtMostOnce
<1>1. ASSUME NotificationInv PROVE FallbackAtMostOnce
  <2>1. ASSUME NEW n \in Notes PROVE mails[n] <= 1 + lost
    <3>1. MailsLeft(n) /\ Cardinality(InHand(n)) \in Nat /\ mails[n] \in Nat /\ lost \in Nat
      BY <1>1, <2>1, FiniteCounts, NotificationsAssumption DEF NotificationInv, MailsInv
    <3>2. One(Open(n)) \in {0, 1} /\ One(Trying(n)) \in {0, 1}
      BY DEF One
    <3> QED BY <3>1, <3>2 DEF MailsLeft
  <2> QED BY <2>1 DEF FallbackAtMostOnce
<1> QED BY <1>1, NotificationInvariant, PTL
=============================================================================
