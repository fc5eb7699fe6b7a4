----------------------------- MODULE CartProofs -----------------------------
(***************************************************************************)
(* TLAPS proofs about Cart, for any plans, prices, requests and bounds.    *)
(*                                                                         *)
(* TabClaim(t) is what the request in tab t relies on between its          *)
(* transactions: which guest lines are still to be moved, that a snapshot  *)
(* is of the customer's lines, that the COMPLETED checkout it created has  *)
(* no order yet, that every line that waits for the seller is on its list. *)
(***************************************************************************)
EXTENDS Cart, AggregatesProofs, SequenceTheorems

\* An order belongs to a line and to a checkout; without one it is a blank.
OrdersInv ==
  \A i \in Pks :
    IF order[i].status = "absent" THEN order[i].checkout = 0
    ELSE i \in DOMAIN lines /\ order[i].checkout \in DOMAIN checkouts

\* Only a gateway checkout is short of money.
ShortInv == \A c \in DOMAIN checkouts : checkouts[c].short > 0 => checkouts[c].path = "gateway"

\* Lines the merge has not reached, and their durations.
MergeClaim(t) ==
  tab[t].pc = "merge" =>
    /\ user /\ tab[t].todo \subseteq DOMAIN lines
    /\ \A i \in tab[t].todo : tab[t].snap[i] # 0
    /\ \A i \in live : lines[i].cart = "guest" =>
         i \in tab[t].todo \cup late \/ Arrived(lines[i].plan)

\* Lines that are checked out.
SnapClaim(t) ==
  tab[t].pc \in {"none", "gateway", "qris_static", "pay", "fund"} =>
    \A i \in Picked(t) : i \in DOMAIN lines /\ lines[i].cart = "customer"

\* The checkout on the wallet path.
PayClaim(t) ==
  LET c == tab[t].checkout IN
  tab[t].pc = "pay" =>
    /\ c \in DOMAIN checkouts /\ checkouts[c].path = "wallet"
    /\ checkouts[c].wanted = Picked(t) /\ OrdersOf(c) = {}

\* The loop over the pending orders.
LoopClaim(t) ==
  LET c == tab[t].checkout IN
  tab[t].pc \in {"complete", "confirm", "reject"} =>
    /\ c \in DOMAIN checkouts
    /\ checkouts[c].path = IF tab[t].pc = "complete" THEN "gateway" ELSE "qris"
    /\ tab[t].todo \subseteq OrdersOf(c)
    /\ tab[t].pc # "complete" => Pending(c) \subseteq tab[t].todo

TabClaim(t) == MergeClaim(t) /\ SnapClaim(t) /\ PayClaim(t) /\ LoopClaim(t)

\* No two requests pay into one checkout.
Apart ==
  \A t, u \in Tabs : t # u /\ tab[t].pc = "pay" /\ tab[u].pc = "pay"
                       => tab[t].checkout # tab[u].checkout

IInv == /\ TypeOK /\ OrdersInv /\ ShortInv /\ (\A t \in Tabs : TabClaim(t)) /\ Apart
        /\ NoLineLost /\ BooksBalance /\ AllOrNothing /\ CompletedIsDecided

-----------------------------------------------------------------------------
(* Shapes *)

\* Lines and checkouts are numbered from 1; every line has an order to be.
LEMMA Shape ==
  ASSUME TypeOK
  PROVE  /\ Len(lines) \in Nat /\ DOMAIN lines = 1 .. Len(lines) /\ DOMAIN lines \subseteq Pks
         /\ lines \in [1 .. Len(lines) -> LineRow]
         /\ Len(checkouts) \in Nat /\ DOMAIN checkouts = 1 .. Len(checkouts)
         /\ checkouts \in [1 .. Len(checkouts) -> CheckoutRow]
         /\ IsFiniteSet(Pks)
<1>1. /\ Len(lines) \in Nat /\ DOMAIN lines = 1 .. Len(lines)
      /\ lines \in [1 .. Len(lines) -> LineRow]
      /\ Len(checkouts) \in Nat /\ DOMAIN checkouts = 1 .. Len(checkouts)
      /\ checkouts \in [1 .. Len(checkouts) -> CheckoutRow]
  BY LenProperties DEF TypeOK
<1>2. DOMAIN lines \subseteq Pks
  BY <1>1, CartAssumption DEF TypeOK, Pks
<1>3. IsFiniteSet(Pks)
  BY CartAssumption, FS_Interval DEF Pks
<1> QED BY <1>1, <1>2, <1>3

Points == {"idle", "guest", "merge", "none", "gateway", "qris_static", "pay", "fund",
           "complete", "confirm", "reject"}

\* What a request is at.
LEMMA AtForm ==
  ASSUME NEW pc \in Points, NEW snap \in [Pks -> Nat], NEW todo \in SUBSET Pks, NEW c \in Nat
  PROVE  /\ At(pc, snap, todo, c) \in TabRow /\ At(pc, snap, todo, c).pc = pc
         /\ At(pc, snap, todo, c).snap = snap /\ At(pc, snap, todo, c).todo = todo
         /\ At(pc, snap, todo, c).checkout = c
BY DEF At, TabRow, Points

\* The request in tab t goes on, the others stay where they are.
LEMMA GotoForm ==
  ASSUME TypeOK, NEW t \in Tabs, NEW pc \in Points, NEW snap \in [Pks -> Nat],
         NEW todo \in SUBSET Pks, NEW c \in Nat, Goto(t, At(pc, snap, todo, c))
  PROVE  /\ tab' \in [Tabs -> TabRow] /\ tab'[t].pc = pc /\ tab'[t].snap = snap
         /\ tab'[t].todo = todo /\ tab'[t].checkout = c
         /\ \A u \in Tabs \ {t} : tab'[u] = tab[u]
<1> DEFINE new == At(pc, snap, todo, c)
<1>1. new \in TabRow /\ new.pc = pc /\ new.snap = snap /\ new.todo = todo /\ new.checkout = c
  BY AtForm
<1>2. tab' = [tab EXCEPT ![t] = new]
  BY DEF Goto
<1> HIDE DEF new
<1> QED BY <1>1, <1>2 DEF TypeOK

\* The request ends.
LEMMA LeaveForm ==
  ASSUME TypeOK, NEW t \in Tabs, Leave(t)
  PROVE  /\ tab' \in [Tabs -> TabRow] /\ tab'[t].pc = "idle"
         /\ \A u \in Tabs \ {t} : tab'[u] = tab[u]
         /\ TabClaim(t)'
<1> DEFINE idle == "idle"
           none == {}
           zero == 0
<1>1. idle \in Points /\ NoSnap \in [Pks -> Nat] /\ none \in SUBSET Pks /\ zero \in Nat
      /\ Goto(t, At(idle, NoSnap, none, zero)) /\ idle = "idle"
  BY DEF Points, NoSnap, Leave, Idle
<1> HIDE DEF idle, none, zero
<1>2. tab' \in [Tabs -> TabRow] /\ tab'[t].pc = "idle" /\ \A u \in Tabs \ {t} : tab'[u] = tab[u]
  BY <1>1, GotoForm
<1>3. TabClaim(t)'
  BY <1>2 DEF TabClaim, MergeClaim, SnapClaim, PayClaim, LoopClaim
<1> QED BY <1>2, <1>3

-----------------------------------------------------------------------------
(* What a step leaves to the other requests *)

\* Lines stay what they are, but for their duration; checkouts keep their
\* path and their lines.
LinesGrow ==
  /\ DOMAIN lines \subseteq DOMAIN lines'
  /\ \A i \in DOMAIN lines : lines'[i].cart = lines[i].cart /\ lines'[i].plan = lines[i].plan

CheckoutsGrow ==
  /\ DOMAIN checkouts \subseteq DOMAIN checkouts'
  /\ \A c \in DOMAIN checkouts :
       checkouts'[c].path = checkouts[c].path /\ checkouts'[c].wanted = checkouts[c].wanted

\* While a merge is under way, a line that joins the guest cart is late.
GuestLinesGrow ==
  /\ late \subseteq late' /\ (user => user')
  /\ Merging => \A i \in live' : lines'[i].cart = "guest" => i \in live \cup late'

Frame(U) ==
  /\ \A u \in U : tab'[u] = tab[u] /\ (tab[u].pc = "pay" => OrdersOf(tab[u].checkout)' = {})
  /\ LinesGrow /\ CheckoutsGrow /\ GuestLinesGrow
  /\ \A c \in DOMAIN checkouts :
       /\ OrdersOf(c) \subseteq OrdersOf(c)'
       /\ checkouts[c].path = "qris" => Pending(c)' \subseteq Pending(c)

\* A plan that arrived has arrived for good.
LEMMA ArrivedStays ==
  ASSUME LinesGrow, NEW p, Arrived(p) PROVE Arrived(p)'
BY DEF LinesGrow, Arrived

\* They keep what they rely on.
LEMMA OthersKeep ==
  ASSUME IInv, NEW U \in SUBSET Tabs, Frame(U), NEW u \in U
  PROVE  TabClaim(u)'
<1>0. TypeOK /\ TabClaim(u) /\ live \subseteq DOMAIN lines
  BY DEF IInv, TypeOK
<1>1. tab'[u] = tab[u] /\ LinesGrow /\ CheckoutsGrow
  BY DEF Frame, GuestLinesGrow
<1>2. MergeClaim(u)'
  <2> SUFFICES ASSUME tab[u].pc = "merge"
               PROVE  /\ user' /\ tab[u].todo \subseteq DOMAIN lines'
                      /\ \A i \in tab[u].todo : tab[u].snap[i] # 0
                      /\ \A i \in live' : lines'[i].cart = "guest" =>
                           i \in tab[u].todo \cup late' \/ Arrived(lines[i].plan)'
    BY <1>1 DEF MergeClaim, Arrived
  <2>1. /\ user /\ tab[u].todo \subseteq DOMAIN lines
        /\ \A i \in tab[u].todo : tab[u].snap[i] # 0
        /\ \A i \in live : lines[i].cart = "guest" =>
             i \in tab[u].todo \cup late \/ Arrived(lines[i].plan)
    BY <1>0 DEF TabClaim, MergeClaim
  <2>2. /\ user' /\ late \subseteq late'
        /\ \A i \in live' : lines'[i].cart = "guest" => i \in live \cup late'
    BY <2>1 DEF Frame, GuestLinesGrow, Merging
  <2>3. ASSUME NEW i \in live', lines'[i].cart = "guest", i \notin tab[u].todo \cup late'
        PROVE  Arrived(lines[i].plan)'
    <3>1. i \in live /\ lines'[i].cart = lines[i].cart /\ lines'[i].plan = lines[i].plan
      BY <1>0, <1>1, <2>2, <2>3 DEF LinesGrow
    <3>2. Arrived(lines[i].plan)
      BY <2>1, <2>2, <2>3, <3>1
    <3> QED BY <1>1, <3>1, <3>2 DEF LinesGrow, Arrived
  <2> QED BY <1>1, <2>1, <2>2, <2>3 DEF LinesGrow
<1>3. SnapClaim(u)'
  BY <1>0, <1>1 DEF TabClaim, SnapClaim, Picked, LinesGrow
<1>4. PayClaim(u)'
  BY <1>0, <1>1 DEF TabClaim, PayClaim, Picked, CheckoutsGrow, Frame
<1>5. LoopClaim(u)'
  <2> SUFFICES ASSUME tab[u].pc \in {"complete", "confirm", "reject"} PROVE LoopClaim(u)'
    BY <1>1 DEF LoopClaim
  <2> DEFINE c == tab[u].checkout
  <2>1. /\ c \in DOMAIN checkouts
        /\ checkouts[c].path = IF tab[u].pc = "complete" THEN "gateway" ELSE "qris"
        /\ tab[u].todo \subseteq OrdersOf(c)
        /\ tab[u].pc # "complete" => Pending(c) \subseteq tab[u].todo
    BY <1>0 DEF TabClaim, LoopClaim
  <2>2. /\ c \in DOMAIN checkouts' /\ checkouts'[c].path = checkouts[c].path
        /\ OrdersOf(c) \subseteq OrdersOf(c)'
        /\ checkouts[c].path = "qris" => Pending(c)' \subseteq Pending(c)
    BY <1>1, <2>1 DEF CheckoutsGrow, Frame
  <2> QED BY <1>1, <2>1, <2>2 DEF LoopClaim
<1> QED BY <1>2, <1>3, <1>4, <1>5 DEF TabClaim

\* A step that changes neither orders, checkouts nor money keeps their books.
LEMMA SameBooks ==
  ASSUME IInv, UNCHANGED <<order, checkouts, balance, credited>>
  PROVE  /\ ShortInv' /\ BooksBalance' /\ AllOrNothing' /\ CompletedIsDecided'
         /\ CheckoutsGrow /\ \A c : OrdersOf(c)' = OrdersOf(c) /\ Pending(c)' = Pending(c)
<1>1. /\ Amounts' = Amounts /\ PaidFromWallet' = PaidFromWallet
      /\ \A c : OrdersOf(c)' = OrdersOf(c) /\ Pending(c)' = Pending(c)
  BY DEF Amounts, PaidFromWallet, OrdersOf, Pending
<1>2. ShortInv' /\ BooksBalance' /\ AllOrNothing' /\ CompletedIsDecided'
  BY <1>1 DEF IInv, ShortInv, BooksBalance, AllOrNothing, CompletedIsDecided
<1> QED BY <1>1, <1>2 DEF CheckoutsGrow

-----------------------------------------------------------------------------
(* A step of one request *)

\* The others, and the invariant, after a step of the request in tab t.
LEMMA TabStep ==
  ASSUME IInv, NEW t \in Tabs, TypeOK', OrdersInv', ShortInv', Frame(Tabs \ {t}), TabClaim(t)',
         \A u \in Tabs \ {t} : tab'[t].pc = "pay" /\ tab[u].pc = "pay"
                                => tab'[t].checkout # tab[u].checkout,
         NoLineLost', BooksBalance', AllOrNothing', CompletedIsDecided'
  PROVE  IInv'
<1> DEFINE U == Tabs \ {t}
<1>1. U \in SUBSET Tabs /\ Frame(U) /\ \A u \in Tabs : u = t \/ u \in U
  OBVIOUS
<1>2. \A u \in U : tab'[u] = tab[u]
  BY <1>1 DEF Frame, GuestLinesGrow
<1> HIDE DEF U
<1>3. \A u \in U : TabClaim(u)'
  BY <1>1, OthersKeep
<1>4. \A u \in Tabs : TabClaim(u)'
  BY <1>1, <1>3
<1>5. Apart'
  BY <1>1, <1>2 DEF Apart, IInv
<1> QED BY <1>4, <1>5 DEF IInv

\* A step of tab t that changes the cart, not the orders and the money.
LEMMA MergeStep ==
  ASSUME IInv, NEW t \in Tabs, UNCHANGED <<order, checkouts, balance, credited>>,
         lines' \in Seq(LineRow), Len(lines') <= MaxLines,
         live' \subseteq DOMAIN lines', removed' \subseteq DOMAIN lines',
         late' \subseteq DOMAIN lines', guest' \in BOOLEAN, user' \in BOOLEAN,
         LinesGrow, GuestLinesGrow, NoLineLost',
         tab' \in [Tabs -> TabRow], \A u \in Tabs \ {t} : tab'[u] = tab[u],
         TabClaim(t)', tab'[t].pc # "pay"
  PROVE  IInv'
<1>0. TypeOK /\ OrdersInv /\ (\A u \in Tabs : TabClaim(u))
  BY DEF IInv
<1>1. /\ ShortInv' /\ BooksBalance' /\ AllOrNothing' /\ CompletedIsDecided'
      /\ CheckoutsGrow /\ \A c : OrdersOf(c)' = OrdersOf(c) /\ Pending(c)' = Pending(c)
  BY SameBooks
<1>2. TypeOK' /\ OrdersInv'
  BY <1>0 DEF TypeOK, OrdersInv, LinesGrow
<1>3. Frame(Tabs \ {t})
  <2>1. \A u \in Tabs : tab[u].pc = "pay" => OrdersOf(tab[u].checkout) = {}
    BY <1>0 DEF TabClaim, PayClaim
  <2> QED BY <1>1, <2>1 DEF Frame, GuestLinesGrow
<1> QED BY <1>1, <1>2, <1>3, TabStep

-----------------------------------------------------------------------------
(* Editing the cart *)

\* A step that only edits the cart.
LEMMA CartStep ==
  ASSUME IInv, UNCHANGED <<order, checkouts, balance, credited, tab>>,
         lines' \in Seq(LineRow), Len(lines') <= MaxLines,
         live' \subseteq DOMAIN lines', removed' \subseteq DOMAIN lines',
         late' \subseteq DOMAIN lines', guest' \in BOOLEAN, user' \in BOOLEAN,
         LinesGrow, GuestLinesGrow, NoLineLost'
  PROVE  IInv'
<1>0. TypeOK /\ OrdersInv /\ (\A t \in Tabs : TabClaim(t)) /\ Apart
  BY DEF IInv
<1>1. TypeOK'
  BY <1>0 DEF TypeOK
<1>2. /\ ShortInv' /\ BooksBalance' /\ AllOrNothing' /\ CompletedIsDecided'
      /\ CheckoutsGrow /\ \A c : OrdersOf(c)' = OrdersOf(c) /\ Pending(c)' = Pending(c)
  BY SameBooks
<1>3. Frame(Tabs)
  <2>1. \A u \in Tabs : tab[u].pc = "pay" => OrdersOf(tab[u].checkout) = {}
    BY <1>0 DEF TabClaim, PayClaim
  <2> QED BY <1>2, <2>1 DEF Frame, GuestLinesGrow
<1>4. \A t \in Tabs : TabClaim(t)'
  BY <1>3, OthersKeep
<1>5. OrdersInv' /\ Apart'
  BY <1>0 DEF OrdersInv, Apart, LinesGrow
<1> QED BY <1>1, <1>2, <1>4, <1>5 DEF IInv

\* A new line.
LEMMA AppendLine ==
  ASSUME IInv, NEW new \in LineRow, Len(lines) < MaxLines,
         lines' = Append(lines, new), live' = live \cup {Len(lines) + 1},
         late \subseteq late', late' \subseteq late \cup {Len(lines) + 1},
         UNCHANGED <<removed, order>>
  PROVE  /\ lines' \in Seq(LineRow) /\ Len(lines') <= MaxLines
         /\ live' \subseteq DOMAIN lines' /\ removed' \subseteq DOMAIN lines'
         /\ late' \subseteq DOMAIN lines' /\ LinesGrow /\ NoLineLost'
         /\ lines'[Len(lines) + 1] = new /\ Len(lines) + 1 \in DOMAIN lines'
         /\ Len(lines) + 1 \notin DOMAIN lines
<1>0. TypeOK /\ OrdersInv /\ NoLineLost
  BY DEF IInv
<1> DEFINE n == Len(lines)
<1>1. n \in Nat /\ DOMAIN lines = 1 .. n /\ n + 1 \in Pks /\ MaxLines \in Nat
  BY <1>0, Shape, CartAssumption DEF Pks
<1>2. /\ lines' \in Seq(LineRow) /\ Len(lines') = n + 1 /\ lines'[n + 1] = new
      /\ \A i \in 1 .. n : lines'[i] = lines[i]
  BY <1>0, AppendProperties DEF TypeOK
<1>3. DOMAIN lines' = 1 .. n + 1
  BY <1>2, LenProperties
<1> HIDE DEF n
<1>4. /\ n + 1 \notin 1 .. n /\ n + 1 \in 1 .. n + 1 /\ 1 .. n \subseteq 1 .. n + 1
      /\ \A i \in 1 .. n + 1 : i = n + 1 \/ i \in 1 .. n
  BY <1>1
<1>5. live \subseteq 1 .. n /\ removed \subseteq 1 .. n /\ late \subseteq 1 .. n
  BY <1>0, <1>1 DEF TypeOK
<1>6. LinesGrow
  BY <1>1, <1>2, <1>3, <1>4 DEF LinesGrow
<1>7. live' = live \cup {n + 1} /\ late \subseteq late' /\ late' \subseteq late \cup {n + 1}
  BY DEF n
<1>8. NoLineLost'
  <2> SUFFICES ASSUME NEW i \in 1 .. n + 1
               PROVE  IF lines'[i].cart = "customer"
                      THEN i \in live' <=> i \notin removed /\ order[i].status = "absent"
                      ELSE i \in live' \cup removed \cup late' \/ Arrived(lines[i].plan)'
    BY <1>3 DEF NoLineLost
  <2>1. CASE i = n + 1
    <3>1. order[i].status = "absent"
      BY <1>0, <1>1, <1>4, <2>1 DEF OrdersInv
    <3> QED BY <1>4, <1>5, <1>7, <2>1, <3>1
  <2>2. CASE i \in 1 .. n
    <3>1. IF lines[i].cart = "customer"
          THEN i \in live <=> i \notin removed /\ order[i].status = "absent"
          ELSE i \in live \cup removed \cup late \/ Arrived(lines[i].plan)
      BY <1>0, <1>1, <2>2 DEF NoLineLost
    <3>2. lines'[i] = lines[i] /\ i # n + 1
      BY <1>2, <1>4, <2>2
    <3>3. Arrived(lines[i].plan) => Arrived(lines[i].plan)'
      BY <1>6, <3>2 DEF Arrived, LinesGrow
    <3> QED BY <1>7, <3>1, <3>2, <3>3
  <2> QED BY <1>4, <2>1, <2>2
<1>9. Len(lines') <= MaxLines
  BY <1>1, <1>2 DEF n
<1> QED BY <1>1, <1>2, <1>3, <1>4, <1>5, <1>6, <1>7, <1>8, <1>9 DEF n

\* Lines of which only the duration changes.
LEMMA SameLines ==
  ASSUME IInv, lines' \in [DOMAIN lines -> LineRow], UNCHANGED <<live, removed, late, order>>,
         \A i \in DOMAIN lines : lines'[i].cart = lines[i].cart /\ lines'[i].plan = lines[i].plan
  PROVE  /\ lines' \in Seq(LineRow) /\ Len(lines') <= MaxLines
         /\ live' \subseteq DOMAIN lines' /\ removed' \subseteq DOMAIN lines'
         /\ late' \subseteq DOMAIN lines' /\ LinesGrow /\ NoLineLost'
<1>0. TypeOK /\ NoLineLost
  BY DEF IInv
<1>1. Len(lines) \in Nat /\ DOMAIN lines = 1 .. Len(lines)
  BY <1>0, Shape
<1>2. lines' \in Seq(LineRow) /\ DOMAIN lines' = DOMAIN lines
  BY <1>1, SeqDef
<1>3. Len(lines') = Len(lines)
  BY <1>1, <1>2, LenProperties
<1>4. LinesGrow
  BY <1>2 DEF LinesGrow
<1>5. NoLineLost'
  <2> SUFFICES ASSUME NEW i \in DOMAIN lines
               PROVE  IF lines'[i].cart = "customer"
                      THEN i \in live <=> i \notin removed /\ order[i].status = "absent"
                      ELSE i \in live \cup removed \cup late \/ Arrived(lines[i].plan)'
    BY <1>2 DEF NoLineLost
  <2>1. IF lines[i].cart = "customer"
        THEN i \in live <=> i \notin removed /\ order[i].status = "absent"
        ELSE i \in live \cup removed \cup late \/ Arrived(lines[i].plan)
    BY <1>0 DEF NoLineLost
  <2>2. lines'[i].cart = lines[i].cart /\ (Arrived(lines[i].plan) => Arrived(lines[i].plan)')
    BY <1>4 DEF Arrived, LinesGrow
  <2> QED BY <2>1, <2>2
<1> QED BY <1>0, <1>2, <1>3, <1>4, <1>5 DEF TypeOK

\* A request edits the cart it resolved: a guest's request ends with that.
LEMMA ResolvedStep ==
  ASSUME IInv, NEW c, Resolved(c), UNCHANGED <<order, checkouts, balance, credited>>,
         lines' \in Seq(LineRow), Len(lines') <= MaxLines,
         live' \subseteq DOMAIN lines', removed' \subseteq DOMAIN lines',
         late' \subseteq DOMAIN lines', UNCHANGED <<guest, user>>,
         LinesGrow, GuestLinesGrow, NoLineLost'
  PROVE  IInv'
<1>0. TypeOK
  BY DEF IInv
<1>1. guest' \in BOOLEAN /\ user' \in BOOLEAN
  BY <1>0 DEF TypeOK
<1>2. CASE UNCHANGED tab
  BY <1>1, <1>2, CartStep
<1>3. CASE \E t \in Tabs : Leave(t)
  <2>1. PICK t \in Tabs : Leave(t)
    BY <1>3
  <2>2. /\ tab' \in [Tabs -> TabRow] /\ tab'[t].pc = "idle" /\ TabClaim(t)'
        /\ \A u \in Tabs \ {t} : tab'[u] = tab[u]
    BY <1>0, <2>1, LeaveForm
  <2> QED BY <1>1, <2>2, MergeStep
<1> QED BY <1>2, <1>3 DEF Resolved

\* cart_add, the quantity form and removal.
LEMMA EditSteps ==
  ASSUME IInv, NEW c \in {"guest", "customer"},
         \/ \E p \in Plans, d \in Durations : add_to_cart(c, p, d)
         \/ \E i \in live : \/ remove_from_cart(c, i)
                           \/ \E d \in Durations : update_cart_item(c, i, d)
  PROVE  IInv'
<1>0. TypeOK /\ NoLineLost
  BY DEF IInv
<1>1. /\ Len(lines) \in Nat /\ DOMAIN lines = 1 .. Len(lines)
      /\ lines \in [1 .. Len(lines) -> LineRow]
  BY <1>0, Shape
<1>3. \A d \in Durations : Clamped(d) \in Nat \ {0}
  BY CartAssumption DEF Clamped
<1>4. live \subseteq DOMAIN lines /\ removed \subseteq DOMAIN lines /\ late \subseteq DOMAIN lines
  BY <1>0 DEF TypeOK
<1>5. ASSUME NEW p \in Plans, NEW d \in Durations, add_to_cart(c, p, d) PROVE IInv'
  <2> DEFINE new == NewLine(c, p, Clamped(d))
  <2>1. new \in LineRow /\ new.cart = c /\ new.plan = p
    BY <1>3 DEF NewLine, LineRow
  <2>2. Resolved(c) /\ UNCHANGED <<removed, guest, user, order, checkouts, balance, credited>>
    BY <1>5 DEF add_to_cart
  <2> HIDE DEF new
  <2>3. CASE /\ Len(lines) < MaxLines /\ lines' = Append(lines, new)
             /\ live' = live \cup {Len(lines) + 1}
             /\ late' = late \cup {i \in {Len(lines) + 1} : c = "guest" /\ Merging}
    <3>1. late \subseteq late' /\ late' \subseteq late \cup {Len(lines) + 1}
      BY <2>3
    <3>2. /\ lines' \in Seq(LineRow) /\ Len(lines') <= MaxLines
          /\ live' \subseteq DOMAIN lines' /\ removed' \subseteq DOMAIN lines'
          /\ late' \subseteq DOMAIN lines'
          /\ LinesGrow /\ NoLineLost' /\ lines'[Len(lines) + 1] = new
      BY <2>1, <2>2, <2>3, <3>1, AppendLine
    <3>3. ASSUME Merging, NEW i \in live', lines'[i].cart = "guest" PROVE i \in live \cup late'
      BY <2>1, <2>3, <3>2, <3>3
    <3>4. GuestLinesGrow
      BY <2>2, <3>1, <3>3 DEF GuestLinesGrow
    <3> QED BY <2>2, <3>2, <3>4, ResolvedStep
  <2>4. CASE /\ lines' = [i \in DOMAIN lines |-> IF i \in LineOf(c, p) THEN new ELSE lines[i]]
             /\ UNCHANGED <<live, late>>
    <3>1. \A i \in LineOf(c, p) : lines[i].cart = c /\ lines[i].plan = p
      BY DEF LineOf
    <3>2. lines' \in [DOMAIN lines -> LineRow]
      BY <1>1, <2>1, <2>4
    <3>3. \A i \in DOMAIN lines : lines'[i].cart = lines[i].cart /\ lines'[i].plan = lines[i].plan
      BY <2>1, <2>4, <3>1
    <3>4. /\ lines' \in Seq(LineRow) /\ Len(lines') <= MaxLines
          /\ live' \subseteq DOMAIN lines' /\ removed' \subseteq DOMAIN lines'
          /\ late' \subseteq DOMAIN lines' /\ LinesGrow /\ NoLineLost'
      BY <2>2, <2>4, <3>2, <3>3, SameLines
    <3>5. GuestLinesGrow
      BY <2>2, <2>4 DEF GuestLinesGrow
    <3> QED BY <2>2, <3>4, <3>5, ResolvedStep
  <2> QED BY <1>5, <2>3, <2>4 DEF add_to_cart, new
<1>6. ASSUME NEW i \in live, remove_from_cart(c, i) PROVE IInv'
  <2>1. /\ live' = live \ {i} /\ removed' = removed \cup {i} /\ Resolved(c)
        /\ UNCHANGED <<lines, late, guest, user, order, checkouts, balance, credited>>
    BY <1>6 DEF remove_from_cart
  <2>2. LinesGrow /\ GuestLinesGrow
    BY <2>1 DEF LinesGrow, GuestLinesGrow
  <2>3. NoLineLost'
    <3> SUFFICES ASSUME NEW x \in DOMAIN lines
                 PROVE  IF lines[x].cart = "customer"
                        THEN x \in live' <=> x \notin removed' /\ order[x].status = "absent"
                        ELSE x \in live' \cup removed' \cup late \/ Arrived(lines[x].plan)
      BY <2>1 DEF NoLineLost, Arrived
    <3>1. IF lines[x].cart = "customer"
          THEN x \in live <=> x \notin removed /\ order[x].status = "absent"
          ELSE x \in live \cup removed \cup late \/ Arrived(lines[x].plan)
      BY <1>0 DEF NoLineLost
    <3> QED BY <2>1, <3>1
  <2>4. live' \subseteq DOMAIN lines' /\ removed' \subseteq DOMAIN lines'
    BY <1>4, <2>1
  <2> QED BY <1>0, <1>4, <2>1, <2>2, <2>3, <2>4, ResolvedStep DEF TypeOK
<1>7. ASSUME NEW i \in live, NEW d \in Durations, update_cart_item(c, i, d) PROVE IInv'
  <2> DEFINE duration == Clamped(d)
  <2>1. /\ lines' = [lines EXCEPT ![i].duration = duration] /\ duration \in Nat \ {0}
        /\ Resolved(c)
        /\ UNCHANGED <<live, removed, late, guest, user, order, checkouts, balance, credited>>
    BY <1>3, <1>7 DEF update_cart_item
  <2> HIDE DEF duration
  <2>2. /\ lines' \in [DOMAIN lines -> LineRow]
        /\ \A x \in DOMAIN lines : lines'[x].cart = lines[x].cart /\ lines'[x].plan = lines[x].plan
    BY <1>1, <1>4, <2>1 DEF LineRow
  <2>3. /\ lines' \in Seq(LineRow) /\ Len(lines') <= MaxLines
        /\ live' \subseteq DOMAIN lines' /\ removed' \subseteq DOMAIN lines'
        /\ late' \subseteq DOMAIN lines' /\ LinesGrow /\ NoLineLost'
    BY <2>1, <2>2, SameLines
  <2>4. GuestLinesGrow
    BY <2>1 DEF GuestLinesGrow
  <2> QED BY <2>1, <2>3, <2>4, ResolvedStep
<1> QED BY <1>5, <1>6, <1>7

\* Login.
LEMMA LoginStep ==
  ASSUME IInv, Login PROVE IInv'
<1>0. TypeOK /\ NoLineLost
  BY DEF IInv
<1>1. /\ user' = TRUE
      /\ UNCHANGED <<lines, live, removed, late, guest, order, checkouts, balance, credited, tab>>
  BY DEF Login
<1>2. LinesGrow /\ GuestLinesGrow /\ NoLineLost'
  BY <1>0, <1>1 DEF LinesGrow, GuestLinesGrow, NoLineLost, Arrived
<1> QED BY <1>0, <1>1, <1>2, CartStep DEF TypeOK

-----------------------------------------------------------------------------
(* Steps that only move the request *)

\* A step that only moves the request, to a point where it pays nothing.
LEMMA TabOnly ==
  ASSUME IInv, NEW t \in Tabs, UNCHANGED <<cart, order, checkouts, balance, credited>>,
         tab' \in [Tabs -> TabRow], \A u \in Tabs \ {t} : tab'[u] = tab[u],
         TabClaim(t)', tab'[t].pc # "pay"
  PROVE  IInv'
<1>0. TypeOK /\ OrdersInv /\ NoLineLost /\ (\A u \in Tabs : TabClaim(u))
  BY DEF IInv
<1>1. /\ ShortInv' /\ BooksBalance' /\ AllOrNothing' /\ CompletedIsDecided'
      /\ CheckoutsGrow /\ \A c : OrdersOf(c)' = OrdersOf(c) /\ Pending(c)' = Pending(c)
  BY SameBooks
<1>2. UNCHANGED <<lines, live, removed, late, guest, user>>
  BY DEF cart
<1>3. TypeOK' /\ OrdersInv' /\ NoLineLost' /\ LinesGrow
  BY <1>0, <1>2 DEF TypeOK, OrdersInv, NoLineLost, Arrived, LinesGrow
<1>4. Frame(Tabs \ {t})
  <2>1. \A u \in Tabs : tab[u].pc = "pay" => OrdersOf(tab[u].checkout) = {}
    BY <1>0 DEF TabClaim, PayClaim
  <2> QED BY <1>1, <1>2, <1>3, <2>1 DEF Frame, GuestLinesGrow
<1> QED BY <1>1, <1>3, <1>4, TabStep

\* The request ends without having done anything.
LEMMA LeaveStep ==
  ASSUME IInv, NEW t \in Tabs, UNCHANGED <<cart, order, checkouts, balance, credited>>, Leave(t)
  PROVE  IInv'
<1>1. TypeOK
  BY DEF IInv
<1>2. /\ tab' \in [Tabs -> TabRow] /\ tab'[t].pc = "idle" /\ TabClaim(t)'
      /\ \A u \in Tabs \ {t} : tab'[u] = tab[u]
  BY <1>1, LeaveForm
<1> QED BY <1>2, TabOnly

\* Failures: rolled back, or the process died.
LEMMA FailSteps ==
  ASSUME IInv, NEW t \in Tabs, RollBack(t) \/ Crash(t) PROVE IInv'
BY LeaveStep DEF RollBack, Crash

\* A price is a number.
LEMMA LinePriceType ==
  ASSUME TypeOK, NEW i \in DOMAIN lines PROVE LinePrice(i) \in Nat
<1>1. lines[i] \in LineRow
  BY Shape
<1>2. Price[lines[i].plan] \in Nat /\ lines[i].duration \in Nat
  BY <1>1, CartAssumption DEF LineRow
<1>3. \A a, b \in Nat : a * b \in Nat
  OBVIOUS
<1> QED BY <1>2, <1>3 DEF LinePrice

\* A guest's request resolves its cart.
LEMMA ResolveGuestStep ==
  ASSUME IInv, NEW t \in Tabs, ResolveGuest(t) PROVE IInv'
<1>0. TypeOK
  BY DEF IInv
<1> DEFINE point == "guest"
           none == {}
           zero == 0
<1>1. /\ point \in Points /\ none \in SUBSET Pks /\ zero \in Nat /\ NoSnap \in [Pks -> Nat]
      /\ Goto(t, At(point, NoSnap, none, zero)) /\ point = "guest"
      /\ UNCHANGED <<cart, order, checkouts, balance, credited>>
  BY DEF ResolveGuest, Points, NoSnap
<1> HIDE DEF point, none, zero
<1>2. /\ tab' \in [Tabs -> TabRow] /\ tab'[t].pc = "guest"
      /\ \A u \in Tabs \ {t} : tab'[u] = tab[u]
  BY <1>0, <1>1, GotoForm
<1>3. TabClaim(t)'
  BY <1>2 DEF TabClaim, MergeClaim, SnapClaim, PayClaim, LoopClaim
<1> QED BY <1>1, <1>2, <1>3, TabOnly

\* _merge_cart reads what it has to move.
LEMMA MergeReadStep ==
  ASSUME IInv, NEW t \in Tabs, MergeRead(t) PROVE IInv'
<1>0. TypeOK /\ DOMAIN lines \subseteq Pks /\ live \subseteq DOMAIN lines
  BY Shape DEF IInv, TypeOK
<1> DEFINE merge == "merge"
           todo == {i \in live : lines[i].cart = "guest" /\ LineOf("customer", lines[i].plan) = {}}
           snap == [i \in Pks |-> IF i \in todo THEN lines[i].duration ELSE 0]
           zero == 0
<1>1. /\ user /\ merge \in Points /\ todo \in SUBSET Pks /\ zero \in Nat
      /\ Goto(t, At(merge, snap, todo, zero)) /\ merge = "merge"
      /\ UNCHANGED <<cart, order, checkouts, balance, credited>>
  BY <1>0 DEF MergeRead, Points
<1>2. /\ todo \subseteq DOMAIN lines
      /\ \A i \in live : lines[i].cart = "guest" => i \in todo \/ Arrived(lines[i].plan)
  BY <1>0 DEF LineOf, Arrived
<1>6. snap \in [Pks -> Nat] /\ \A i \in todo : snap[i] # 0
  <2>1. \A i \in todo : i \in Pks /\ lines[i].duration \in Nat \ {0}
    BY <1>0, <1>2, Shape DEF LineRow, IInv
  <2> HIDE DEF todo
  <2> QED BY <2>1
<1> HIDE DEF merge, todo, snap, zero
<1>3. /\ tab' \in [Tabs -> TabRow] /\ tab'[t].pc = "merge" /\ tab'[t].todo = todo
      /\ tab'[t].snap = snap /\ \A u \in Tabs \ {t} : tab'[u] = tab[u]
  BY <1>0, <1>1, <1>6, GotoForm
<1>4. MergeClaim(t)'
  BY <1>1, <1>2, <1>3, <1>6 DEF MergeClaim, Arrived, cart
<1>5. TabClaim(t)'
  BY <1>3, <1>4 DEF TabClaim, SnapClaim, PayClaim, LoopClaim
<1> QED BY <1>1, <1>3, <1>5, TabOnly

\* checkout_cart reads the selected lines.
LEMMA SnapshotStep ==
  ASSUME IInv, NEW t \in Tabs, NEW S \in SUBSET live,
         NEW m \in {"none", "gateway", "qris_static"}, Snapshot(t, S, m)
  PROVE  IInv'
<1>0. TypeOK /\ DOMAIN lines \subseteq Pks /\ live \subseteq DOMAIN lines
  BY Shape DEF IInv, TypeOK
<1> DEFINE snap == [i \in Pks |-> IF i \in S THEN LinePrice(i) ELSE 0]
           zero == 0
<1>1. snap \in [Pks -> Nat]
  BY <1>0, LinePriceType
<1>2. /\ m \in Points /\ S \in SUBSET Pks /\ zero \in Nat
      /\ Goto(t, At(m, snap, S, zero)) /\ (\A i \in S : lines[i].cart = "customer")
      /\ UNCHANGED <<cart, order, checkouts, balance, credited>>
  BY <1>0 DEF Snapshot, Points
<1> HIDE DEF snap, zero
<1>3. /\ tab' \in [Tabs -> TabRow] /\ tab'[t].pc = m /\ tab'[t].todo = S
      /\ \A u \in Tabs \ {t} : tab'[u] = tab[u]
  BY <1>0, <1>1, <1>2, GotoForm
<1>4. SnapClaim(t)'
  BY <1>0, <1>2, <1>3 DEF SnapClaim, Picked, cart
<1>5. TabClaim(t)'
  BY <1>3, <1>4 DEF TabClaim, MergeClaim, PayClaim, LoopClaim
<1> QED BY <1>2, <1>3, <1>5, TabOnly

\* The seller opens a line that waits.
LEMMA SellerActsStep ==
  ASSUME IInv, NEW t \in Tabs, NEW c \in DOMAIN checkouts, NEW w \in {"confirm", "reject"},
         SellerActs(t, c, w)
  PROVE  IInv'
<1>0. TypeOK /\ c \in Nat
  BY Shape DEF IInv
<1> DEFINE todo == Pending(c)
<1>1. /\ w \in Points /\ todo \in SUBSET Pks /\ NoSnap \in [Pks -> Nat]
      /\ Goto(t, At(w, NoSnap, todo, c)) /\ checkouts[c].path = "qris"
      /\ UNCHANGED <<cart, order, checkouts, balance, credited>>
  BY DEF SellerActs, Points, NoSnap, Pending
<1>2. todo = Pending(c) /\ Pending(c) \subseteq OrdersOf(c)
  BY DEF Pending, OrdersOf
<1> HIDE DEF todo
<1>3. /\ tab' \in [Tabs -> TabRow] /\ tab'[t].pc = w /\ tab'[t].todo = todo /\ tab'[t].checkout = c
      /\ \A u \in Tabs \ {t} : tab'[u] = tab[u]
  BY <1>0, <1>1, GotoForm
<1>4. OrdersOf(c)' = OrdersOf(c) /\ Pending(c)' = Pending(c)
  BY <1>1 DEF OrdersOf, Pending
<1>5. LoopClaim(t)'
  BY <1>1, <1>2, <1>3, <1>4 DEF LoopClaim
<1>6. TabClaim(t)'
  BY <1>3, <1>5 DEF TabClaim, MergeClaim, SnapClaim, PayClaim
<1> QED BY <1>1, <1>3, <1>6, TabOnly

-----------------------------------------------------------------------------
(* Merging the guest cart *)

\* A line is moved.
LEMMA MergeLineStep ==
  ASSUME IInv, NEW t \in Tabs, NEW i \in Pks, MergeLine(t, i) PROVE IInv'
<1>0. TypeOK /\ TabClaim(t) /\ live \subseteq DOMAIN lines
  BY DEF IInv, TypeOK
<1>1. /\ tab[t].pc = "merge" /\ i \in tab[t].todo
      /\ UNCHANGED <<removed, late, guest, user, order, checkouts, balance, credited>>
  BY DEF MergeLine
<1>2. user /\ tab[t].todo \subseteq DOMAIN lines /\ \A x \in tab[t].todo : tab[t].snap[x] # 0
  BY <1>0, <1>1 DEF TabClaim, MergeClaim
<1>3. CASE Leave(t) /\ UNCHANGED <<lines, live>>
  BY <1>1, <1>3, LeaveStep DEF cart
<1> DEFINE snap == tab[t].snap
           new == NewLine("customer", lines[i].plan, snap[i])
           merge == "merge"
           todo == tab[t].todo \ {i}
           zero == 0
<1>4. CASE /\ Len(lines) < MaxLines /\ lines' = Append(lines, new)
           /\ live' = live \cup {Len(lines) + 1}
           /\ Goto(t, At(merge, snap, todo, zero))
  <2>1. new \in LineRow /\ new.cart = "customer" /\ new.plan = lines[i].plan
    <3>1. lines[i] \in LineRow /\ snap[i] \in Nat \ {0}
      BY <1>0, <1>1, <1>2, Shape DEF TypeOK, TabRow
    <3> QED BY <3>1 DEF NewLine, LineRow
  <2>2. /\ merge \in Points /\ todo \in SUBSET Pks /\ zero \in Nat /\ snap \in [Pks -> Nat]
        /\ merge = "merge" /\ todo \subseteq tab[t].todo
        /\ \A x \in tab[t].todo : x = i \/ x \in todo
    BY <1>0 DEF TypeOK, TabRow, Points
  <2>9. \A x \in todo : snap[x] # 0
    BY <1>2
  <2> HIDE DEF snap, new, merge, todo, zero
  <2>3. /\ lines' \in Seq(LineRow) /\ Len(lines') <= MaxLines
        /\ live' \subseteq DOMAIN lines' /\ removed' \subseteq DOMAIN lines'
        /\ late' \subseteq DOMAIN lines' /\ LinesGrow /\ NoLineLost' /\ lines'[Len(lines) + 1] = new
        /\ Len(lines) + 1 \in DOMAIN lines'
    BY <1>1, <1>4, <2>1, AppendLine
  <2>4. /\ \A x \in live' : lines'[x].cart = "guest" => x \in live
        /\ GuestLinesGrow
    BY <1>1, <1>4, <2>1, <2>3 DEF GuestLinesGrow
  <2>5. /\ tab' \in [Tabs -> TabRow] /\ tab'[t].pc = "merge" /\ tab'[t].todo = todo
        /\ tab'[t].snap = snap /\ \A u \in Tabs \ {t} : tab'[u] = tab[u]
    BY <1>0, <1>4, <2>2, GotoForm
  <2>6. \A x \in live : lines[x].cart = "guest" =>
          x \in tab[t].todo \cup late \/ Arrived(lines[x].plan)
    BY <1>0, <1>1 DEF TabClaim, MergeClaim
  <2>7. MergeClaim(t)'
    <3> SUFFICES ASSUME NEW x \in live', lines'[x].cart = "guest", x \notin todo \cup late
                 PROVE  Arrived(lines[x].plan)'
      BY <1>1, <1>2, <2>2, <2>3, <2>5, <2>9 DEF MergeClaim, LinesGrow
    <3>1. x \in live /\ lines'[x].plan = lines[x].plan /\ lines'[x].cart = lines[x].cart
      BY <1>0, <2>3, <2>4 DEF LinesGrow
    <3>2. CASE x = i
      BY <2>1, <2>3, <3>1, <3>2 DEF Arrived
    <3>3. CASE x # i
      <4>1. Arrived(lines[x].plan)
        BY <2>2, <2>6, <3>1, <3>3
      <4> QED BY <2>3, <3>1, <4>1 DEF Arrived, LinesGrow
    <3> QED BY <3>2, <3>3
  <2>8. TabClaim(t)'
    BY <2>5, <2>7 DEF TabClaim, SnapClaim, PayClaim, LoopClaim
  <2> QED BY <1>0, <1>1, <2>3, <2>4, <2>5, <2>8, MergeStep DEF TypeOK
<1> QED BY <1>3, <1>4 DEF MergeLine

\* The guest cart goes once every line that was read has arrived.
LEMMA MergeDeleteStep ==
  ASSUME IInv, NEW t \in Tabs, MergeDelete(t) PROVE IInv'
<1>0. TypeOK /\ TabClaim(t) /\ NoLineLost /\ live \subseteq DOMAIN lines
  BY DEF IInv, TypeOK
<1>1. /\ tab[t].pc = "merge" /\ tab[t].todo = {} /\ guest' = FALSE /\ Leave(t)
      /\ live' = {i \in live : lines[i].cart = "customer"}
      /\ UNCHANGED <<lines, removed, late, user, order, checkouts, balance, credited>>
  BY DEF MergeDelete
<1>2. \A i \in live : lines[i].cart = "guest" => i \in late \/ Arrived(lines[i].plan)
  BY <1>0, <1>1 DEF TabClaim, MergeClaim
<1>3. /\ tab' \in [Tabs -> TabRow] /\ tab'[t].pc = "idle" /\ TabClaim(t)'
      /\ \A u \in Tabs \ {t} : tab'[u] = tab[u]
  BY <1>0, <1>1, LeaveForm
<1>4. NoLineLost'
  <2> SUFFICES ASSUME NEW i \in DOMAIN lines
               PROVE  IF lines[i].cart = "customer"
                      THEN i \in live' <=> i \notin removed /\ order[i].status = "absent"
                      ELSE i \in live' \cup removed \cup late \/ Arrived(lines[i].plan)
    BY <1>1 DEF NoLineLost, Arrived
  <2>1. lines[i].cart \in {"guest", "customer"}
    BY <1>0, Shape DEF LineRow
  <2>2. IF lines[i].cart = "customer"
        THEN i \in live <=> i \notin removed /\ order[i].status = "absent"
        ELSE i \in live \cup removed \cup late \/ Arrived(lines[i].plan)
    BY <1>0 DEF NoLineLost
  <2> QED BY <1>1, <1>2, <2>1, <2>2
<1>5. LinesGrow /\ GuestLinesGrow /\ live' \subseteq DOMAIN lines'
  BY <1>0, <1>1 DEF LinesGrow, GuestLinesGrow
<1> QED BY <1>0, <1>1, <1>3, <1>4, <1>5, MergeStep DEF TypeOK

-----------------------------------------------------------------------------
(* Creating a checkout *)

\* A checkout is added, and is nobody's yet.
LEMMA AppendCheckout ==
  ASSUME IInv, NEW new \in CheckoutRow, checkouts' = Append(checkouts, new)
  PROVE  /\ checkouts' \in Seq(CheckoutRow) /\ CheckoutsGrow
         /\ Len(checkouts) + 1 \in Nat \ {0} /\ Len(checkouts) + 1 \notin DOMAIN checkouts
         /\ DOMAIN checkouts' = DOMAIN checkouts \cup {Len(checkouts) + 1}
         /\ checkouts'[Len(checkouts) + 1] = new
         /\ \A c \in DOMAIN checkouts : checkouts'[c] = checkouts[c]
         /\ OrdersOf(Len(checkouts) + 1) = {}
<1>0. TypeOK /\ OrdersInv
  BY DEF IInv
<1> DEFINE n == Len(checkouts)
<1>1. n \in Nat /\ DOMAIN checkouts = 1 .. n
  BY <1>0, Shape
<1>2. /\ checkouts' \in Seq(CheckoutRow) /\ Len(checkouts') = n + 1 /\ checkouts'[n + 1] = new
      /\ \A c \in 1 .. n : checkouts'[c] = checkouts[c]
  BY <1>0, AppendProperties DEF TypeOK
<1>3. DOMAIN checkouts' = 1 .. n + 1
  BY <1>2, LenProperties
<1> HIDE DEF n
<1>4. n + 1 \notin 1 .. n /\ 1 .. n + 1 = (1 .. n) \cup {n + 1} /\ n + 1 \in Nat \ {0} /\ n + 1 # 0
  BY <1>1
<1>5. OrdersOf(n + 1) = {}
  BY <1>0, <1>1, <1>4 DEF OrdersOf, OrdersInv
<1>6. CheckoutsGrow
  BY <1>1, <1>2, <1>3, <1>4 DEF CheckoutsGrow
<1> QED BY <1>1, <1>2, <1>3, <1>4, <1>5, <1>6 DEF n

\* The balance is read; when it covers the total there is a checkout.
LEMMA ReadBalanceStep ==
  ASSUME IInv, NEW t \in Tabs, ReadBalance(t) PROVE IInv'
<1>0. /\ TypeOK /\ OrdersInv /\ ShortInv /\ NoLineLost /\ BooksBalance /\ AllOrNothing
      /\ CompletedIsDecided /\ TabClaim(t) /\ (\A u \in Tabs : TabClaim(u))
  BY DEF IInv
<1> DEFINE snap == Snap(t)
           todo == Picked(t)
           n == Len(checkouts) + 1
<1>1. /\ tab[t].pc \in {"gateway", "none"} /\ UNCHANGED <<cart, order, balance, credited>>
      /\ snap \in [Pks -> Nat] /\ todo \in SUBSET Pks /\ balance \in Nat
  BY <1>0 DEF ReadBalance, TypeOK, TabRow, Snap, Picked
<1>2. UNCHANGED <<lines, live, removed, late, guest, user>>
  BY <1>1 DEF cart
<1>3. \A i \in todo : i \in DOMAIN lines /\ lines[i].cart = "customer"
  BY <1>0, <1>1 DEF TabClaim, SnapClaim
<1>4. Total(t) \in Nat
  <2>1. IsFiniteSet(Picked(t))
    BY <1>0, <1>1, Shape, FS_Subset
  <2>2. \A i \in Picked(t) : Snap(t)[i] \in Nat
    BY <1>1
  <2> QED BY <2>1, <2>2, SumOfType DEF Total
<1>5. CASE Leave(t) /\ UNCHANGED checkouts
  BY <1>1, <1>5, LeaveStep
<1>6. CASE /\ ~(balance >= Total(t)) /\ UNCHANGED checkouts
           /\ Goto(t, At("fund", Snap(t), Picked(t), Total(t) - balance))
  <2> DEFINE fund == "fund"
             short == Total(t) - balance
  <2>1. /\ fund \in Points /\ short \in Nat /\ fund = "fund"
        /\ Goto(t, At(fund, snap, todo, short))
    BY <1>1, <1>4, <1>6 DEF Points
  <2> HIDE DEF fund, short, snap, todo
  <2>2. /\ tab' \in [Tabs -> TabRow] /\ tab'[t].pc = "fund" /\ tab'[t].todo = todo
        /\ \A u \in Tabs \ {t} : tab'[u] = tab[u]
    BY <1>0, <1>1, <2>1, GotoForm
  <2>3. TabClaim(t)'
    BY <1>2, <1>3, <2>2 DEF TabClaim, MergeClaim, SnapClaim, PayClaim, LoopClaim, Picked
  <2> QED BY <1>1, <1>6, <2>2, <2>3, TabOnly
<1>7. CASE /\ checkouts' = Append(checkouts, Checkout("wallet", "completed", Picked(t), 0))
           /\ Goto(t, At("pay", Snap(t), Picked(t), Len(checkouts) + 1))
  <2> DEFINE pay == "pay"
             new == Checkout("wallet", "completed", Picked(t), 0)
  <2>1. /\ new \in CheckoutRow /\ new.path = "wallet" /\ new.wanted = todo /\ new.short = 0
        /\ new.status = "completed"
    BY <1>1 DEF Checkout, CheckoutRow
  <2>2. pay \in Points /\ pay = "pay" /\ Goto(t, At(pay, snap, todo, n))
    BY <1>7 DEF Points
  <2> HIDE DEF new
  <2>3. /\ checkouts' \in Seq(CheckoutRow) /\ CheckoutsGrow /\ n \in Nat \ {0}
        /\ n \notin DOMAIN checkouts /\ DOMAIN checkouts' = DOMAIN checkouts \cup {n}
        /\ checkouts'[n] = new /\ OrdersOf(n) = {}
        /\ \A c \in DOMAIN checkouts : checkouts'[c] = checkouts[c]
    BY <1>7, <2>1, AppendCheckout DEF new
  <2> HIDE DEF pay, snap, todo, n
  <2>4. /\ tab' \in [Tabs -> TabRow] /\ tab'[t].pc = "pay" /\ tab'[t].todo = todo
        /\ tab'[t].checkout = n /\ \A u \in Tabs \ {t} : tab'[u] = tab[u]
    BY <1>0, <1>1, <2>2, <2>3, GotoForm
  <2>5. /\ \A c : OrdersOf(c)' = OrdersOf(c) /\ Pending(c)' = Pending(c)
        /\ \A c : \A i \in OrdersOf(c) : i \in Pks
        /\ Amounts' = Amounts /\ PaidFromWallet' = PaidFromWallet
    <3>1. \A i \in Pks : order[i].status = "paid" =>
                           checkouts'[order[i].checkout] = checkouts[order[i].checkout]
      BY <1>0, <2>3 DEF OrdersInv
    <3> QED BY <1>1, <3>1 DEF OrdersOf, Pending, Amounts, PaidFromWallet
  <2>6. TypeOK' /\ OrdersInv' /\ NoLineLost' /\ LinesGrow /\ BooksBalance'
    <3>1. TypeOK'
      BY <1>0, <1>1, <1>2, <2>3, <2>4 DEF TypeOK
    <3>2. OrdersInv' /\ NoLineLost' /\ LinesGrow /\ BooksBalance'
      BY <1>0, <1>1, <1>2, <2>3, <2>5 DEF OrdersInv, NoLineLost, Arrived, LinesGrow, BooksBalance
    <3> QED BY <3>1, <3>2
  <2>7. ShortInv'
    BY <1>0, <2>1, <2>3 DEF ShortInv
  <2>8. AllOrNothing'
    BY <1>0, <1>1, <2>1, <2>3, <2>5 DEF AllOrNothing
  <2>9. CompletedIsDecided'
    BY <1>0, <2>1, <2>3, <2>5 DEF CompletedIsDecided
  <2>10. Frame(Tabs \ {t})
    <3>1. \A u \in Tabs : tab[u].pc = "pay" => OrdersOf(tab[u].checkout) = {}
      BY <1>0 DEF TabClaim, PayClaim
    <3> QED BY <1>2, <2>3, <2>4, <2>5, <2>6, <3>1 DEF Frame, GuestLinesGrow
  <2>11. TabClaim(t)'
    BY <1>2, <1>3, <2>1, <2>3, <2>4, <2>5 DEF TabClaim, MergeClaim, SnapClaim, PayClaim, LoopClaim, Picked
  <2>12. \A u \in Tabs : tab[u].pc = "pay" => tab[u].checkout \in DOMAIN checkouts
    BY <1>0 DEF TabClaim, PayClaim
  <2> QED BY <2>3, <2>4, <2>6, <2>7, <2>8, <2>9, <2>10, <2>11, <2>12, TabStep
<1> QED BY <1>1, <1>5, <1>6, <1>7 DEF ReadBalance

-----------------------------------------------------------------------------
(* Ordering the lines of a checkout *)

\* What Place does: the orders of checkout c, which had none, are the lines
\* the request picked, and no other order changes.
LEMMA PlaceForm ==
  ASSUME IInv, NEW t \in Tabs, tab[t].pc \in {"qris_static", "pay", "fund"}, KeysFree(t),
         NEW c \in Nat \ {0}, OrdersOf(c) = {}, NEW status \in {"pending", "paid"},
         checkouts' \in Seq(CheckoutRow), DOMAIN checkouts' = DOMAIN checkouts \cup {c},
         \A d \in DOMAIN checkouts : checkouts'[d] = checkouts[d],
         Place(t, status, c)
  PROVE  /\ order' \in [Pks -> OrderRow] /\ live' \subseteq DOMAIN lines
         /\ OrdersInv' /\ NoLineLost' /\ LinesGrow
         /\ OrdersOf(c)' = Picked(t) /\ Picked(t) \subseteq Pks
         /\ \A i \in Picked(t) : order'[i].status = status
         /\ \A i \in Pks \ Picked(t) : order'[i] = order[i]
         /\ \A d \in DOMAIN checkouts \ {c} : OrdersOf(d)' = OrdersOf(d) /\ Pending(d)' = Pending(d)
         /\ SumOf(Amounts', PaidFromWallet) = SumOf(Amounts, PaidFromWallet)
         /\ SumOf(Amounts', Picked(t)) = Total(t) /\ Total(t) \in Nat
         /\ PaidFromWallet \cap Picked(t) = {} /\ PaidFromWallet \subseteq Pks
         /\ \A i \in Pks \ Picked(t) : i \in PaidFromWallet' <=> i \in PaidFromWallet
         /\ \A i \in Picked(t) :
              i \in PaidFromWallet' <=> status = "paid" /\ checkouts'[c].path # "qris"
         /\ \A i \in Pks : Amounts'[i] \in Nat
<1>0. TypeOK /\ OrdersInv /\ NoLineLost /\ TabClaim(t)
  BY DEF IInv
<1> DEFINE P == Picked(t)
           snap == Snap(t)
<1>1. P \subseteq Pks /\ snap \in [Pks -> Nat] /\ order \in [Pks -> OrderRow]
      /\ live \subseteq DOMAIN lines
  BY <1>0 DEF TypeOK, TabRow, Picked, Snap
<1>2. \A i \in P : i \in DOMAIN lines /\ lines[i].cart = "customer"
  BY <1>0 DEF TabClaim, SnapClaim
<1>3. \A i \in P : order[i].status = "absent" /\ order[i].checkout = 0
  BY <1>0, <1>1 DEF KeysFree, OrdersInv
<1>4. /\ order' = [i \in Pks |-> IF i \in P
                     THEN [status |-> status, amount |-> snap[i], checkout |-> c] ELSE order[i]]
      /\ live' = live \ P /\ UNCHANGED <<lines, removed, late, guest, user>>
  BY DEF Place
<1> HIDE DEF P, snap
<1>5. /\ \A i \in P : /\ order'[i].status = status /\ order'[i].amount = snap[i]
                      /\ order'[i].checkout = c
      /\ \A i \in Pks \ P : order'[i] = order[i]
  BY <1>1, <1>4
<1>6. order' \in [Pks -> OrderRow]
  BY <1>1, <1>4 DEF OrderRow
<1>7. live' \subseteq DOMAIN lines /\ LinesGrow
  BY <1>1, <1>4 DEF LinesGrow
<1>8. OrdersInv'
  <2> SUFFICES ASSUME NEW i \in Pks
               PROVE  IF order'[i].status = "absent" THEN order'[i].checkout = 0
                      ELSE i \in DOMAIN lines /\ order'[i].checkout \in DOMAIN checkouts'
    BY <1>4 DEF OrdersInv
  <2>1. CASE i \in P
    BY <1>2, <1>5, <2>1
  <2>2. CASE i \notin P
    BY <1>0, <1>5, <2>2 DEF OrdersInv
  <2> QED BY <2>1, <2>2
<1>9. NoLineLost'
  <2> SUFFICES ASSUME NEW i \in DOMAIN lines
               PROVE  IF lines[i].cart = "customer"
                      THEN i \in live' <=> i \notin removed /\ order'[i].status = "absent"
                      ELSE i \in live' \cup removed \cup late \/ Arrived(lines[i].plan)
    BY <1>4 DEF NoLineLost, Arrived
  <2>1. i \in Pks
    BY <1>0, Shape
  <2>2. IF lines[i].cart = "customer"
        THEN i \in live <=> i \notin removed /\ order[i].status = "absent"
        ELSE i \in live \cup removed \cup late \/ Arrived(lines[i].plan)
    BY <1>0 DEF NoLineLost
  <2>3. CASE i \in P
    BY <1>2, <1>4, <1>5, <2>3
  <2>4. CASE i \notin P
    BY <1>4, <1>5, <2>1, <2>2, <2>4
  <2> QED BY <2>3, <2>4
<1>10. OrdersOf(c)' = P
  <2>1. \A i \in Pks \ P : order[i].checkout # c
    BY DEF OrdersOf
  <2> QED BY <1>1, <1>5, <2>1 DEF OrdersOf
<1>11. \A d \in DOMAIN checkouts \ {c} : OrdersOf(d)' = OrdersOf(d) /\ Pending(d)' = Pending(d)
  <2>1. \A d \in DOMAIN checkouts : d # 0
    BY <1>0, Shape
  <2> QED BY <1>3, <1>5, <2>1 DEF OrdersOf, Pending
<1>12. IsFiniteSet(Pks) /\ IsFiniteSet(P) /\ PaidFromWallet \subseteq Pks /\ IsFiniteSet(PaidFromWallet)
  <2>1. PaidFromWallet \subseteq Pks
    BY DEF PaidFromWallet
  <2> QED BY <1>0, <1>1, <2>1, Shape, FS_Subset
<1>13. PaidFromWallet \cap P = {}
  BY <1>3 DEF PaidFromWallet
<1>14. \A i \in Pks : Amounts'[i] = order'[i].amount /\ Amounts[i] = order[i].amount
  BY DEF Amounts
<1>15. \A i \in Pks : Amounts'[i] \in Nat /\ Amounts[i] \in Nat
  BY <1>1, <1>6, <1>14 DEF OrderRow
<1>16. SumOf(Amounts', PaidFromWallet) = SumOf(Amounts, PaidFromWallet)
  <2>1. \A i \in PaidFromWallet : Amounts'[i] = Amounts[i]
    BY <1>5, <1>12, <1>13, <1>14
  <2> QED BY <1>12, <1>15, <2>1, SumOfSame
<1>17. SumOf(Amounts', P) = SumOf(snap, P) /\ SumOf(snap, P) \in Nat
  <2>1. \A i \in P : Amounts'[i] = snap[i]
    BY <1>1, <1>5, <1>14
  <2>2. \A i \in P : snap[i] \in Nat
    BY <1>1
  <2>3. SumOf(snap, P) \in Nat
    BY <1>12, <2>2, SumOfType
  <2> QED BY <1>12, <1>15, <2>1, <2>2, <2>3, SumOfSame
<1>18. \A i \in Pks \ P : i \in PaidFromWallet' <=> i \in PaidFromWallet
  <2> SUFFICES ASSUME NEW i \in Pks \ P
               PROVE  order[i].status = "paid" =>
                        checkouts'[order[i].checkout] = checkouts[order[i].checkout]
    BY <1>5 DEF PaidFromWallet
  <2> QED BY <1>0 DEF OrdersInv
<1>19. \A i \in P : i \in PaidFromWallet' <=> status = "paid" /\ checkouts'[c].path # "qris"
  BY <1>1, <1>5 DEF PaidFromWallet
<1> QED BY <1>1, <1>5, <1>6, <1>7, <1>8, <1>9, <1>10, <1>11, <1>12, <1>13, <1>15, <1>16, <1>17,
           <1>18, <1>19 DEF P, snap, Total

\* A transaction that orders the picked lines under checkout c.
LEMMA PlaceStep ==
  ASSUME IInv, NEW t \in Tabs, tab[t].pc \in {"qris_static", "pay", "fund"}, KeysFree(t),
         NEW c \in Nat \ {0}, OrdersOf(c) = {}, NEW status \in {"pending", "paid"},
         checkouts' \in Seq(CheckoutRow), DOMAIN checkouts' = DOMAIN checkouts \cup {c},
         \A d \in DOMAIN checkouts : checkouts'[d] = checkouts[d],
         Place(t, status, c), Leave(t), UNCHANGED credited, balance' \in Nat, BooksBalance',
         checkouts'[c].wanted = Picked(t), ShortInv',
         checkouts'[c].path = "wallet" => status = "paid",
         checkouts'[c].path = "qris" => c \notin DOMAIN checkouts /\ checkouts'[c].status = "pending",
         \A u \in Tabs \ {t} : tab[u].pc = "pay" => tab[u].checkout # c
  PROVE  IInv'
<1>0. /\ TypeOK /\ AllOrNothing /\ CompletedIsDecided /\ (\A u \in Tabs : TabClaim(u))
  BY DEF IInv
<1>1. /\ order' \in [Pks -> OrderRow] /\ live' \subseteq DOMAIN lines
      /\ OrdersInv' /\ NoLineLost' /\ LinesGrow
      /\ OrdersOf(c)' = Picked(t) /\ Picked(t) \subseteq Pks
      /\ \A i \in Picked(t) : order'[i].status = status
      /\ \A i \in Pks \ Picked(t) : order'[i] = order[i]
      /\ \A d \in DOMAIN checkouts \ {c} : OrdersOf(d)' = OrdersOf(d) /\ Pending(d)' = Pending(d)
  BY PlaceForm
<1>2. live' \subseteq live /\ UNCHANGED <<lines, removed, late, guest, user>>
  BY DEF Place
<1>3. /\ tab' \in [Tabs -> TabRow] /\ tab'[t].pc = "idle" /\ TabClaim(t)'
      /\ \A u \in Tabs \ {t} : tab'[u] = tab[u]
  BY <1>0, LeaveForm
<1>4. TypeOK'
  BY <1>0, <1>1, <1>2, <1>3 DEF TypeOK
<1>5. AllOrNothing'
  <2> SUFFICES ASSUME NEW d \in DOMAIN checkouts'
               PROVE  /\ OrdersOf(d)' \in {{}, checkouts'[d].wanted}
                      /\ checkouts'[d].path = "wallet" => \A i \in OrdersOf(d)' : order'[i].status = "paid"
    BY DEF AllOrNothing
  <2>1. CASE d = c
    BY <1>1, <2>1
  <2>2. CASE d # c
    <3>1. /\ d \in DOMAIN checkouts /\ OrdersOf(d)' = OrdersOf(d)
          /\ checkouts'[d] = checkouts[d]
      BY <1>1, <2>2
    <3>2. \A i \in OrdersOf(d) : order'[i] = order[i]
      <4>1. \A i \in OrdersOf(d) : i \in Pks
        BY DEF OrdersOf
      <4>2. \A i \in Picked(t) : i \notin OrdersOf(d)'
        BY <1>1, <2>2 DEF OrdersOf
      <4> QED BY <1>1, <3>1, <4>1, <4>2
    <3> QED BY <1>0, <3>1, <3>2 DEF AllOrNothing
  <2> QED BY <2>1, <2>2
<1>6. CompletedIsDecided'
  BY <1>0, <1>1 DEF CompletedIsDecided
<1>7. Frame(Tabs \ {t})
  <2>1. \A u \in Tabs \ {t} : tab[u].pc = "pay" => OrdersOf(tab[u].checkout)' = {}
    <3> SUFFICES ASSUME NEW u \in Tabs \ {t}, tab[u].pc = "pay" PROVE OrdersOf(tab[u].checkout)' = {}
      OBVIOUS
    <3> DEFINE d == tab[u].checkout
    <3>1. d \in DOMAIN checkouts \ {c} /\ OrdersOf(d) = {} /\ tab'[u] = tab[u]
      BY <1>0, <1>3 DEF TabClaim, PayClaim
    <3>2. \A i \in Pks : order'[i].checkout # d
      BY <1>1, <3>1 DEF OrdersOf
    <3> QED BY <3>1, <3>2 DEF OrdersOf
  <2>2. CheckoutsGrow
    BY DEF CheckoutsGrow
  <2>3. \A d \in DOMAIN checkouts :
          /\ OrdersOf(d) \subseteq OrdersOf(d)'
          /\ checkouts[d].path = "qris" => Pending(d)' \subseteq Pending(d)
    BY <1>1
  <2> QED BY <1>1, <1>2, <1>3, <2>1, <2>2, <2>3 DEF Frame, GuestLinesGrow
<1> QED BY <1>1, <1>3, <1>4, <1>5, <1>6, <1>7, TabStep

\* Nobody else pays into a checkout that is created.
LEMMA NewIsFree ==
  ASSUME IInv, NEW c, c \notin DOMAIN checkouts, NEW u \in Tabs, tab[u].pc = "pay"
  PROVE  tab[u].checkout # c
BY DEF IInv, TabClaim, PayClaim

\* A transaction that leaves the orders of a new checkout pending.
LEMMA PendingStep ==
  ASSUME IInv, NEW t \in Tabs, tab[t].pc \in {"qris_static", "fund"}, KeysFree(t),
         NEW new \in CheckoutRow, new.wanted = Picked(t), new.path # "wallet",
         new.status = "pending", new.short > 0 => new.path = "gateway",
         checkouts' = Append(checkouts, new), Place(t, "pending", Len(checkouts) + 1), Leave(t),
         UNCHANGED <<balance, credited>>
  PROVE  IInv'
<1>0. TypeOK /\ ShortInv /\ BooksBalance
  BY DEF IInv
<1> DEFINE c == Len(checkouts) + 1
           status == "pending"
<1>1. /\ checkouts' \in Seq(CheckoutRow) /\ c \in Nat \ {0} /\ c \notin DOMAIN checkouts
      /\ DOMAIN checkouts' = DOMAIN checkouts \cup {c} /\ checkouts'[c] = new
      /\ (\A d \in DOMAIN checkouts : checkouts'[d] = checkouts[d]) /\ OrdersOf(c) = {}
  BY AppendCheckout
<1>2. Place(t, status, c) /\ status \in {"pending", "paid"} /\ status = "pending"
  OBVIOUS
<1> HIDE DEF c, status
<1>3. /\ SumOf(Amounts', PaidFromWallet) = SumOf(Amounts, PaidFromWallet)
      /\ PaidFromWallet \cap Picked(t) = {} /\ PaidFromWallet \subseteq Pks
      /\ \A i \in Pks \ Picked(t) : i \in PaidFromWallet' <=> i \in PaidFromWallet
      /\ \A i \in Picked(t) :
           i \in PaidFromWallet' <=> status = "paid" /\ checkouts'[c].path # "qris"
  BY <1>1, <1>2, PlaceForm
<1>4. PaidFromWallet' = PaidFromWallet
  <2>1. PaidFromWallet' \subseteq Pks
    BY DEF PaidFromWallet
  <2> QED BY <1>2, <1>3, <2>1
<1>5. BooksBalance'
  BY <1>0, <1>3, <1>4 DEF BooksBalance
<1>6. ShortInv'
  BY <1>0, <1>1 DEF ShortInv
<1>7. \A u \in Tabs \ {t} : tab[u].pc = "pay" => tab[u].checkout # c
  BY <1>1, NewIsFree
<1>8. balance' \in Nat
  BY <1>0 DEF TypeOK
<1> QED BY <1>1, <1>2, <1>5, <1>6, <1>7, <1>8, PlaceStep

\* Static QRIS and the gateway.
LEMMA PendingSteps ==
  ASSUME IInv, NEW t \in Tabs, CheckoutQris(t) \/ FundByGateway(t) PROVE IInv'
<1>0. Picked(t) \in SUBSET Pks /\ tab[t].checkout \in Nat
  BY DEF IInv, TypeOK, TabRow, Picked
<1>1. CASE CheckoutQris(t)
  <2> DEFINE new == Checkout("qris", "pending", Picked(t), 0)
  <2>1. /\ new \in CheckoutRow /\ new.wanted = Picked(t) /\ new.path # "wallet"
        /\ new.status = "pending" /\ (new.short > 0 => new.path = "gateway")
    BY <1>0 DEF Checkout, CheckoutRow
  <2>2. checkouts' = Append(checkouts, new)
    BY <1>1 DEF CheckoutQris
  <2> HIDE DEF new
  <2> QED BY <1>1, <2>1, <2>2, PendingStep DEF CheckoutQris
<1>2. CASE FundByGateway(t)
  <2> DEFINE new == Checkout("gateway", "pending", Picked(t), tab[t].checkout)
  <2>1. /\ new \in CheckoutRow /\ new.wanted = Picked(t) /\ new.path # "wallet"
        /\ new.status = "pending" /\ (new.short > 0 => new.path = "gateway")
    BY <1>0 DEF Checkout, CheckoutRow
  <2>2. checkouts' = Append(checkouts, new)
    BY <1>2 DEF FundByGateway
  <2> HIDE DEF new
  <2> QED BY <1>2, <2>1, <2>2, PendingStep DEF FundByGateway
<1> QED BY <1>1, <1>2

\* The wallet path: all lines are ordered and paid.
LEMMA PayFromWalletStep ==
  ASSUME IInv, NEW t \in Tabs, PayFromWallet(t) PROVE IInv'
<1>0. TypeOK /\ ShortInv /\ BooksBalance /\ TabClaim(t) /\ Apart
  BY DEF IInv
<1> DEFINE c == tab[t].checkout
           status == "paid"
<1>1. /\ tab[t].pc = "pay" /\ KeysFree(t) /\ balance >= Total(t) /\ balance' = balance - Total(t)
      /\ Place(t, status, c) /\ Leave(t) /\ UNCHANGED <<checkouts, credited>>
      /\ status \in {"pending", "paid"} /\ status = "paid"
  BY DEF PayFromWallet
<1>2. /\ c \in DOMAIN checkouts /\ checkouts[c].path = "wallet"
      /\ checkouts[c].wanted = Picked(t) /\ OrdersOf(c) = {}
  BY <1>0, <1>1 DEF TabClaim, PayClaim
<1>3. /\ checkouts' \in Seq(CheckoutRow) /\ DOMAIN checkouts' = DOMAIN checkouts \cup {c}
      /\ c \in Nat \ {0} /\ ShortInv' /\ \A d \in DOMAIN checkouts : checkouts'[d] = checkouts[d]
  <2>1. c \in Nat \ {0}
    BY <1>0, <1>2, Shape
  <2>2. checkouts' \in Seq(CheckoutRow) /\ ShortInv'
    BY <1>0, <1>1 DEF TypeOK, ShortInv
  <2> QED BY <1>1, <1>2, <2>1, <2>2
<1> HIDE DEF status
<1>4. \A u \in Tabs \ {t} : tab[u].pc = "pay" => tab[u].checkout # c
  BY <1>0, <1>1 DEF Apart
<1> HIDE DEF c
<1>5. /\ SumOf(Amounts', PaidFromWallet) = SumOf(Amounts, PaidFromWallet)
      /\ SumOf(Amounts', Picked(t)) = Total(t) /\ Total(t) \in Nat
      /\ PaidFromWallet \cap Picked(t) = {} /\ PaidFromWallet \subseteq Pks
      /\ \A i \in Pks \ Picked(t) : i \in PaidFromWallet' <=> i \in PaidFromWallet
      /\ \A i \in Picked(t) :
           i \in PaidFromWallet' <=> status = "paid" /\ checkouts'[c].path # "qris"
      /\ \A i \in Pks : Amounts'[i] \in Nat
      /\ Picked(t) \subseteq Pks
  BY <1>1, <1>2, <1>3, PlaceForm
<1>6. PaidFromWallet' = PaidFromWallet \cup Picked(t)
  <2>1. PaidFromWallet' \subseteq Pks
    BY DEF PaidFromWallet
  <2> QED BY <1>1, <1>2, <1>5, <2>1
<1>7. SumOf(Amounts', PaidFromWallet \cup Picked(t)) = SumOf(Amounts, PaidFromWallet) + Total(t)
  <2> DEFINE f == Amounts'
             P == PaidFromWallet
             Q == Picked(t)
  <2>1. /\ IsFiniteSet(P) /\ IsFiniteSet(Q) /\ P \cap Q = {} /\ \A i \in P \cup Q : f[i] \in Int
    BY <1>0, <1>5, Shape, FS_Subset
  <2> HIDE DEF f, P, Q
  <2>2. SumOf(f, P \cup Q) = SumOf(f, P) + SumOf(f, Q)
    BY <2>1, SumOfUnion
  <2> QED BY <1>5, <2>2 DEF f, P, Q
<1>8. SumOf(Amounts, PaidFromWallet) \in Nat
  <2>1. IsFiniteSet(PaidFromWallet) /\ \A i \in PaidFromWallet : Amounts[i] \in Nat
    BY <1>0, <1>5, Shape, FS_Subset DEF Amounts, TypeOK, OrderRow
  <2> QED BY <2>1, SumOfType
<1>9. balance \in Nat /\ credited \in Nat /\ StartBalance \in Nat
  BY <1>0, CartAssumption DEF TypeOK
<1>10. BooksBalance' /\ balance' \in Nat
  BY <1>0, <1>1, <1>5, <1>6, <1>7, <1>8, <1>9 DEF BooksBalance
<1> QED BY <1>1, <1>2, <1>3, <1>4, <1>10, PlaceStep

-----------------------------------------------------------------------------
(* Finishing the pending orders *)

\* A step that changes nothing of the checkouts but that one is no longer
\* short of money or has another status.
LEMMA CheckoutEdit ==
  ASSUME IInv, NEW t \in Tabs, UNCHANGED <<cart, order>>,
         checkouts' \in [DOMAIN checkouts -> CheckoutRow], CheckoutsGrow,
         \A d \in DOMAIN checkouts : checkouts'[d].short \in {0, checkouts[d].short},
         tab' \in [Tabs -> TabRow], \A u \in Tabs \ {t} : tab'[u] = tab[u],
         balance' \in Nat, credited' \in Nat
  PROVE  /\ TypeOK' /\ OrdersInv' /\ ShortInv' /\ NoLineLost' /\ AllOrNothing'
         /\ Frame(Tabs \ {t}) /\ Amounts' = Amounts /\ PaidFromWallet' = PaidFromWallet
         /\ DOMAIN checkouts' = DOMAIN checkouts
         /\ \A d : OrdersOf(d)' = OrdersOf(d) /\ Pending(d)' = Pending(d)
<1>0. /\ TypeOK /\ OrdersInv /\ ShortInv /\ NoLineLost /\ AllOrNothing
      /\ \A u \in Tabs : TabClaim(u)
  BY DEF IInv
<1>1. UNCHANGED <<lines, live, removed, late, guest, user, order>>
  BY DEF cart
<1>2. Len(checkouts) \in Nat /\ DOMAIN checkouts = 1 .. Len(checkouts)
  BY <1>0, Shape
<1>3. checkouts' \in Seq(CheckoutRow) /\ DOMAIN checkouts' = DOMAIN checkouts
  BY <1>2, SeqDef
<1>4. /\ Amounts' = Amounts
      /\ \A d : OrdersOf(d)' = OrdersOf(d) /\ Pending(d)' = Pending(d)
  BY <1>1 DEF Amounts, OrdersOf, Pending
<1>5. PaidFromWallet' = PaidFromWallet
  <2>1. \A i \in Pks : order[i].status = "paid" =>
                         checkouts'[order[i].checkout].path = checkouts[order[i].checkout].path
    BY <1>0 DEF OrdersInv, CheckoutsGrow
  <2> QED BY <1>1, <2>1 DEF PaidFromWallet
<1>6. TypeOK'
  BY <1>0, <1>1, <1>3 DEF TypeOK
<1>7. OrdersInv' /\ NoLineLost' /\ LinesGrow
  BY <1>0, <1>1, <1>3 DEF OrdersInv, NoLineLost, Arrived, LinesGrow
<1>8. ShortInv'
  BY <1>0, <1>3 DEF ShortInv, CheckoutsGrow
<1>9. AllOrNothing'
  BY <1>0, <1>1, <1>3, <1>4 DEF AllOrNothing, CheckoutsGrow
<1>10. Frame(Tabs \ {t})
  <2>1. \A u \in Tabs \ {t} : tab[u].pc = "pay" => OrdersOf(tab[u].checkout) = {}
    BY <1>0 DEF TabClaim, PayClaim
  <2> QED BY <1>1, <1>4, <1>7, <2>1 DEF Frame, GuestLinesGrow
<1> QED BY <1>3, <1>4, <1>5, <1>6, <1>7, <1>8, <1>9, <1>10

\* The gateway's money comes in, and the pending orders are read.
LEMMA CreditStep ==
  ASSUME IInv, NEW t \in Tabs, NEW c \in DOMAIN checkouts, Credit(t, c) PROVE IInv'
<1>0. TypeOK /\ ShortInv /\ BooksBalance /\ CompletedIsDecided /\ c \in Nat
  BY Shape DEF IInv
<1>1. checkouts \in [DOMAIN checkouts -> CheckoutRow]
  BY <1>0, Shape
<1> DEFINE short == checkouts[c].short
           complete == "complete"
           todo == Pending(c)
<1>2. /\ short > 0 /\ balance' = balance + short /\ credited' = credited + short
      /\ checkouts' = [checkouts EXCEPT ![c].short = 0]
      /\ Goto(t, At(complete, NoSnap, todo, c)) /\ UNCHANGED <<cart, order>>
      /\ complete \in Points /\ complete = "complete" /\ NoSnap \in [Pks -> Nat]
      /\ todo \in SUBSET Pks
  BY DEF Credit, Points, NoSnap, Pending
<1>3. short \in Nat
  BY <1>1 DEF CheckoutRow
<1>4. todo \subseteq OrdersOf(c)
  BY DEF Pending, OrdersOf
<1>5. checkouts[c].path = "gateway"
  BY <1>0, <1>2 DEF ShortInv
<1> HIDE DEF short, complete, todo
<1>6. /\ tab' \in [Tabs -> TabRow] /\ tab'[t].pc = "complete" /\ tab'[t].todo = todo
      /\ tab'[t].checkout = c /\ \A u \in Tabs \ {t} : tab'[u] = tab[u]
  BY <1>0, <1>2, GotoForm
<1>7. /\ checkouts' \in [DOMAIN checkouts -> CheckoutRow] /\ CheckoutsGrow
      /\ \A d \in DOMAIN checkouts : /\ checkouts'[d].short \in {0, checkouts[d].short}
                                     /\ checkouts'[d].status = checkouts[d].status
  BY <1>1, <1>2 DEF CheckoutRow, CheckoutsGrow
<1>8. balance \in Nat /\ credited \in Nat /\ StartBalance \in Nat /\ balance' \in Nat /\ credited' \in Nat
  BY <1>0, <1>2, <1>3, CartAssumption DEF TypeOK
<1>9. /\ TypeOK' /\ OrdersInv' /\ ShortInv' /\ NoLineLost' /\ AllOrNothing'
      /\ Frame(Tabs \ {t}) /\ Amounts' = Amounts /\ PaidFromWallet' = PaidFromWallet
      /\ DOMAIN checkouts' = DOMAIN checkouts
      /\ \A d : OrdersOf(d)' = OrdersOf(d) /\ Pending(d)' = Pending(d)
  BY <1>2, <1>6, <1>7, <1>8, CheckoutEdit
<1>10. BooksBalance'
  <2>1. SumOf(Amounts, PaidFromWallet) \in Nat
    <3>1. PaidFromWallet \subseteq Pks
      BY DEF PaidFromWallet
    <3>2. IsFiniteSet(PaidFromWallet) /\ \A i \in PaidFromWallet : Amounts[i] \in Nat
      BY <1>0, <3>1, Shape, FS_Subset DEF Amounts, TypeOK, OrderRow
    <3> QED BY <3>2, SumOfType
  <2> QED BY <1>0, <1>2, <1>3, <1>8, <1>9, <2>1 DEF BooksBalance
<1>11. CompletedIsDecided'
  BY <1>0, <1>7, <1>9 DEF CompletedIsDecided, CheckoutsGrow
<1>12. LoopClaim(t)'
  BY <1>4, <1>5, <1>6, <1>7, <1>9 DEF LoopClaim, CheckoutsGrow
<1>13. TabClaim(t)'
  BY <1>6, <1>12 DEF TabClaim, MergeClaim, SnapClaim, PayClaim
<1> QED BY <1>6, <1>9, <1>10, <1>11, <1>13, TabStep

\* The loop is done: a confirmed static QRIS checkout has no line left.
LEMMA FinishStep ==
  ASSUME IInv, NEW t \in Tabs, Finish(t) PROVE IInv'
<1>0. TypeOK /\ BooksBalance /\ CompletedIsDecided /\ TabClaim(t)
  BY DEF IInv
<1>1. checkouts \in [DOMAIN checkouts -> CheckoutRow]
  BY <1>0, Shape
<1> DEFINE c == tab[t].checkout
<1>2. /\ tab[t].pc \in {"complete", "confirm", "reject"} /\ tab[t].todo = {} /\ Leave(t)
      /\ UNCHANGED <<cart, order, balance, credited>>
  BY DEF Finish
<1>3. CASE UNCHANGED checkouts
  BY <1>2, <1>3, LeaveStep
<1>4. CASE tab[t].pc # "reject" /\ checkouts' = [checkouts EXCEPT ![c].status = "completed"]
  <2>1. /\ c \in DOMAIN checkouts
        /\ checkouts[c].path = IF tab[t].pc = "complete" THEN "gateway" ELSE "qris"
        /\ tab[t].pc # "complete" => Pending(c) = {}
    BY <1>0, <1>2 DEF TabClaim, LoopClaim
  <2> HIDE DEF c
  <2>2. checkouts[c].path = "qris" => Pending(c) = {}
    BY <2>1
  <2>3. /\ checkouts' \in [DOMAIN checkouts -> CheckoutRow] /\ CheckoutsGrow
        /\ \A d \in DOMAIN checkouts : /\ checkouts'[d].short \in {0, checkouts[d].short}
                                       /\ d = c \/ checkouts'[d].status = checkouts[d].status
    BY <1>1, <1>4, <2>1 DEF CheckoutRow, CheckoutsGrow
  <2>4. /\ tab' \in [Tabs -> TabRow] /\ tab'[t].pc = "idle" /\ TabClaim(t)'
        /\ \A u \in Tabs \ {t} : tab'[u] = tab[u]
    BY <1>0, <1>2, LeaveForm
  <2>5. balance' \in Nat /\ credited' \in Nat
    BY <1>0, <1>2 DEF TypeOK
  <2>6. /\ TypeOK' /\ OrdersInv' /\ ShortInv' /\ NoLineLost' /\ AllOrNothing'
        /\ Frame(Tabs \ {t}) /\ Amounts' = Amounts /\ PaidFromWallet' = PaidFromWallet
        /\ DOMAIN checkouts' = DOMAIN checkouts
        /\ \A d : OrdersOf(d)' = OrdersOf(d) /\ Pending(d)' = Pending(d)
    BY <1>2, <2>3, <2>4, <2>5, CheckoutEdit
  <2>7. BooksBalance'
    BY <1>0, <1>2, <2>6 DEF BooksBalance
  <2>8. CompletedIsDecided'
    BY <1>0, <2>2, <2>3, <2>6 DEF CompletedIsDecided, CheckoutsGrow
  <2> QED BY <2>4, <2>6, <2>7, <2>8, TabStep
<1> QED BY <1>2, <1>3, <1>4 DEF Finish

\* One pending order is decided.
LEMMA DecideForm ==
  ASSUME IInv, NEW t \in Tabs, UNCHANGED <<cart, checkouts>>, NEW i \in Pks,
         order[i].status = "pending", checkouts[order[i].checkout].path # "wallet",
         NEW status \in {"paid", "failed"}, Decided(i, status),
         tab' \in [Tabs -> TabRow], \A u \in Tabs \ {t} : tab'[u] = tab[u],
         balance' \in Nat, UNCHANGED credited
  PROVE  /\ TypeOK' /\ OrdersInv' /\ ShortInv' /\ NoLineLost' /\ AllOrNothing'
         /\ CompletedIsDecided' /\ Frame(Tabs \ {t}) /\ Amounts' = Amounts
         /\ \A d : OrdersOf(d)' = OrdersOf(d) /\ Pending(d)' = Pending(d) \ {i}
         /\ i \notin PaidFromWallet
         /\ PaidFromWallet' = IF status = "paid" /\ checkouts[order[i].checkout].path # "qris"
                              THEN PaidFromWallet \cup {i} ELSE PaidFromWallet
<1>0. /\ TypeOK /\ OrdersInv /\ ShortInv /\ NoLineLost /\ AllOrNothing /\ CompletedIsDecided
      /\ \A u \in Tabs : TabClaim(u)
  BY DEF IInv
<1>1. UNCHANGED <<lines, live, removed, late, guest, user, checkouts>>
  BY DEF cart
<1>2. order \in [Pks -> OrderRow]
  BY <1>0 DEF TypeOK
<1>3. /\ order' \in [Pks -> OrderRow] /\ order'[i].status = status
      /\ \A j \in Pks : /\ j # i => order'[j].status = order[j].status
                        /\ order'[j].amount = order[j].amount
                        /\ order'[j].checkout = order[j].checkout
  BY <1>2 DEF Decided, OrderRow
<1>4. \A j \in Pks : order'[j].status = "absent" <=> order[j].status = "absent"
  BY <1>3
<1>5. TypeOK' /\ LinesGrow /\ CheckoutsGrow /\ ShortInv'
  BY <1>0, <1>1, <1>3 DEF TypeOK, LinesGrow, CheckoutsGrow, ShortInv
<1>6. OrdersInv'
  BY <1>0, <1>1, <1>3, <1>4 DEF OrdersInv
<1>7. NoLineLost'
  <2>1. DOMAIN lines \subseteq Pks
    BY <1>0, Shape
  <2> QED BY <1>0, <1>1, <1>4, <2>1 DEF NoLineLost, Arrived
<1>8. Amounts' = Amounts
  BY <1>3 DEF Amounts
<1>9. \A d : OrdersOf(d)' = OrdersOf(d) /\ Pending(d)' = Pending(d) \ {i}
  BY <1>3 DEF OrdersOf, Pending
<1>10. AllOrNothing'
  <2> SUFFICES ASSUME NEW d \in DOMAIN checkouts
               PROVE  /\ OrdersOf(d)' \in {{}, checkouts[d].wanted}
                      /\ checkouts[d].path = "wallet" => \A j \in OrdersOf(d)' : order'[j].status = "paid"
    BY <1>1 DEF AllOrNothing
  <2>1. /\ OrdersOf(d) \in {{}, checkouts[d].wanted}
        /\ checkouts[d].path = "wallet" => \A j \in OrdersOf(d) : order[j].status = "paid"
    BY <1>0 DEF AllOrNothing
  <2>2. \A j \in OrdersOf(d) : j \in Pks
    BY DEF OrdersOf
  <2>3. checkouts[d].path = "wallet" => i \notin OrdersOf(d)
    BY <2>1
  <2> QED BY <1>3, <1>9, <2>1, <2>2, <2>3
<1>11. CompletedIsDecided'
  BY <1>0, <1>1, <1>9 DEF CompletedIsDecided
<1>12. Frame(Tabs \ {t})
  <2>1. \A u \in Tabs \ {t} : tab[u].pc = "pay" => OrdersOf(tab[u].checkout) = {}
    BY <1>0 DEF TabClaim, PayClaim
  <2> QED BY <1>1, <1>5, <1>9, <2>1 DEF Frame, GuestLinesGrow
<1>13. i \notin PaidFromWallet
  BY DEF PaidFromWallet
<1>14. PaidFromWallet' = IF status = "paid" /\ checkouts[order[i].checkout].path # "qris"
                         THEN PaidFromWallet \cup {i} ELSE PaidFromWallet
  BY <1>1, <1>3 DEF PaidFromWallet
<1> QED BY <1>5, <1>6, <1>7, <1>8, <1>9, <1>10, <1>11, <1>12, <1>13, <1>14

\* One turn of the loop.
LEMMA FinishLineStep ==
  ASSUME IInv, NEW t \in Tabs, NEW i \in Pks, FinishLine(t, i) PROVE IInv'
<1>0. TypeOK /\ BooksBalance /\ TabClaim(t)
  BY DEF IInv
<1> DEFINE pc == tab[t].pc
           todo == tab[t].todo \ {i}
           c == tab[t].checkout
<1>1. /\ pc \in {"complete", "confirm", "reject"} /\ i \in tab[t].todo
      /\ Goto(t, At(pc, NoSnap, todo, c)) /\ UNCHANGED <<cart, checkouts, credited>>
      /\ pc \in Points /\ NoSnap \in [Pks -> Nat] /\ todo \in SUBSET Pks /\ c \in Nat
      /\ todo \subseteq tab[t].todo /\ \A x \in tab[t].todo : x = i \/ x \in todo
  BY <1>0 DEF FinishLine, Points, NoSnap, TypeOK, TabRow
<1>2. /\ c \in DOMAIN checkouts
      /\ checkouts[c].path = IF pc = "complete" THEN "gateway" ELSE "qris"
      /\ tab[t].todo \subseteq OrdersOf(c)
      /\ pc # "complete" => Pending(c) \subseteq tab[t].todo
  BY <1>0, <1>1 DEF TabClaim, LoopClaim
<1>3. order[i].checkout = c /\ order[i].amount \in Nat
  BY <1>0, <1>1, <1>2 DEF OrdersOf, TypeOK, OrderRow
<1> HIDE DEF pc, todo, c
<1>4. /\ tab' \in [Tabs -> TabRow] /\ tab'[t].pc = pc /\ tab'[t].todo = todo
      /\ tab'[t].checkout = c /\ \A u \in Tabs \ {t} : tab'[u] = tab[u]
  BY <1>0, <1>1, GotoForm
<1>5. balance \in Nat /\ credited \in Nat /\ StartBalance \in Nat
  BY <1>0, CartAssumption DEF TypeOK
<1>6. ASSUME \A d : OrdersOf(d)' = OrdersOf(d),
             \A d : d = c /\ pc # "complete" => Pending(d)' \subseteq todo
      PROVE  TabClaim(t)'
  <2>1. LoopClaim(t)'
    BY <1>1, <1>2, <1>4, <1>6 DEF LoopClaim
  <2> QED BY <1>1, <1>4, <2>1 DEF TabClaim, MergeClaim, SnapClaim, PayClaim
<1>7. CASE UNCHANGED <<order, balance>> /\ (pc # "complete" => order[i].status # "pending")
  <2>1. \A d : OrdersOf(d)' = OrdersOf(d) /\ Pending(d)' = Pending(d)
    BY <1>7 DEF OrdersOf, Pending
  <2>2. pc # "complete" => Pending(c) \subseteq todo
    BY <1>1, <1>2, <1>7 DEF Pending
  <2>3. TabClaim(t)'
    BY <1>6, <2>1, <2>2
  <2> QED BY <1>1, <1>4, <1>7, <2>3, TabOnly
<1>8. ASSUME NEW status \in {"paid", "failed"}, Decided(i, status), order[i].status = "pending",
             balance' \in Nat
      PROVE  /\ TypeOK' /\ OrdersInv' /\ ShortInv' /\ NoLineLost' /\ AllOrNothing'
             /\ CompletedIsDecided' /\ Frame(Tabs \ {t}) /\ Amounts' = Amounts
             /\ i \notin PaidFromWallet /\ TabClaim(t)'
             /\ PaidFromWallet' = IF status = "paid" /\ checkouts[c].path # "qris"
                                  THEN PaidFromWallet \cup {i} ELSE PaidFromWallet
  <2>1. /\ TypeOK' /\ OrdersInv' /\ ShortInv' /\ NoLineLost' /\ AllOrNothing'
        /\ CompletedIsDecided' /\ Frame(Tabs \ {t}) /\ Amounts' = Amounts
        /\ \A d : OrdersOf(d)' = OrdersOf(d) /\ Pending(d)' = Pending(d) \ {i}
        /\ i \notin PaidFromWallet
        /\ PaidFromWallet' = IF status = "paid" /\ checkouts[order[i].checkout].path # "qris"
                             THEN PaidFromWallet \cup {i} ELSE PaidFromWallet
    BY <1>1, <1>2, <1>3, <1>4, <1>8, DecideForm
  <2>2. TabClaim(t)'
    BY <1>1, <1>2, <1>6, <2>1
  <2> QED BY <1>3, <2>1, <2>2
<1>9. CASE /\ pc = "complete" /\ order[i].status = "pending" /\ balance >= order[i].amount
           /\ Decided(i, "paid") /\ balance' = balance - order[i].amount
  <2> DEFINE status == "paid"
  <2>1. status \in {"paid", "failed"} /\ Decided(i, status) /\ status = "paid" /\ balance' \in Nat
    BY <1>3, <1>5, <1>9
  <2> HIDE DEF status
  <2>2. /\ TypeOK' /\ OrdersInv' /\ ShortInv' /\ NoLineLost' /\ AllOrNothing'
        /\ CompletedIsDecided' /\ Frame(Tabs \ {t}) /\ Amounts' = Amounts
        /\ i \notin PaidFromWallet /\ TabClaim(t)'
        /\ PaidFromWallet' = IF status = "paid" /\ checkouts[c].path # "qris"
                             THEN PaidFromWallet \cup {i} ELSE PaidFromWallet
    BY <1>8, <1>9, <2>1
  <2>3. PaidFromWallet' = PaidFromWallet \cup {i}
    BY <1>2, <1>9, <2>1, <2>2
  <2>4. /\ SumOf(Amounts, PaidFromWallet \cup {i}) = SumOf(Amounts, PaidFromWallet) + order[i].amount
        /\ SumOf(Amounts, PaidFromWallet) \in Nat
    <3> DEFINE P == PaidFromWallet
    <3>1. P \subseteq Pks /\ \A x \in Pks : Amounts[x] \in Nat /\ Amounts[x] = order[x].amount
      BY <1>0 DEF PaidFromWallet, Amounts, TypeOK, OrderRow
    <3>2. IsFiniteSet(P)
      BY <1>0, <3>1, Shape, FS_Subset
    <3>3. i \notin P
      BY <2>2
    <3> HIDE DEF P
    <3>4. SumOf(Amounts, P \cup {i}) = SumOf(Amounts, P) + Amounts[i]
      <4>1. \A y \in P \cup {i} : Amounts[y] \in Int
        BY <3>1
      <4> QED BY <3>2, <3>3, <4>1, SumOfAdd
    <3>5. SumOf(Amounts, P) \in Nat
      BY <3>1, <3>2, SumOfType
    <3> QED BY <3>1, <3>4, <3>5 DEF P
  <2>5. BooksBalance'
    BY <1>0, <1>1, <1>3, <1>5, <1>9, <2>2, <2>3, <2>4 DEF BooksBalance
  <2> QED BY <1>1, <1>4, <2>2, <2>5, TabStep
<1>10. ASSUME pc # "complete", order[i].status = "pending", UNCHANGED balance,
              NEW status \in {"paid", "failed"}, Decided(i, status)
       PROVE  IInv'
  <2>1. balance' \in Nat
    BY <1>5, <1>10
  <2>2. /\ TypeOK' /\ OrdersInv' /\ ShortInv' /\ NoLineLost' /\ AllOrNothing'
        /\ CompletedIsDecided' /\ Frame(Tabs \ {t}) /\ Amounts' = Amounts
        /\ i \notin PaidFromWallet /\ TabClaim(t)'
        /\ PaidFromWallet' = IF status = "paid" /\ checkouts[c].path # "qris"
                             THEN PaidFromWallet \cup {i} ELSE PaidFromWallet
    BY <1>8, <1>10, <2>1
  <2>3. PaidFromWallet' = PaidFromWallet
    BY <1>2, <1>10, <2>2
  <2>4. BooksBalance'
    BY <1>0, <1>1, <1>10, <2>2, <2>3 DEF BooksBalance
  <2> QED BY <1>1, <1>4, <2>2, <2>4, TabStep
<1>11. \/ UNCHANGED <<order, balance>> /\ (pc # "complete" => order[i].status # "pending")
       \/ /\ pc = "complete" /\ order[i].status = "pending" /\ balance >= order[i].amount
          /\ Decided(i, "paid") /\ balance' = balance - order[i].amount
       \/ /\ pc # "complete" /\ order[i].status = "pending" /\ UNCHANGED balance
          /\ \E status \in {"paid", "failed"} : Decided(i, status)
  BY DEF FinishLine, StillPending, pc
<1> QED BY <1>7, <1>9, <1>10, <1>11

-----------------------------------------------------------------------------
(* The invariant *)

LEMMA InitIInv == Init => IInv
<1> SUFFICES ASSUME Init PROVE IInv
  OBVIOUS
<1>1. /\ lines = <<>> /\ live = {} /\ removed = {} /\ late = {} /\ guest = TRUE /\ user = FALSE
      /\ order = [i \in Pks |-> NoOrder] /\ checkouts = <<>> /\ balance = StartBalance
      /\ credited = 0 /\ tab = [t \in Tabs |-> Idle]
  BY DEF Init
<1>2. NoOrder \in OrderRow /\ NoOrder.status = "absent" /\ NoOrder.checkout = 0
  BY DEF NoOrder, OrderRow
<1>3. Idle \in TabRow /\ Idle.pc = "idle"
  BY DEF Idle, At, TabRow, NoSnap
<1>4. TypeOK
  <2>1. lines \in Seq(LineRow) /\ checkouts \in Seq(CheckoutRow) /\ Len(lines) = 0
    BY <1>1
  <2>2. order \in [Pks -> OrderRow] /\ tab \in [Tabs -> TabRow]
    BY <1>1, <1>2, <1>3
  <2>3. guest \in BOOLEAN /\ user \in BOOLEAN
    BY <1>1
  <2>4. Len(lines) <= MaxLines /\ balance \in Nat /\ credited \in Nat
    BY <1>1, <2>1, CartAssumption
  <2> QED BY <1>1, <2>1, <2>2, <2>3, <2>4 DEF TypeOK
<1>5. DOMAIN lines = {} /\ DOMAIN checkouts = {}
  BY <1>1
<1>6. OrdersInv /\ ShortInv /\ NoLineLost /\ AllOrNothing /\ CompletedIsDecided
  BY <1>1, <1>2, <1>5 DEF OrdersInv, ShortInv, NoLineLost, AllOrNothing, CompletedIsDecided
<1>7. (\A t \in Tabs : TabClaim(t)) /\ Apart
  BY <1>1, <1>3 DEF TabClaim, MergeClaim, SnapClaim, PayClaim, LoopClaim, Apart
<1>8. BooksBalance
  <2>1. PaidFromWallet = {}
    BY <1>1, <1>2 DEF PaidFromWallet
  <2>2. SumOf(Amounts, {}) = 0
    BY SumOfEmpty
  <2> QED BY <1>1, <2>1, <2>2, CartAssumption DEF BooksBalance
<1> QED BY <1>4, <1>6, <1>7, <1>8 DEF IInv

LEMMA NextIInv == IInv /\ [Next]_vars => IInv'
<1> SUFFICES ASSUME IInv, [Next]_vars PROVE IInv'
  OBVIOUS
<1>1. CASE UNCHANGED vars
  <2>1. UNCHANGED <<order, checkouts, balance, credited, tab, lines, live, removed, late, guest, user>>
    BY <1>1 DEF vars, cart
  <2>2. TypeOK /\ NoLineLost
    BY DEF IInv
  <2>3. LinesGrow /\ GuestLinesGrow /\ NoLineLost'
    BY <2>1, <2>2 DEF LinesGrow, GuestLinesGrow, NoLineLost, Arrived
  <2> QED BY <2>1, <2>2, <2>3, CartStep DEF TypeOK
<1>2. ASSUME NEW c \in {"guest", "customer"},
             \/ \E p \in Plans, d \in Durations : add_to_cart(c, p, d)
             \/ \E i \in live : \/ remove_from_cart(c, i)
                               \/ \E d \in Durations : update_cart_item(c, i, d)
      PROVE  IInv'
  BY <1>2, EditSteps
<1>9. CASE Login
  BY <1>9, LoginStep
<1>3. ASSUME NEW t \in Tabs, \/ ResolveGuest(t) \/ MergeRead(t) \/ MergeDelete(t)
                             \/ \E i \in Pks : MergeLine(t, i)
      PROVE  IInv'
  BY <1>3, ResolveGuestStep, MergeReadStep, MergeDeleteStep, MergeLineStep
<1>4. ASSUME NEW t \in Tabs, NEW S \in SUBSET live, NEW m \in {"none", "gateway", "qris_static"},
             Snapshot(t, S, m)
      PROVE  IInv'
  BY <1>4, SnapshotStep
<1>5. ASSUME NEW t \in Tabs, \/ CheckoutQris(t) \/ FundByGateway(t) \/ ReadBalance(t)
                             \/ PayFromWallet(t) \/ RollBack(t) \/ Finish(t) \/ Crash(t)
      PROVE  IInv'
  BY <1>5, PendingSteps, ReadBalanceStep, PayFromWalletStep, FailSteps, FinishStep
<1>6. ASSUME NEW t \in Tabs, NEW c \in DOMAIN checkouts, Credit(t, c) PROVE IInv'
  BY <1>6, CreditStep
<1>7. ASSUME NEW t \in Tabs, NEW c \in DOMAIN checkouts, NEW w \in {"confirm", "reject"},
             SellerActs(t, c, w)
      PROVE  IInv'
  BY <1>7, SellerActsStep
<1>8. ASSUME NEW t \in Tabs, NEW i \in Pks, FinishLine(t, i) PROVE IInv'
  BY <1>8, FinishLineStep
<1> QED BY <1>1, <1>2, <1>3, <1>4, <1>5, <1>6, <1>7, <1>8, <1>9 DEF Next

\* IInv holds in every state the cart's requests can reach.
THEOREM Invariance == Spec => []IInv
BY InitIInv, NextIInv, PTL DEF Spec

\* Rows, orders and requests have their types, and cart and checkout rows are
\* within their bounds.
THEOREM TypeCorrect == Spec => []TypeOK
<1>1. IInv => TypeOK
  BY DEF IInv
<1> QED BY <1>1, Invariance, PTL

\* For any cart and any number of concurrent requests no customer's line is lost
\* or both ordered and still in the cart (checkout_cart), and the merge loses no
\* guest line that was there when it began, also while other requests for the
\* guest cart edit it (_merge_cart).
THEOREM LinesAreKept == Spec => []NoLineLost
<1>1. IInv => NoLineLost
  BY DEF IInv
<1> QED BY <1>1, Invariance, PTL

\* The wallet loses exactly the amounts of the orders it paid, on whichever
\* path and however often a checkout is retried (checkout_cart,
\* complete_pending_order).
THEOREM BooksStayBalanced == Spec => []BooksBalance
<1>1. IInv => BooksBalance
  BY DEF IInv
<1> QED BY <1>1, Invariance, PTL

\* A checkout orders all the lines it was asked for or none (checkout_cart).
THEOREM CheckoutsAreAtomic == Spec => []AllOrNothing
<1>1. IInv => AllOrNothing
  BY DEF IInv
<1> QED BY <1>1, Invariance, PTL

\* A completed static QRIS checkout leaves no line waiting, though seller
\* requests overlap and die half way (confirm_cart_manual_payment).
THEOREM CompletedMeansDecided == Spec => []CompletedIsDecided
<1>1. IInv => CompletedIsDecided
  BY DEF IInv
<1> QED BY <1>1, Invariance, PTL
=============================================================================
