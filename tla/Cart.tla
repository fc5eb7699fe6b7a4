-------------------------------- MODULE Cart --------------------------------
(***************************************************************************)
(* The shopping cart of apps/billing/cart_service.py and its views: guest  *)
(* lines merged at login, lines edited, and checkout_cart() on its wallet, *)
(* gateway and static QRIS paths, with what finishes the orders it leaves  *)
(* pending: complete_cart_checkout() once the top-up is credited, and the  *)
(* seller's confirmation or rejection of every line.                       *)
(*                                                                         *)
(* One buyer, whose requests run concurrently, and the seller's.  A        *)
(* transaction is one step: all it reads it has locked or inserted under a *)
(* unique index.  What a request reads before it is a step of its own.     *)
(* No view passes a coupon to add_to_cart(), so lines have none.           *)
(***************************************************************************)
EXTENDS Aggregates, Sequences

CONSTANTS
  Plans, Price,  \* plans that may go into a cart, and Plan.price (free
                 \* lines, which end the completion loop, are TopUp's)
  Seller,        \* Seller[p]: the seller of plan p
  QrisReady,     \* sellers who accept static QRIS
  Durations,     \* values a request may give for duration
  Tabs,          \* concurrent requests
  StartBalance,
  MaxLines, MaxCheckouts  \* bounds on CartItem and CartCheckout rows

ASSUME CartAssumption ==
  /\ Price \in [Plans -> Nat \ {0}] /\ Durations \subseteq Nat
  /\ StartBalance \in Nat /\ MaxLines \in Nat /\ MaxCheckouts \in Nat

VARIABLES
  lines,      \* CartItem rows ever created, the pk being the index
  live,       \* pks of those that still exist
  removed,    \* pks the buyer removed
  late,       \* auxiliary: guest lines inserted while a merge was under way
  guest,      \* the session's guest cart exists
  user,       \* the session is logged in
  order,      \* order[i]: the Order with idempotency key of line i
  checkouts,  \* CartCheckout rows
  balance, credited,  \* Wallet.balance, and what top-ups added to it
  tab         \* tab[t]: program point and what the request read

cart == <<lines, live, removed, late, guest, user>>
vars == <<cart, order, checkouts, balance, credited, tab>>

Pks == 1 .. MaxLines
NoOrder == [status |-> "absent", amount |-> 0, checkout |-> 0]
At(pc, snap, todo, checkout) == [pc |-> pc, snap |-> snap, todo |-> todo, checkout |-> checkout]
NoSnap == [i \in Pks |-> 0]
Idle == At("idle", NoSnap, {}, 0)

Init ==
  /\ lines = <<>> /\ live = {} /\ removed = {} /\ late = {}
  /\ guest = TRUE /\ user = FALSE
  /\ order = [i \in Pks |-> NoOrder] /\ checkouts = <<>>
  /\ balance = StartBalance /\ credited = 0
  /\ tab = [t \in Tabs |-> Idle]

\* A request goes on, or ends.
Goto(t, new) == tab' = [tab EXCEPT ![t] = new]
Leave(t) == Goto(t, Idle)

-----------------------------------------------------------------------------
(* Lines *)

\* The line of plan p in a cart, as a set (the index makes it at most one).
LineOf(c, p) == {i \in live : lines[i].cart = c /\ lines[i].plan = p}

NewLine(c, p, d) == [cart |-> c, plan |-> p, duration |-> d]

\* get_or_create_cart for a guest: from here on the request has the session's
\* guest cart in hand, although the buyer may log in in another tab.
ResolveGuest(t) ==
  /\ ~user /\ tab[t].pc = "idle"
  /\ Goto(t, At("guest", NoSnap, {}, 0))
  /\ UNCHANGED <<cart, order, checkouts, balance, credited>>

\* A request edits the cart it resolved.  The guest cart must still be there
\* (a line for a deleted cart is refused by its foreign key); a logged-in
\* request has merged the guest cart first, and its own is never deleted.
Resolved(c) ==
  \/ c = "guest" /\ guest /\ \E t \in Tabs : tab[t].pc = "guest" /\ Leave(t)
  \/ c = "customer" /\ user /\ ~guest /\ UNCHANGED tab

Merging == \E t \in Tabs : tab[t].pc = "merge"

Clamped(d) == IF d < 1 THEN 1 ELSE d

\* cart_add: get_or_create, and the fields of a line that was there are saved.
add_to_cart(c, p, d) ==
  /\ Resolved(c)
  /\ IF LineOf(c, p) # {}
     THEN /\ lines' = [i \in DOMAIN lines |-> IF i \in LineOf(c, p)
                         THEN NewLine(c, p, Clamped(d)) ELSE lines[i]]
          /\ UNCHANGED <<live, late>>
     ELSE /\ Len(lines) < MaxLines
          /\ lines' = Append(lines, NewLine(c, p, Clamped(d)))
          /\ live' = live \cup {Len(lines) + 1}
          /\ late' = late \cup {i \in {Len(lines) + 1} : c = "guest" /\ Merging}
  /\ UNCHANGED <<removed, guest, user, order, checkouts, balance, credited>>

remove_from_cart(c, i) ==
  /\ Resolved(c) /\ i \in live /\ lines[i].cart = c
  /\ live' = live \ {i} /\ removed' = removed \cup {i}
  /\ UNCHANGED <<lines, late, guest, user, order, checkouts, balance, credited>>

update_cart_item(c, i, d) ==
  /\ Resolved(c) /\ i \in live /\ lines[i].cart = c
  /\ lines' = [lines EXCEPT ![i].duration = Clamped(d)]
  /\ UNCHANGED <<live, removed, late, guest, user, order, checkouts, balance, credited>>

\* Login, or the account made by _intercept_guest_checkout.
Login ==
  /\ ~user /\ user' = TRUE
  /\ UNCHANGED <<lines, live, removed, late, guest, order, checkouts, balance, credited, tab>>

-----------------------------------------------------------------------------
(* _merge_cart, which runs in no transaction *)

\* The plans already there and the lines to move are read.
MergeRead(t) ==
  LET moving == {i \in live : lines[i].cart = "guest"
                              /\ LineOf("customer", lines[i].plan) = {}} IN
  /\ user /\ guest /\ tab[t].pc = "idle"
  /\ Goto(t, At("merge", [i \in Pks |-> IF i \in moving THEN lines[i].duration ELSE 0],
               moving, 0))
  /\ UNCHANGED <<cart, order, checkouts, balance, credited>>

\* A line is saved with a new pk.  When another request has put the plan into
\* the cart since, the unique index refuses it and the request ends there.
MergeLine(t, i) ==
  /\ tab[t].pc = "merge" /\ i \in tab[t].todo
  /\ IF LineOf("customer", lines[i].plan) # {}
     THEN Leave(t) /\ UNCHANGED <<lines, live>>
     ELSE /\ Len(lines) < MaxLines
          /\ lines' = Append(lines, NewLine("customer", lines[i].plan, tab[t].snap[i]))
          /\ live' = live \cup {Len(lines) + 1}
          /\ Goto(t, At("merge", tab[t].snap, tab[t].todo \ {i}, 0))
  /\ UNCHANGED <<removed, late, guest, user, order, checkouts, balance, credited>>

\* Mutant: the guest cart is deleted whatever happened to its lines.
MergeDeleteEarly(t) ==
  /\ tab[t].pc = "merge"
  /\ live' = {i \in live : lines[i].cart = "customer"}
  /\ guest' = FALSE
  /\ Leave(t)
  /\ UNCHANGED <<lines, removed, late, user, order, checkouts, balance, credited>>

\* The guest cart is deleted with the lines it has now, those that were not
\* there when they were read included, and forgotten by the session.
MergeDelete(t) ==
  /\ tab[t].pc = "merge" /\ tab[t].todo = {}
  /\ live' = {i \in live : lines[i].cart = "customer"}
  /\ guest' = FALSE
  /\ Leave(t)
  /\ UNCHANGED <<lines, removed, late, user, order, checkouts, balance, credited>>

-----------------------------------------------------------------------------
(* checkout_cart *)

\* compute_cart_line, without a duration discount.
LinePrice(i) == Price[lines[i].plan] * lines[i].duration

\* The selected lines and their prices are read; a method says how a
\* shortfall is paid ("none": no method was chosen).
Snapshot(t, S, method) ==
  /\ user /\ ~guest /\ tab[t].pc = "idle"
  /\ S # {} /\ \A i \in S : lines[i].cart = "customer"
  /\ Goto(t, At(method, [i \in Pks |-> IF i \in S THEN LinePrice(i) ELSE 0], S, 0))
  /\ UNCHANGED <<cart, order, checkouts, balance, credited>>

Snap(t) == tab[t].snap
Picked(t) == tab[t].todo
Total(t) == SumOf(Snap(t), Picked(t))

\* Mutant: no unique index on the idempotency key.
KeysAlwaysFree(t) == TRUE

\* "cart:<cart>:item:<item>" is unique among the orders.
KeysFree(t) == \A i \in Picked(t) : order[i].status = "absent"

\* The orders of the lines, their checkout, and the lines gone.
Place(t, status, c) ==
  /\ order' = [i \in Pks |-> IF i \in Picked(t)
                 THEN [status |-> status, amount |-> Snap(t)[i], checkout |-> c]
                 ELSE order[i]]
  /\ live' = live \ Picked(t)
  /\ UNCHANGED <<lines, removed, late, guest, user>>

Checkout(path, status, S, short) ==
  [path |-> path, status |-> status, wanted |-> S, short |-> short]

\* The transaction rolls back: a key is taken, the gateway fails, a
\* provisioner raises, or the process dies.  The cart is as it was.
RollBack(t) ==
  /\ tab[t].pc \in {"qris_static", "pay", "fund"}
  /\ Leave(t)
  /\ UNCHANGED <<cart, order, checkouts, balance, credited>>

Sellers(t) == {Seller[lines[i].plan] : i \in Picked(t)}

\* Static QRIS: one seller who accepts it, orders that wait for the seller.
CheckoutQris(t) ==
  /\ tab[t].pc = "qris_static" /\ KeysFree(t) /\ Len(checkouts) < MaxCheckouts
  /\ \E s \in QrisReady : Sellers(t) = {s}
  /\ checkouts' = Append(checkouts, Checkout("qris", "pending", Picked(t), 0))
  /\ Place(t, "pending", Len(checkouts) + 1)
  /\ Leave(t)
  /\ UNCHANGED <<balance, credited>>

\* The balance is read without a lock.  When it covers the total the
\* COMPLETED row is created first, in a transaction of its own.
ReadBalance(t) ==
  /\ tab[t].pc \in {"gateway", "none"}
  /\ IF balance >= Total(t)
     THEN /\ Len(checkouts) < MaxCheckouts
          /\ checkouts' = Append(checkouts, Checkout("wallet", "completed", Picked(t), 0))
          /\ Goto(t, At("pay", Snap(t), Picked(t), Len(checkouts) + 1))
     ELSE /\ IF tab[t].pc = "none" THEN Leave(t)  \* CartPaymentMethodRequiredError
             ELSE Goto(t, At("fund", Snap(t), Picked(t), Total(t) - balance))
          /\ UNCHANGED checkouts
  /\ UNCHANGED <<cart, order, balance, credited>>

\* Mutant: a transaction per line, some of which are never reached.
PayLineByLine(t) ==
  \E paid \in SUBSET Picked(t) :
    LET due == SumOf(Snap(t), paid) IN
    /\ tab[t].pc = "pay" /\ KeysFree(t) /\ balance >= due
    /\ balance' = balance - due
    /\ order' = [i \in Pks |-> IF i \in paid
                   THEN [status |-> "paid", amount |-> Snap(t)[i], checkout |-> tab[t].checkout]
                   ELSE order[i]]
    /\ live' = live \ paid
    /\ Leave(t)
    /\ UNCHANGED <<lines, removed, late, guest, user, checkouts, credited>>

\* Every line is ordered, debited under the wallet's lock and provisioned in
\* one transaction; too little balance for one of them ends it for all.
PayFromWallet(t) ==
  /\ tab[t].pc = "pay" /\ KeysFree(t) /\ balance >= Total(t)
  /\ balance' = balance - Total(t)
  /\ Place(t, "paid", tab[t].checkout)
  /\ Leave(t)
  /\ UNCHANGED <<checkouts, credited>>

\* Orders, checkout, top-up and the gateway call in one transaction; the
\* top-up is for the shortfall found before.
FundByGateway(t) ==
  /\ tab[t].pc = "fund" /\ KeysFree(t) /\ Len(checkouts) < MaxCheckouts
  /\ checkouts' = Append(checkouts,
       Checkout("gateway", "pending", Picked(t), tab[t].checkout))
  /\ Place(t, "pending", Len(checkouts) + 1)
  /\ Leave(t)
  /\ UNCHANGED <<balance, credited>>

-----------------------------------------------------------------------------
(* Finishing the pending orders *)

Pending(c) == {i \in Pks : order[i].checkout = c /\ order[i].status = "pending"}

\* The top-up is credited once, then complete_cart_checkout reads its orders.
Credit(t, c) ==
  /\ tab[t].pc = "idle" /\ checkouts[c].short > 0
  /\ balance' = balance + checkouts[c].short
  /\ credited' = credited + checkouts[c].short
  /\ checkouts' = [checkouts EXCEPT ![c].short = 0]
  /\ Goto(t, At("complete", NoSnap, Pending(c), c))
  /\ UNCHANGED <<cart, order>>

\* order_confirm_payment and order_reject_payment of a line that waits.
SellerActs(t, c, what) ==
  /\ tab[t].pc = "idle" /\ checkouts[c].path = "qris" /\ Pending(c) # {}
  /\ Goto(t, At(what, NoSnap, Pending(c), c))
  /\ UNCHANGED <<cart, order, checkouts, balance, credited>>

\* Looked up again under the order's lock.
StillPending(i) == order[i].status = "pending"

Decided(i, status) == order' = [order EXCEPT ![i].status = status]

\* complete_pending_order, confirm_manual_payment, reject_manual_payment of
\* one line; an order the balance cannot pay stays pending.
FinishLine(t, i) ==
  /\ tab[t].pc \in {"complete", "confirm", "reject"} /\ i \in tab[t].todo
  /\ Goto(t, At(tab[t].pc, NoSnap, tab[t].todo \ {i}, tab[t].checkout))
  /\ IF tab[t].pc = "complete"
     THEN IF StillPending(i) /\ balance >= order[i].amount
          THEN Decided(i, "paid") /\ balance' = balance - order[i].amount
          ELSE UNCHANGED <<order, balance>>
     ELSE /\ IF StillPending(i)
             THEN Decided(i, IF tab[t].pc = "confirm" THEN "paid" ELSE "failed")
             ELSE UNCHANGED order
          /\ UNCHANGED balance
  /\ UNCHANGED <<cart, checkouts, credited>>

\* Mutant: the checkout is completed after the first line.
FinishEarly(t) ==
  /\ tab[t].pc \in {"complete", "confirm", "reject"}
  /\ checkouts' = IF tab[t].pc = "reject" THEN checkouts
                  ELSE [checkouts EXCEPT ![tab[t].checkout].status = "completed"]
  /\ Leave(t)
  /\ UNCHANGED <<cart, order, balance, credited>>

\* After the loop the checkout is COMPLETED; a rejected one stays PENDING.
Finish(t) ==
  /\ tab[t].pc \in {"complete", "confirm", "reject"} /\ tab[t].todo = {}
  /\ checkouts' = IF tab[t].pc = "reject" THEN checkouts
                  ELSE [checkouts EXCEPT ![tab[t].checkout].status = "completed"]
  /\ Leave(t)
  /\ UNCHANGED <<cart, order, balance, credited>>

\* The process dies between two transactions, or the request fails: among
\* others one for a guest cart that is no longer there.
Crash(t) ==
  /\ tab[t].pc \in {"guest", "merge", "complete", "confirm", "reject"}
  /\ Leave(t)
  /\ UNCHANGED <<cart, order, checkouts, balance, credited>>

-----------------------------------------------------------------------------
Next ==
  \/ \E c \in {"guest", "customer"} :
       \/ \E p \in Plans, d \in Durations : add_to_cart(c, p, d)
       \/ \E i \in live : \/ remove_from_cart(c, i)
                         \/ \E d \in Durations : update_cart_item(c, i, d)
  \/ Login
  \/ \E t \in Tabs :
       \/ ResolveGuest(t) \/ MergeRead(t) \/ MergeDelete(t) \/ \E i \in Pks : MergeLine(t, i)
       \/ \E S \in SUBSET live, m \in {"none", "gateway", "qris_static"} : Snapshot(t, S, m)
       \/ CheckoutQris(t) \/ ReadBalance(t) \/ PayFromWallet(t) \/ FundByGateway(t)
       \/ RollBack(t)
       \/ \E c \in DOMAIN checkouts :
            Credit(t, c) \/ \E w \in {"confirm", "reject"} : SellerActs(t, c, w)
       \/ \E i \in Pks : FinishLine(t, i)
       \/ Finish(t) \/ Crash(t)

Spec == Init /\ [][Next]_vars

-----------------------------------------------------------------------------
(* Properties *)

LineRow == [cart : {"guest", "customer"}, plan : Plans, duration : Nat \ {0}]
OrderRow == [status : {"absent", "pending", "paid", "failed"}, amount : Nat, checkout : Nat]
CheckoutRow == [path : {"wallet", "gateway", "qris"}, short : Nat,
                status : {"pending", "completed"}, wanted : SUBSET Pks]
TabRow == [pc : {"idle", "guest", "merge", "none", "gateway", "qris_static", "pay", "fund",
                 "complete", "confirm", "reject"},
           snap : [Pks -> Nat], todo : SUBSET Pks, checkout : Nat]

TypeOK ==
  /\ lines \in Seq(LineRow) /\ Len(lines) <= MaxLines
  /\ live \subseteq DOMAIN lines /\ removed \subseteq DOMAIN lines /\ late \subseteq DOMAIN lines
  /\ guest \in BOOLEAN /\ user \in BOOLEAN
  /\ order \in [Pks -> OrderRow] /\ checkouts \in Seq(CheckoutRow)
  /\ balance \in Nat /\ credited \in Nat
  /\ tab \in [Tabs -> TabRow]

\* The plan has come into the customer's cart.
Arrived(p) == \E j \in DOMAIN lines : lines[j].cart = "customer" /\ lines[j].plan = p

Amounts == [i \in Pks |-> order[i].amount]
PaidFromWallet ==
  {i \in Pks : order[i].status = "paid" /\ checkouts[order[i].checkout].path # "qris"}
OrdersOf(c) == {i \in Pks : order[i].checkout = c}

\* No line gets lost and none is both bought and still in the cart: whatever
\* requests overlap, fail or roll back, a line of the customer's cart exists,
\* was removed by the buyer or has been ordered, exactly one of them, except
\* that one removed while a checkout is under way is ordered all the same
\* (checkout_cart); and a guest line that is gone was removed or its plan came
\* into the customer's cart (_merge_cart), except one that another request
\* inserted after a merge had begun, which the merge deletes with the guest
\* cart if it has read the lines already.
NoLineLost ==
  \A i \in DOMAIN lines :
    IF lines[i].cart = "customer"
    THEN i \in live <=> i \notin removed /\ order[i].status = "absent"
    ELSE i \in live \cup removed \cup late \/ Arrived(lines[i].plan)

\* The wallet has lost exactly the amounts of the orders that were paid from
\* it: two checkouts of one line pay once, and a rolled back one pays nothing.
BooksBalance == balance + SumOf(Amounts, PaidFromWallet) = StartBalance + credited

\* A checkout orders every line it was asked for or none of them, and on the
\* wallet path all are PAID (checkout_cart's transactions).
AllOrNothing ==
  \A c \in DOMAIN checkouts :
    /\ OrdersOf(c) \in {{}, checkouts[c].wanted}
    /\ checkouts[c].path = "wallet" => \A i \in OrdersOf(c) : order[i].status = "paid"

\* A COMPLETED static QRIS checkout has no line left that waits for the
\* seller, even when confirmation and rejection run at once or die half way
\* (confirm_cart_manual_payment).
CompletedIsDecided ==
  \A c \in DOMAIN checkouts :
    checkouts[c].path = "qris" /\ checkouts[c].status = "completed" => Pending(c) = {}

=============================================================================
