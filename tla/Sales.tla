------------------------------- MODULE Sales -------------------------------
(***************************************************************************)
(* Buyers of one plan: the checkout page and its POST (storefront          *)
(* checkout_plan) and the cart, as far as price, stock and voucher go; how *)
(* an order is paid is the subject of Checkout, Cart and TopUp.  The page  *)
(* is read, then posted; the POST reads plan, paid orders and voucher and  *)
(* calls checkout() with what it read.                                     *)
(***************************************************************************)
EXTENDS Pricing, Sequences, FiniteSets

CONSTANTS
  Buyers,       \* browser tabs of buyers
  Sessions,     \* what a behaviour is about: orders bounds the orders, durations
                \* are asked for, amounts typed as a price (0 for none); see
                \* Catalog for the other fields
  NullStock     \* stock_quantity is null

Unlimited == 1000   \* more than any number of orders

CouponRows == [percent : BOOLEAN, value : Nat, max_discount : Nat, usage_limit : Nat,
               used_count : Nat, is_active : BOOLEAN]

PlanOK(p) ==
  /\ p.price \in Nat /\ p.min_price \in Nat /\ p.stock \in Nat \cup {NullStock}
  /\ \A dm \in DOMAIN p.tiers : p.tiers[dm] \in Nat

\* The rows a shop starts with or is given: amounts are not negative and no
\* voucher has been used more often than it may be.
SalesOK ==
  /\ IsFiniteSet(Buyers) /\ Buyers # {}
  /\ NoCoupon \notin CouponRows
  /\ \A s \in Sessions :
       /\ s.orders \in 0 .. Unlimited
       /\ s.durations \subseteq Nat /\ s.amounts \subseteq Nat
       /\ \A p \in s.plans : PlanOK(p)
       /\ \A c \in s.coupons : c \in CouponRows /\ (c.usage_limit > 0 => c.used_count <= c.usage_limit)

ASSUME SalesAssumption == SalesOK

VARIABLES
  session,    \* the one of Sessions that this behaviour is about
  products,   \* Product rows: slug, type, visibility, questions and (module
              \* Catalog) plans
  plan,       \* the Plan row that is sold, of products[1]
  coupon,     \* the Coupon row
  orders,     \* Order rows: paid, redeemed (they use the coupon) and, auxiliary,
              \* checked: paid by the call that looked at stock and usage limit
  buyer,      \* buyer[b]: program point, what was asked for, quoted and read
  tops        \* greatest stock and usage limit so far; redemptions that edits
              \* of the voucher have overwritten (auxiliary)

salesvars == <<session, products, plan, coupon, orders, buyer, tops>>

Absent == [pc |-> "away"]
Paid == {o \in DOMAIN orders : orders[o].paid}

StockTop(p) == IF p.stock = NullStock THEN Unlimited ELSE p.stock
LimitTop(c) == IF c.usage_limit = 0 THEN Unlimited ELSE c.usage_limit

\* What decides the price: the rows, without the count of redemptions.
Terms(c) == [type |-> products[1].type, plan |-> plan,
             coupon |-> IF c = NoCoupon THEN c ELSE [c EXCEPT !.used_count = 0]]

OnSale == plan.is_active /\ products[1].visibility # "draft"

-----------------------------------------------------------------------------
\* GET of checkout_plan: the price is shown, for a duration and a voucher code.
OpenCheckout(b, asked, code) ==
  /\ buyer[b].pc = "away"
  /\ products # <<>> /\ OnSale
  /\ LET c == Resolve(code, coupon)
     IN  buyer' = [buyer EXCEPT ![b] =
           [pc |-> "page", asked |-> asked, code |-> code, questions |-> products[1].questions,
            quote |-> quote(plan, asked, c), terms |-> Terms(c)]]
  /\ UNCHANGED <<session, products, plan, coupon, orders, tops>>

\* cart_add and cart_view; a plan whose price the buyer names and a product with
\* questions are refused, and the view passes no voucher on.
OpenCart(b, asked) ==
  /\ buyer[b].pc = "away"
  /\ products # <<>> /\ plan.is_active /\ ~plan.pwyw /\ products[1].questions = {}
  /\ buyer' = [buyer EXCEPT ![b] =
       [pc |-> "cart", asked |-> asked, code |-> FALSE,
        quote |-> compute_cart_line(plan, asked, NoCoupon).amount, terms |-> Terms(NoCoupon)]]
  /\ UNCHANGED <<session, products, plan, coupon, orders, tops>>

\* Mutant: the stock is not looked at.
InStockUnchecked == TRUE

InStock == plan.stock # NullStock => Cardinality(Paid) < plan.stock

\* The buyer has answered the questions of the page; one that is required and was
\* added since then sends the buyer back.
Answered(b) == \A q \in products[1].questions : q.required => q \in buyer[b].questions

\* POST of checkout_plan up to the call of checkout(): a voucher that has become
\* invalid meanwhile is left out with a warning.
SubmitCheckout(b, typed) ==
  /\ buyer[b].pc = "page"
  /\ OnSale /\ Answered(b) /\ InStock
  /\ LET c == Resolve(buyer[b].code, coupon)
         due == charge(products[1].type, plan, buyer[b].asked, c, price_override(plan, typed))
     IN  buyer' = [buyer EXCEPT ![b] =
           [pc |-> "checkout", quote |-> @.quote, terms |-> @.terms,
            now |-> Terms(c), due |-> due, limit |-> coupon.usage_limit,
            free |-> IsFree(products[1].type, plan, price_override(plan, typed))]]
  /\ UNCHANGED <<session, products, plan, coupon, orders, tops>>

\* POST of cart_checkout_view: the lines are priced again; no stock is looked at.
SubmitCart(b) ==
  /\ buyer[b].pc = "cart"
  /\ buyer' = [buyer EXCEPT ![b] =
       [pc |-> "checkout_cart", quote |-> @.quote, terms |-> @.terms,
        now |-> Terms(NoCoupon), due |-> compute_cart_line(plan, @.asked, NoCoupon),
        limit |-> 0, free |-> FALSE]]
  /\ UNCHANGED <<session, products, plan, coupon, orders, tops>>

\* Mutant: the voucher is counted without a look at the limit.
UsableUnchecked == TRUE

\* filter(Q(usage_limit=0) | Q(used_count__lt=F("usage_limit")))
Usable == coupon.usage_limit > 0 => coupon.used_count < coupon.usage_limit

Redeem == coupon' = IF Usable THEN [coupon EXCEPT !.used_count = @ + 1] ELSE coupon

\* The order is paid from the wallet or free, in one transaction with the use of
\* the voucher; CouponLimitError rolls it back.
PayNow(b) ==
  LET redeemed == buyer[b].due.discount > 0 IN
  /\ buyer[b].pc \in {"checkout", "checkout_cart"}
  /\ Len(orders) < session.orders
  /\ IF redeemed /\ ~Usable /\ buyer[b].limit > 0
       THEN UNCHANGED <<orders, coupon>>
       ELSE /\ orders' = Append(orders, [paid |-> TRUE, redeemed |-> redeemed,
                                         checked |-> buyer[b].pc = "checkout"])
            /\ IF redeemed THEN Redeem ELSE UNCHANGED coupon
  /\ buyer' = [buyer EXCEPT ![b] = Absent]
  /\ UNCHANGED <<session, products, plan, tops>>

\* Gateway and static QRIS: the order waits for its payment ...
PayLater(b) ==
  /\ buyer[b].pc \in {"checkout", "checkout_cart"}
  /\ ~buyer[b].free
  /\ Len(orders) < session.orders
  /\ orders' = Append(orders, [paid |-> FALSE, redeemed |-> buyer[b].due.discount > 0,
                               checked |-> FALSE])
  /\ buyer' = [buyer EXCEPT ![b] = Absent]
  /\ UNCHANGED <<session, products, plan, coupon, tops>>

\* ... and neither stock nor limit is looked at when that arrives.
CompletePending(o) ==
  /\ ~orders[o].paid
  /\ orders' = [orders EXCEPT ![o].paid = TRUE]
  /\ IF orders[o].redeemed THEN Redeem ELSE UNCHANGED coupon
  /\ UNCHANGED <<session, products, plan, buyer, tops>>

\* The page is closed, or the request ends in an error.
Leave(b) ==
  /\ buyer[b].pc # "away"
  /\ buyer' = [buyer EXCEPT ![b] = Absent]
  /\ UNCHANGED <<session, products, plan, coupon, orders, tops>>

Buy(b) ==
  \/ \E asked \in session.durations : OpenCart(b, asked) \/ \E code \in BOOLEAN : OpenCheckout(b, asked, code)
  \/ \E typed \in session.amounts : SubmitCheckout(b, typed)
  \/ SubmitCart(b) \/ PayNow(b) \/ PayLater(b) \/ Leave(b)

-----------------------------------------------------------------------------
\* The buyer is charged what the page showed, unless plan, product or voucher
\* were edited or the voucher was used up in between: the three price
\* computations agree for every kind of plan.  (A buyer who names a price and a
\* free product with a price are the exceptions the page does not show.)
QuoteHonoured ==
  \A b \in Buyers :
    buyer[b].pc \in {"checkout", "checkout_cart"} /\ buyer[b].now = buyer[b].terms =>
      \/ buyer[b].due.amount = buyer[b].quote
      \/ buyer[b].terms.plan.pwyw
      \/ buyer[b].terms.type = "free" /\ buyer[b].due.amount = 0

CheckedSales == {o \in Paid : orders[o].checked}

\* Buyers who pay at once oversell the stock by no more than the requests that
\* were past the stock check when the last piece was paid, one per other buyer.
\* (Orders paid later and carts are not checked at all.)
OversoldOnlyByOverlap ==
  Cardinality(CheckedSales) <= tops.stock + Cardinality(Buyers) - 1

\* Purchases paid at once redeem a voucher no more often than its limit, except
\* for the redemptions that voucher_edit, which saves the count it read, has
\* overwritten.
RedeemedWithinLimit ==
  Cardinality({o \in CheckedSales : orders[o].redeemed}) <= tops.limit + tops.lost
=============================================================================
