------------------------------ MODULE Pricing ------------------------------
(***************************************************************************)
(* What a plan costs.  The price is computed in three places: on the       *)
(* checkout page (GET of storefront checkout_plan), in checkout() and for a*)
(* line of the cart.  Each is translated on its own, so that they can be   *)
(* compared.  Amounts are whole rupiah.                                    *)
(*                                                                         *)
(* A plan is a record [price, recurring (interval is not "none"), pwyw,    *)
(* min_price, tiers (duration_discounts), stock, is_active], a coupon a    *)
(* record [percent, value, max_discount, usage_limit, used_count,          *)
(* is_active]; is_active also stands for its dates.  Coupon.min_order is   *)
(* read nowhere.                                                           *)
(***************************************************************************)
EXTENDS Integers, FiniteSetsExt

CONSTANT NoCoupon

Least(a, b) == Min({a, b})
Most(a, b) == Max({a, b})

\* plan.duration_discounts.get(str(dm), 0)
Tier(plan, dm) == IF dm \in DOMAIN plan.tiers THEN plan.tiers[dm] ELSE 0

compute_discount(c, amount) ==
  LET cut == (amount * c.value) \div 100
  IN  Least(amount, IF ~c.percent THEN c.value
                    ELSE IF c.max_discount > 0 THEN Least(cut, c.max_discount) ELSE cut)

is_valid_for(c) ==
  c.is_active /\ (c.usage_limit > 0 => c.used_count < c.usage_limit)

\* Coupon.objects.get(code) and is_valid_for: what the views go on with.
Resolve(code, c) == IF code /\ is_valid_for(c) THEN c ELSE NoCoupon

\* effective_price on the checkout page, for the duration asked for.  It shows
\* plan.price also where the buyer may name a price.
quote(plan, asked, c) ==
  LET dm == IF plan.recurring THEN Most(1, asked) ELSE 1
      subtotal == plan.price * dm
      base == IF plan.recurring /\ dm > 1
              THEN subtotal - (subtotal * Tier(plan, dm)) \div 100
              ELSE plan.price
      discount == IF c = NoCoupon THEN 0 ELSE compute_discount(c, base)
  IN  Most(0, base - discount)

Unnamed == -1   \* price_override is None

\* price_override of checkout_plan: what the buyer typed, 0 if nothing.
price_override(plan, typed) ==
  IF ~plan.pwyw THEN Unnamed
  ELSE IF typed > 0 THEN Most(typed, plan.min_price)
  ELSE IF plan.min_price > 0 THEN plan.min_price ELSE plan.price

pwyw_price(plan, override) ==
  IF override # Unnamed /\ plan.pwyw THEN Most(override, plan.min_price) ELSE 0

\* The branch of checkout() that charges nothing.
IsFree(type, plan, override) ==
  type = "free" \/ (plan.price = 0 /\ pwyw_price(plan, override) = 0)

\* Mutant: the coupon is taken off before the duration is multiplied.
DiscountedEarly(type, plan, asked, c, override) ==
  LET named == pwyw_price(plan, override)
      dm == IF plan.recurring THEN Most(1, asked) ELSE 1
      first == IF named > 0 THEN named ELSE plan.price
      discount == IF c = NoCoupon THEN 0 ELSE compute_discount(c, first)
      subtotal == (first - discount) * dm
      base == subtotal - (subtotal * Tier(plan, dm)) \div 100
  IN  IF IsFree(type, plan, override) THEN [amount |-> 0, discount |-> 0]
      ELSE [amount |-> base, discount |-> discount]

\* amount and discount of the Order checkout() creates.
charge(type, plan, asked, c, override) ==
  LET named == pwyw_price(plan, override)
      dm == IF plan.recurring THEN Most(1, asked) ELSE 1
      first == IF named > 0 THEN named ELSE plan.price
      subtotal == first * dm
      base == IF dm > 1 THEN subtotal - (subtotal * Tier(plan, dm)) \div 100 ELSE first
      discount == IF c # NoCoupon /\ is_valid_for(c) THEN compute_discount(c, base) ELSE 0
  IN  IF IsFree(type, plan, override) THEN [amount |-> 0, discount |-> 0]
      ELSE [amount |-> Most(0, base - discount), discount |-> discount]

\* A line of the cart; neither the type of the product nor pwyw is looked at.
compute_cart_line(plan, asked, c) ==
  LET dm == IF plan.recurring THEN Most(1, asked) ELSE 1
      subtotal == plan.price * dm
      base == IF dm > 1 THEN subtotal - (subtotal * Tier(plan, dm)) \div 100 ELSE plan.price
      discount == IF c = NoCoupon THEN 0 ELSE compute_discount(c, base)
  IN  [amount |-> Most(0, base - discount), discount |-> discount]
=============================================================================
