----------------------------- MODULE OrderRules -----------------------------
(***************************************************************************)
(* What apps/billing/checkout.py writes when an order becomes PAID, shared *)
(* by the modules in which orders are paid.  orders is a function from     *)
(* orders to their rows; a row counts the grants, subscriptions and seller *)
(* earnings that hang off it, so that a second fulfilment would show.      *)
(***************************************************************************)
EXTENDS Aggregates

NoOrder == [status |-> "absent", invoice |-> 0, grants |-> 0, subs |-> 0, earnings |-> 0]

OrderRow == [status : {"absent", "pending", "paid", "failed"},
             invoice : Nat, grants : Nat, subs : Nat, earnings : Nat]

\* _assign_invoice_number: one more than the largest number on any order.
\* The aggregate takes no row locks, so two transactions may compute the same.
assign_invoice_number(orders) ==
  Max({orders[o].invoice : o \in DOMAIN orders}) + 1

\* Mutant: the grants are made, the status is not saved.
FulfilUnsaved(row, invoice, recurring, earns) == [row EXCEPT !.grants = @ + 1]

\* Status, invoice number, subscription (recurring plans), grants and seller
\* earning (get_or_create: at most one per order) of a fulfilled order.
Fulfil(row, invoice, recurring, earns) ==
  [status   |-> "paid",
   invoice  |-> invoice,
   grants   |-> row.grants + 1,
   subs     |-> row.subs + (IF recurring THEN 1 ELSE 0),
   earnings |-> IF earns THEN 1 ELSE row.earnings]

\* UPDATE coupon SET used_count = used_count + 1
\*   WHERE usage_limit = 0 OR used_count < usage_limit
BumpUsage(used, limit) == IF limit = 0 \/ used < limit THEN used + 1 ELSE used
=============================================================================
