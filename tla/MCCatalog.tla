----------------------------- MODULE MCCatalog -----------------------------
EXTENDS Catalog, TLC
CONSTANTS t1, t2, b1, b2
MCWindows == {t1, t2}
MCBuyers == {b1, b2}
Fixed == [price |-> 10, recurring |-> FALSE, pwyw |-> FALSE, min_price |-> 0,
          tiers |-> <<>>, stock |-> NullStock, is_active |-> TRUE]
Scarce == [Fixed EXCEPT !.stock = 1]
Prepaid == [Fixed EXCEPT !.price = 7, !.recurring = TRUE, !.tiers = <<0, 15>>]
Named == [Fixed EXCEPT !.pwyw = TRUE, !.min_price = 5]
Gift == [Fixed EXCEPT !.price = 0, !.pwyw = TRUE]
Percent == [percent |-> TRUE, value |-> 50, max_discount |-> 3, usage_limit |-> 1,
            used_count |-> 0, is_active |-> TRUE]
Whole == [percent |-> FALSE, value |-> 8, max_discount |-> 0, usage_limit |-> 0,
          used_count |-> 0, is_active |-> TRUE]
Shop == [requests |-> 3, does |-> {}, plans |-> {Fixed}, coupons |-> {Whole},
         types |-> {"one_time"}, names |-> {"second"}, orders |-> 0, durations |-> {1}, amounts |-> {0}]
MCSessions ==
  { [Shop EXCEPT !.requests = 5, !.does = {"apply", "onboarding", "staff"},
                 !.types = {"free", "one_time"}, !.names = {"second", "third"}],
    [Shop EXCEPT !.requests = 4, !.does = {"store", "store_publish_toggle", "block_add",
                                           "block_remove", "block_toggle_visibility"}],
    [Shop EXCEPT !.does = {"settings", "product_create", "product_delete", "block_add", "staff"}],
    [Shop EXCEPT !.does = {"plan_create", "plan_edit", "product_edit"}],
    [Shop EXCEPT !.does = {"entitlement_add", "entitlement_remove", "product_create"}],
    [Shop EXCEPT !.requests = 2, !.does = {"buy", "question_add", "question_remove"}, !.orders = 1],
    [Shop EXCEPT !.requests = 1, !.does = {"buy", "plan_edit", "product_edit"}, !.orders = 1,
                 !.plans = {Fixed, Prepaid, Named, Gift}, !.types = {"free", "one_time"},
                 !.coupons = {Percent, Whole}, !.durations = {1, 2}, !.amounts = {0, 6}],
    [Shop EXCEPT !.requests = 1, !.does = {"buy", "plan_edit"}, !.orders = 3,
                 !.plans = {Scarce, [Scarce EXCEPT !.stock = 0]}],
    [Shop EXCEPT !.requests = 2, !.does = {"buy", "voucher_edit", "voucher_toggle"},
                 !.orders = 2, !.coupons = {Percent, Whole}] }
Symmetry == Permutations(MCWindows) \cup Permutations(MCBuyers)
=============================================================================
