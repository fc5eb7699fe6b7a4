------------------------------ MODULE Catalog ------------------------------
(***************************************************************************)
(* The seller's side of the shop: apply() and onboarding(), the store page *)
(* and its blocks, products, plans with their deliverables, vouchers and   *)
(* settings (apps/seller/views.py), while buyers buy (module Sales).       *)
(*                                                                         *)
(* None of these views opens a transaction or takes a lock.  A request     *)
(* passes its gate and reads its rows in one step and is then a sequence of*)
(* statements, each a step: requests of two windows interleave, and a      *)
(* worker may die between two statements.  A statement holds the values    *)
(* that the request read or was given; Model.save() without update_fields  *)
(* writes back every column it read.                                       *)
(***************************************************************************)
EXTENDS Sales

CONSTANTS
  Windows,    \* browser windows of the seller
  MaxCrashes  \* bound; further, of a session, requests bounds the requests of the
              \* seller, does are the kinds of requests (and "buy", "staff") that
              \* occur, plans, coupons, types and names the rows there may be

CatalogOK == SalesOK /\ IsFiniteSet(Windows) /\ Windows # {} /\ MaxCrashes \in Nat

ASSUME CatalogAssumption == CatalogOK

VARIABLES
  profile,  \* SellerProfile: exists, is_approved, onboarding_completed, onboarding_step
  page,     \* StorePage.is_published (the row is made with the profile)
  blocks,   \* Block rows: product, is_visible, deleted
  ents,     \* number of Entitlement rows with one key
  request,  \* request[t]: of the request of window t, the statements still to
            \* execute, and the product and the plan they are about
  begun, crashes

shopvars == <<salesvars, profile, page, blocks, ents, request, begun, crashes>>

NoRequest == [todo |-> <<>>, product |-> 0, plan |-> 0]
NewProduct(type, visibility, name) ==
  [type |-> type, visibility |-> visibility, slug |-> name, questions |-> {}, plans |-> <<>>]
NewPlan == [deliverables |-> 0, entitlements |-> {}]
NoProfile == [exists |-> FALSE, is_approved |-> TRUE, completed |-> FALSE, step |-> "identity"]
Doing(kind) == kind \in session.does

\* A new user who applies, or a shop in business.
ShopInit ==
  /\ session \in Sessions
  /\ plan \in session.plans /\ coupon \in session.coupons
  /\ tops = [stock |-> StockTop(plan), limit |-> LimitTop(coupon), lost |-> 0]
  /\ orders = <<>>
  /\ buyer = [b \in Buyers |-> Absent]
  /\ page = FALSE /\ blocks = <<>> /\ ents = 0
  /\ request = [t \in Windows |-> NoRequest]
  /\ begun = 0 /\ crashes = 0
  /\ IF Doing("apply")
       THEN profile = NoProfile /\ products = <<>>
       ELSE /\ profile = [NoProfile EXCEPT !.exists = TRUE, !.completed = TRUE, !.step = "publish"]
            /\ \E type \in session.types :
                 products = << [NewProduct(type, "public", "first") EXCEPT
                                  !.plans = <<[NewPlan EXCEPT !.deliverables = 1]>>] >>

-----------------------------------------------------------------------------
(* Requests *)

\* The rest of a request: its statements, and the rows they are about.
Begin(t, kind, i, j, statements) ==
  /\ Doing(kind) /\ request[t] = NoRequest
  /\ begun < session.requests
  /\ begun' = begun + 1
  /\ request' = [request EXCEPT ![t] = IF statements = <<>> THEN NoRequest
                                       ELSE [todo |-> statements, product |-> i, plan |-> j]]
  /\ UNCHANGED <<salesvars, profile, page, blocks, ents, crashes>>

\* seller_required
Admitted == profile.exists /\ profile.is_approved /\ profile.completed

apply(t) == ~profile.exists /\ Begin(t, "apply", 0, 0, <<[op |-> "create_profile"]>>)

\* Mutant: the next step is recorded before the product has its plan and block.
ProductStepEarly(type, name) ==
  <<[op |-> "product", row |-> NewProduct(type, "public", name)],
    [op |-> "step", step |-> "publish"], [op |-> "plan"], [op |-> "block"]>>

\* The second step of the wizard, free or one-time by the price that is typed; its
\* plan gets no deliverable.
ProductStep(type, name) ==
  <<[op |-> "product", row |-> NewProduct(type, "public", name)],
    [op |-> "plan"], [op |-> "block"], [op |-> "step", step |-> "publish"]>>

\* The step is the one of the profile that was read; the first saves the whole
\* page, the last is_published alone.
onboarding(t, type, name) ==
  /\ profile.exists /\ profile.is_approved /\ ~profile.completed
  /\ Begin(t, "onboarding", 0, 0,
       CASE profile.step = "identity" -> <<[op |-> "page", is_published |-> page],
                                           [op |-> "step", step |-> "product"]>>
         [] profile.step = "product"  -> ProductStep(type, name)
         [] profile.step = "publish"  -> <<[op |-> "page", is_published |-> TRUE],
                                           [op |-> "completed"]>>)

\* settings: SellerProfileForm leaves is_approved and the wizard's columns as read.
settings(t) ==
  Admitted /\ Begin(t, "settings", 0, 0, <<[op |-> "profile", row |-> profile]>>)

\* store: StorePageForm and theme, is_published as read.
store(t) ==
  Admitted /\ Begin(t, "store", 0, 0, <<[op |-> "page", is_published |-> page]>>)

store_publish_toggle(t) ==
  Admitted /\ Begin(t, "store_publish_toggle", 0, 0, <<[op |-> "page", is_published |-> ~page]>>)

OnPage(i) == {k \in DOMAIN blocks : ~blocks[k].deleted /\ blocks[k].product = i}

\* Mutant: no look at the blocks that are there.
MissingUnchecked(i) == TRUE

\* get_or_create finds no block; one is left alone, several are an error.
Missing(i) == OnPage(i) = {}

block_add(t, i) ==
  Admitted /\ Begin(t, "block_add", i, 0, IF Missing(i) THEN <<[op |-> "block"]>> ELSE <<>>)

block_remove(t, k) ==
  /\ Admitted /\ ~blocks[k].deleted
  /\ Begin(t, "block_remove", 0, 0, <<[op |-> "block_delete", block |-> k]>>)

block_toggle_visibility(t, k) ==
  /\ Admitted /\ ~blocks[k].deleted
  /\ Begin(t, "block_toggle_visibility", 0, 0,
           <<[op |-> "block_show", block |-> k, is_visible |-> ~blocks[k].is_visible]>>)

product_create(t, type, visibility, name) ==
  Admitted /\ Begin(t, "product_create", 0, 0,
                    <<[op |-> "product", row |-> NewProduct(type, visibility, name)]>>)

product_edit(t, i, type, visibility) ==
  Admitted /\ Begin(t, "product_edit", i, 0,
                    <<[op |-> "product_row", type |-> type, visibility |-> visibility]>>)

\* product_delete hides the product and keeps the row.
product_delete(t, i) ==
  Admitted /\ Begin(t, "product_delete", i, 0, <<[op |-> "product_draft"]>>)

plan_create(t, i) ==
  Admitted /\ Begin(t, "plan_create", i, 0, <<[op |-> "plan"], [op |-> "deliverable"]>>)

\* plan_edit: the first deliverable of the plan is edited, or one is made.
plan_edit(t, i, j, row) ==
  Admitted /\ Begin(t, "plan_edit", i, j,
                    <<[op |-> "plan_row", row |-> row]>>
                    \o IF products[i].plans[j].deliverables = 0 THEN <<[op |-> "deliverable"]>> ELSE <<>>)

\* entitlement_add: the first row with the key is attached to the plan, or a new one.
entitlement_add(t, i, j) ==
  Admitted /\ Begin(t, "entitlement_add", i, j,
                    IF ents = 0 THEN <<[op |-> "entitlement"]>> ELSE <<[op |-> "attach", ent |-> 1]>>)

entitlement_remove(t, i, j, e) ==
  Admitted /\ Begin(t, "entitlement_remove", i, j, <<[op |-> "detach", ent |-> e]>>)

question_add(t, i, required) ==
  Admitted /\ Begin(t, "question_add", i, 0,
                    <<[op |-> "ask", question |-> [id |-> begun, required |-> required]]>>)

question_remove(t, i, q) ==
  Admitted /\ Begin(t, "question_remove", i, 0, <<[op |-> "unask", question |-> q]>>)

\* CouponForm leaves used_count as read.
voucher_edit(t, row) ==
  Admitted /\ Begin(t, "voucher_edit", 0, 0,
                    <<[op |-> "coupon", row |-> [row EXCEPT !.used_count = coupon.used_count]]>>)

voucher_toggle(t) ==
  Admitted /\ Begin(t, "voucher_toggle", 0, 0,
                    <<[op |-> "coupon_active", is_active |-> ~coupon.is_active]>>)

Serve(t) ==
  \/ apply(t) \/ settings(t) \/ store(t) \/ store_publish_toggle(t)
  \/ \E k \in DOMAIN blocks : block_remove(t, k) \/ block_toggle_visibility(t, k)
  \/ \E type \in session.types, visibility \in {"draft", "public"} :
       \/ \E name \in session.names : product_create(t, type, visibility, name)
       \/ \E i \in DOMAIN products : product_edit(t, i, type, visibility)
  \/ \E type \in session.types, name \in session.names : onboarding(t, type, name)
  \/ \E i \in DOMAIN products :
       \/ block_add(t, i) \/ product_delete(t, i) \/ plan_create(t, i)
       \/ \E required \in BOOLEAN : question_add(t, i, required)
       \/ \E q \in products[i].questions : question_remove(t, i, q)
       \/ \E j \in DOMAIN products[i].plans :
            \/ entitlement_add(t, i, j)
            \/ \E e \in 1..ents : entitlement_remove(t, i, j, e)
            \/ \E row \in session.plans : plan_edit(t, i, j, row)
  \/ \E row \in session.coupons : voucher_edit(t, row)
  \/ voucher_toggle(t)

-----------------------------------------------------------------------------
(* Statements *)

Now(t, op) == request[t].todo # <<>> /\ Head(request[t].todo).op = op
Arg(t) == Head(request[t].todo)

\* request[t] goes on to its next statement, about product i and plan j.
Proceed(t, i, j) ==
  request' = [request EXCEPT ![t] = IF Len(@.todo) = 1 THEN NoRequest
                                    ELSE [todo |-> Tail(@.todo), product |-> i, plan |-> j]]
Go(t) == Proceed(t, request[t].product, request[t].plan)
Abort(t) == request' = [request EXCEPT ![t] = NoRequest]

\* SellerProfile: user is unique, a second application fails.
SaveProfile(t) ==
  /\ \/ Now(t, "create_profile")
        /\ profile' = IF profile.exists THEN profile ELSE [NoProfile EXCEPT !.exists = TRUE]
     \/ Now(t, "profile") /\ profile' = Arg(t).row
     \/ Now(t, "step") /\ profile' = [profile EXCEPT !.step = Arg(t).step]
     \/ Now(t, "completed") /\ profile' = [profile EXCEPT !.completed = TRUE]
  /\ Go(t)
  /\ UNCHANGED <<salesvars, page, blocks, ents, begun, crashes>>

SavePage(t) ==
  /\ Now(t, "page")
  /\ page' = Arg(t).is_published
  /\ Go(t)
  /\ UNCHANGED <<salesvars, profile, blocks, ents, begun, crashes>>

\* A block that is gone is not saved: DatabaseError.
SaveBlock(t) ==
  /\ \/ /\ Now(t, "block")
        /\ blocks' = Append(blocks, [product |-> request[t].product, is_visible |-> TRUE,
                                     deleted |-> FALSE])
     \/ Now(t, "block_delete") /\ blocks' = [blocks EXCEPT ![Arg(t).block].deleted = TRUE]
     \/ /\ Now(t, "block_show")
        /\ blocks' = IF blocks[Arg(t).block].deleted THEN blocks
                     ELSE [blocks EXCEPT ![Arg(t).block].is_visible = Arg(t).is_visible]
  /\ Go(t)
  /\ UNCHANGED <<salesvars, profile, page, ents, begun, crashes>>

\* The slug is made from the name and unique; the forms do not check it, so a name
\* that is taken ends the request with an IntegrityError.
InsertProduct(t) ==
  LET taken == \E i \in DOMAIN products : products[i].slug = Arg(t).row.slug IN
  /\ Now(t, "product")
  /\ IF taken THEN Abort(t) /\ UNCHANGED products
     ELSE Proceed(t, Len(products) + 1, 0) /\ products' = Append(products, Arg(t).row)
  /\ UNCHANGED <<plan, coupon, orders, buyer, tops, session, profile, page, blocks, ents, begun, crashes>>

SaveProduct(t) ==
  LET i == request[t].product IN
  /\ \/ /\ Now(t, "product_row")
        /\ products' = [products EXCEPT ![i].type = Arg(t).type, ![i].visibility = Arg(t).visibility]
     \/ Now(t, "product_draft") /\ products' = [products EXCEPT ![i].visibility = "draft"]
     \/ /\ Now(t, "deliverable")
        /\ products' = [products EXCEPT ![i].plans[request[t].plan].deliverables = @ + 1]
     \/ /\ Now(t, "attach")
        /\ products' = [products EXCEPT ![i].plans[request[t].plan].entitlements = @ \cup {Arg(t).ent}]
     \/ /\ Now(t, "detach")
        /\ products' = [products EXCEPT ![i].plans[request[t].plan].entitlements = @ \ {Arg(t).ent}]
     \/ Now(t, "ask") /\ products' = [products EXCEPT ![i].questions = @ \cup {Arg(t).question}]
     \/ Now(t, "unask") /\ products' = [products EXCEPT ![i].questions = @ \ {Arg(t).question}]
  /\ Go(t)
  /\ UNCHANGED <<plan, coupon, orders, buyer, tops, session, profile, page, blocks, ents, begun, crashes>>

InsertPlan(t) ==
  LET i == request[t].product IN
  /\ Now(t, "plan")
  /\ products' = [products EXCEPT ![i].plans = Append(@, NewPlan)]
  /\ Proceed(t, i, Len(products[i].plans) + 1)
  /\ UNCHANGED <<plan, coupon, orders, buyer, tops, session, profile, page, blocks, ents, begun, crashes>>

\* The terms of the plan that is sold; those of other plans are left out.
SavePlan(t) ==
  LET row == IF request[t].product = 1 /\ request[t].plan = 1 THEN Arg(t).row ELSE plan IN
  /\ Now(t, "plan_row")
  /\ plan' = row
  /\ tops' = [tops EXCEPT !.stock = Most(@, StockTop(row))]
  /\ Go(t)
  /\ UNCHANGED <<products, coupon, orders, buyer, session, profile, page, blocks, ents, begun, crashes>>

SaveCoupon(t) ==
  /\ \/ /\ Now(t, "coupon")
        /\ coupon' = Arg(t).row
        /\ tops' = [tops EXCEPT !.limit = Most(@, LimitTop(coupon')),
                                !.lost = @ + Most(0, coupon.used_count - coupon'.used_count)]
     \/ /\ Now(t, "coupon_active")
        /\ coupon' = [coupon EXCEPT !.is_active = Arg(t).is_active]
        /\ UNCHANGED tops
  /\ Go(t)
  /\ UNCHANGED <<products, plan, orders, buyer, session, profile, page, blocks, ents, begun, crashes>>

\* The row is made, and attached to the plan by the next statement.
InsertEntitlement(t) ==
  /\ Now(t, "entitlement")
  /\ ents' = ents + 1
  /\ request' = [request EXCEPT ![t].todo = <<[op |-> "attach", ent |-> ents + 1]>>]
  /\ UNCHANGED <<salesvars, profile, page, blocks, begun, crashes>>

Statement(t) ==
  \/ SaveProfile(t) \/ SavePage(t) \/ SaveBlock(t) \/ InsertProduct(t) \/ SaveProduct(t)
  \/ InsertPlan(t) \/ SavePlan(t) \/ InsertEntitlement(t) \/ SaveCoupon(t)

\* The worker dies between two statements.
WorkerDies(t) ==
  /\ request[t] # NoRequest /\ crashes < MaxCrashes
  /\ crashes' = crashes + 1
  /\ Abort(t)
  /\ UNCHANGED <<salesvars, profile, page, blocks, ents, begun>>

\* Staff suspend a seller (SellerProfileAdmin).
Suspend ==
  /\ Doing("staff") /\ profile.exists /\ profile.is_approved
  /\ profile' = [profile EXCEPT !.is_approved = FALSE]
  /\ UNCHANGED <<salesvars, page, blocks, ents, request, begun, crashes>>

ShopNext ==
  \/ \E t \in Windows : Serve(t) \/ Statement(t) \/ WorkerDies(t)
  \/ Suspend
  \/ /\ Doing("buy")
     /\ (\E b \in Buyers : Buy(b)) \/ (\E o \in DOMAIN orders : CompletePending(o))
     /\ UNCHANGED <<profile, page, blocks, ents, request, begun, crashes>>

ShopSpec == ShopInit /\ [][ShopNext]_shopvars

-----------------------------------------------------------------------------
\* The wizard cannot be finished without something to sell: whatever windows
\* overlap, steps are repeated and workers die, the seller who completes it has
\* a public product with a plan and a visible block on the page.
OnboardedStoreIsSellable ==
  [][~profile.completed /\ profile'.completed =>
       \E i \in DOMAIN products :
         /\ products[i].visibility = "public" /\ products[i].plans # <<>>
         /\ \E k \in OnPage(i) : blocks[k].is_visible]_shopvars

\* No unique index backs get_or_create of a block, the key of an entitlement, nor
\* the deliverable that plan_edit adds to a plan without one: overlapping requests
\* make several, each of which is shown or granted.  There are never more than
\* overlapping windows.
RowsBoundedByOverlap ==
  /\ ents <= Cardinality(Windows)
  /\ \A i \in DOMAIN products :
       /\ Cardinality(OnPage(i)) <= Cardinality(Windows)
       /\ \A j \in DOMAIN products[i].plans :
            products[i].plans[j].deliverables <= Cardinality(Windows)
=============================================================================
