---------------------------- MODULE MCStorefront ----------------------------
(***************************************************************************)
(* Checkout, Cart, Pricing, Assistant and Knowledge for TLC.  They share   *)
(* no state: `component` says in the initial state which of them runs, so  *)
(* that one run explores them all.                                         *)
(***************************************************************************)
EXTENDS Checkout, Cart, Assistant, Knowledge, Pricing, TLC

CONSTANTS
  r1, r2, r3, o1, o2, u, v, d1, d2,
  Components  \* which of them the run explores

\* A customer with a retry and another customer, all with the same key.
TwoCustomers == <<u, u, v>>
SameKey == <<"k", "k", "k">>
\* Three requests of one customer, the last with a key of its own.
OneCustomer == <<u, u, u>>
TwoKeys == <<"k", "k", "l">>
-----------------------------------------------------------------------------
Asks(op, who, guest, qty) == [op |-> op, who |-> who, guest |-> guest, offer |-> o1, qty |-> qty]
\* A customer u, logged in on one browser, and the guest v of another one that logs in.
TheCalls == {Asks("add", u, NoGuest, 1), Asks("add", v, NoGuest, 1),
             Asks("update", u, NoGuest, 3), Asks("remove", u, NoGuest, 0),
             Asks("merge", u, v, 0)}
-----------------------------------------------------------------------------
VARIABLE component

Offer(list, currency, inclusive) ==
  [list |-> list, windows |-> {}, currency |-> currency, inclusive |-> inclusive]
A == Offer(33, "KES", TRUE)
D == Offer(67, "KES", TRUE)
Free == Offer(0, "KES", TRUE)
Cent == Offer(1, "KES", TRUE)
Dollar == Offer(50, "USD", TRUE)
Net == Offer(95, "KES", FALSE)
Window(id, price, priority, window) ==
  [id |-> id, price |-> price, priority |-> priority, window |-> window]
OnSale == [Offer(90, "KES", TRUE) EXCEPT
  !.windows = {Window(1, 10, 9, "over"), Window(2, 81, 1, "open"), Window(3, 77, 1, "open")}]

Of(offer, qty) == [offer |-> offer, qty |-> qty]
TheBaskets == {<<Of(A, 1), Of(D, 1), Of(Free, 1)>>, <<Of(Cent, 1), Of(Cent, 1), Of(Cent, 3)>>,
               <<Of(OnSale, 2), Of(Net, 1)>>, <<Of(Net, 3)>>, <<Of(A, 1), Of(Dollar, 1)>>,
               <<Of(Dollar, 2)>>}

Promotion(id, type, bps, amount, stackable, priority) ==
  [id |-> id, type |-> type, bps |-> bps, amount |-> amount, currency |-> None,
   stackable |-> stackable, priority |-> priority, minSpend |-> None, active |-> TRUE,
   coded |-> FALSE, window |-> "open"]
PercentItem(id, bps, stackable, priority) ==
  Promotion(id, "PERCENT_OFF_ITEM", bps, None, stackable, priority)
PercentCart(id, bps, stackable, priority) ==
  Promotion(id, "PERCENT_OFF_CART", bps, None, stackable, priority)
FixedCart(id, amount, stackable, priority) ==
  Promotion(id, "FIXED_OFF_CART", None, amount, stackable, priority)
PromotionRows == {PercentItem(1, 1000, TRUE, 1), PercentItem(2, 6250, FALSE, 2),
         Promotion(3, "FIXED_OFF_ITEM", None, 20, FALSE, 1),
         PercentCart(4, 1500, TRUE, 0), FixedCart(5, 50, TRUE, 0),
         [FixedCart(6, 2, TRUE, 0) EXCEPT !.currency = "USD"],
         [PercentItem(7, 5000, TRUE, 0) EXCEPT !.coded = TRUE],
         [FixedCart(8, 30, FALSE, 0) EXCEPT !.coded = TRUE, !.minSpend = 90],
         [PercentCart(9, 10000, TRUE, 5) EXCEPT !.active = FALSE],
         [PercentCart(10, 10000, TRUE, 5) EXCEPT !.window = "early"],
         PercentItem(11, 20000, TRUE, 9)}   \* more than the whole price, as its schema allows
Coupon(id, promotion, max, window) ==
  [id |-> id, promotion |-> promotion, status |-> "ACTIVE", window |-> window, max |-> max]
CouponRows == {Coupon("SAVE", 8, 1, "open"), Coupon("HALF", 7, None, "open"),
               Coupon("LATE", 4, None, "over")}
-----------------------------------------------------------------------------
\* No paragraph; two that fit into a chunk; two that do not; one of several slices, alone, with an
\* end of its own, and between others.
TheTexts == {<<>>, <<1, 1>>, <<2, 3>>, <<7>>, <<6>>, <<2, 5, 1>>}
-----------------------------------------------------------------------------
allVars == <<component, vars, cartVars, pricingVars, assistantVars, knowledgeVars>>

MCInit ==
  /\ component \in Components
  /\ Init /\ CartInit /\ PricingInit /\ AssistantInit /\ KnowledgeInit
  /\ component # "knowledge" => text = <<>>
Only(name) ==
  /\ component = name /\ UNCHANGED component
  /\ name # "checkout" => UNCHANGED vars
  /\ name # "cart" => UNCHANGED cartVars
  /\ name # "pricing" => UNCHANGED pricingVars
  /\ name # "assistant" => UNCHANGED assistantVars
  /\ name # "knowledge" => UNCHANGED knowledgeVars
MCNext ==
  \/ Only("checkout") /\ Next
  \/ Only("cart") /\ CartNext
  \/ Only("pricing") /\ PricingNext
  \/ Only("assistant") /\ AssistantNext
  \/ Only("knowledge") /\ KnowledgeNext
MCSpec == MCInit /\ [][MCNext]_allVars
FairSpec == MCSpec /\ Fairness

\* The type invariants of the five.
StorefrontTypeOK == TypeOK /\ CartTypeOK /\ PricingTypeOK /\ AssistantTypeOK /\ KnowledgeTypeOK
Symmetry == Permutations({r1, r2, r3})
=============================================================================
