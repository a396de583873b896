------------------------------ MODULE Checkout ------------------------------
(***************************************************************************)
(* CheckoutService.checkout against the customer's carts, the idempotency  *)
(* records, the reservations it takes and the orders it creates, with the  *)
(* customer editing the cart and the worker expiring reservations.         *)
(*                                                                         *)
(* A reserve or a release is one action here: module Inventory has its     *)
(* statements, and either succeeds as a whole or throws (StockLedger).     *)
(***************************************************************************)
EXTENDS Naturals, Sequences, FiniteSets

CONSTANTS
  Requests,   \* HTTP requests, each handled once
  Actor,      \* who sends a request, a function on Requests
  Key,        \* its Idempotency-Key, a function on Requests
  Offers,     \* what a line of a cart may ask for (positive numbers)
  Quantities, \* quantities the customer may set
  MaxEdits,   \* bound on the edits of carts
  Failing     \* the requests whose statements or process may fail

Actors == {Actor[p] : p \in Requests}
IdemKeys == {Key[p] : p \in Requests}

VARIABLES
  carts,        \* each actor's carts: the last one is ACTIVE, the others CONVERTED
  edits,        \* edits made so far
  reservations, \* reservations, in the order they were created
  movements,    \* the idempotency keys of the RESERVATION movements
  orders,       \* orders, in the order they were created; known: see req
  record,       \* idempotency_records: the order each (key, actor) was answered
  req           \* where each request is; known: how many orders there were when it read its record

vars == <<carts, edits, reservations, movements, orders, record, req>>

Empty == [o \in Offers |-> 0]
CartLines == [Offers -> Quantities \cup {0}]
Lines(cart) == {o \in Offers : cart[o] > 0}

Fresh == [pc |-> "new", cart |-> 0, view |-> Empty, left |-> {}, held |-> {},
          known |-> 0, answer |-> 0]

TypeOK ==
  /\ carts \in [Actors -> Seq([lines : CartLines, status : {"ACTIVE", "CONVERTED"}])]
  /\ edits \in Nat
  /\ reservations \in Seq([offer : Offers, qty : Quantities, actor : Actors, cart : Nat,
                           key : IdemKeys, order : Nat,
                           status : {"HELD", "RELEASED", "EXPIRED"}])
  /\ movements \subseteq IdemKeys \X Offers
  /\ orders \in Seq([actor : Actors, key : IdemKeys, cart : Nat, lines : CartLines,
                     held : SUBSET Nat, known : Nat])
  /\ record \in [IdemKeys \X Actors -> Nat]
  /\ req \in [Requests -> [pc : {"new", "cart", "view", "reserve", "order", "rollback",
                                 "answered", "failed"},
                           cart : Nat, view : CartLines, left : SUBSET Offers,
                           held : SUBSET Nat, known : Nat, answer : Nat]]

Init ==
  /\ carts = [a \in Actors |-> <<>>]
  /\ edits = 0
  /\ reservations = <<>> /\ orders = <<>>
  /\ movements = {}
  /\ record = [k \in IdemKeys \X Actors |-> 0]
  /\ req = [p \in Requests |-> Fresh]

Me(p) == <<Key[p], Actor[p]>>
InProgress(p) == req[p].pc \notin {"new", "answered", "failed"}
Goto(p, pc) == req' = [req EXCEPT ![p].pc = pc]
Answer(p, order) == req' = [req EXCEPT ![p].pc = "answered", ![p].answer = order]

-----------------------------------------------------------------------------
(***************************************************************************)
(* The customer and the worker.                                            *)
(***************************************************************************)
Active(a) == {c \in DOMAIN carts[a] : carts[a][c].status = "ACTIVE"}
NewCart == [lines |-> Empty, status |-> "ACTIVE"]

\* addLine, updateLine and removeLine: a line of the ACTIVE cart gets a quantity.
EditCart(a, o, q) ==
  /\ edits < MaxEdits
  /\ edits' = edits + 1
  /\ \/ \E c \in Active(a) : carts' = [carts EXCEPT ![a][c].lines[o] = q]
     \/ /\ Active(a) = {}
        /\ carts' = [carts EXCEPT ![a] =
                        Append(@, [NewCart EXCEPT !.lines = [Empty EXCEPT ![o] = q]])]
  /\ UNCHANGED <<reservations, movements, orders, record, req>>

\* The expiry job, or a cancel, gives a reservation back.
Expire(r) ==
  /\ reservations[r].status = "HELD"
  /\ reservations' = [reservations EXCEPT ![r].status = "EXPIRED"]
  /\ UNCHANGED <<carts, edits, movements, orders, record, req>>

-----------------------------------------------------------------------------
(***************************************************************************)
(* checkout.                                                               *)
(***************************************************************************)
\* idempotencyRecord.findUnique: a finished checkout is answered again.
Lookup(p) ==
  /\ req[p].pc = "new"
  /\ IF record[Me(p)] # 0 THEN Answer(p, record[Me(p)])
     ELSE req' = [req EXCEPT ![p].pc = "cart", ![p].known = Len(orders)]
  /\ UNCHANGED <<carts, edits, reservations, movements, orders, record>>

GetCart(p) ==
  LET a == Actor[p] IN
  /\ req[p].pc = "cart"
  /\ \/ \E c \in Active(a) :
          /\ req' = [req EXCEPT ![p].pc = "view", ![p].cart = c]
          /\ UNCHANGED carts
     \/ /\ Active(a) = {}
        /\ carts' = [carts EXCEPT ![a] = Append(@, NewCart)]
        /\ req' = [req EXCEPT ![p].pc = "view", ![p].cart = Len(carts[a]) + 1]
  /\ UNCHANGED <<edits, reservations, movements, orders, record>>

\* getCartView: CART_NOT_FOUND, CART_EMPTY, or the lines to be ordered.
View(p) ==
  LET cart == carts[Actor[p]][req[p].cart] IN
  /\ req[p].pc = "view"
  /\ IF cart.status = "ACTIVE" /\ Lines(cart.lines) # {}
       THEN req' = [req EXCEPT ![p].pc = "reserve", ![p].view = cart.lines,
                               ![p].left = Lines(cart.lines)]
       ELSE Goto(p, "failed")
  /\ UNCHANGED <<carts, edits, reservations, movements, orders, record>>

\* The HELD reservations that reserve takes for a repetition's: those of the
\* offer and the cart, whichever request made them and of whatever quantity.
Matching(p, o) ==
  {r \in DOMAIN reservations :
     /\ reservations[r].status = "HELD" /\ reservations[r].offer = o
     /\ reservations[r].actor = Actor[p] /\ reservations[r].cart = req[p].cart}

Reserved(p, o, r) ==
  req' = [req EXCEPT ![p].left = @ \ {o}, ![p].held = @ \cup {r}]

\* Mutant: a repetition takes the newest hold of the cart, whatever its offer.
Repeat_AnyOffer(p, o) ==
  /\ <<Key[p], o>> \in movements
  /\ \E r \in UNION {Matching(p, x) : x \in Offers} :
       /\ \A q \in UNION {Matching(p, x) : x \in Offers} : q <= r
       /\ Reserved(p, o, r)
  /\ UNCHANGED <<movements, reservations>>

\* InventoryService.reserve under the key of the request and the offer.  The key
\* does not name the actor.
Repeat(p, o) ==
  /\ <<Key[p], o>> \in movements
  /\ \E r \in Matching(p, o) :
       /\ \A q \in Matching(p, o) : q <= r
       /\ Reserved(p, o, r)
  /\ UNCHANGED <<movements, reservations>>

Hold(p, o) ==
  /\ <<Key[p], o>> \notin movements
  /\ movements' = movements \cup {<<Key[p], o>>}
  /\ reservations' = Append(reservations,
       [offer |-> o, qty |-> req[p].view[o], actor |-> Actor[p], cart |-> req[p].cart,
        key |-> Key[p], order |-> 0, status |-> "HELD"])
  /\ Reserved(p, o, Len(reservations) + 1)

\* The key was used and its reservation is gone: the new movement is a duplicate.
Refused(p, o) ==
  /\ <<Key[p], o>> \in movements /\ Matching(p, o) = {}
  /\ Goto(p, "failed")
  /\ UNCHANGED <<movements, reservations>>

Reserve(p) ==
  /\ req[p].pc = "reserve"
  /\ \/ \E o \in req[p].left : Repeat(p, o) \/ Hold(p, o) \/ Refused(p, o)
     \/ req[p].left = {} /\ Goto(p, "order") /\ UNCHANGED <<movements, reservations>>
  /\ UNCHANGED <<carts, edits, orders, record>>

\* Mutant: the record is not part of the transaction.
PlaceOrder_NoRecord(p) ==
  LET n == Len(orders) + 1 IN
  /\ req[p].pc = "order"
  /\ orders' = Append(orders, [actor |-> Actor[p], key |-> Key[p], cart |-> req[p].cart,
                               lines |-> req[p].view, held |-> req[p].held, known |-> req[p].known])
  /\ Answer(p, n)
  /\ UNCHANGED <<edits, movements, carts, record, reservations>>

\* The transaction of the order: order, items, payment, outbox message, cart,
\* reservations and idempotency record.  Neither the cart's status nor the
\* record is tested again.
PlaceOrder(p) ==
  LET n == Len(orders) + 1 IN
  /\ req[p].pc = "order"
  /\ orders' = Append(orders, [actor |-> Actor[p], key |-> Key[p], cart |-> req[p].cart,
                               lines |-> req[p].view, held |-> req[p].held, known |-> req[p].known])
  /\ carts' = [carts EXCEPT ![Actor[p]][req[p].cart].status = "CONVERTED"]
  /\ reservations' = [r \in DOMAIN reservations |->
       IF r \in req[p].held THEN [reservations[r] EXCEPT !.order = n] ELSE reservations[r]]
  /\ record' = [record EXCEPT ![Me(p)] = n]
  /\ Answer(p, n)
  /\ UNCHANGED <<edits, movements>>

\* That transaction fails: every reservation is released, HELD or not.
OrderFails(p) ==
  /\ p \in Failing /\ req[p].pc = "order"
  /\ Goto(p, "rollback")
  /\ UNCHANGED <<carts, edits, reservations, movements, orders, record>>

Rollback(p) ==
  /\ req[p].pc = "rollback"
  /\ \/ \E r \in req[p].held :
          /\ req' = [req EXCEPT ![p].held = @ \ {r}]
          /\ IF reservations[r].status = "HELD"
               THEN reservations' = [reservations EXCEPT ![r].status = "RELEASED"]
               ELSE UNCHANGED reservations
     \/ req[p].held = {} /\ Goto(p, "failed") /\ UNCHANGED reservations
  /\ UNCHANGED <<carts, edits, movements, orders, record>>

\* A throw outside the try (no stock, OPTIMISTIC_LOCK, a refused coupon), a throw
\* of a release, or the end of the process: nothing is undone.
Stop(p) ==
  /\ p \in Failing /\ InProgress(p)
  /\ Goto(p, "failed")
  /\ UNCHANGED <<carts, edits, reservations, movements, orders, record>>

Checkout(p) ==
  \/ Lookup(p) \/ GetCart(p) \/ View(p) \/ Reserve(p) \/ PlaceOrder(p)
  \/ OrderFails(p) \/ Rollback(p) \/ Stop(p)

Next ==
  \/ \E a \in Actors, o \in Offers, q \in Quantities \cup {0} : EditCart(a, o, q)
  \/ \E r \in DOMAIN reservations : Expire(r)
  \/ \E p \in Requests : Checkout(p)

Spec == Init /\ [][Next]_vars

-----------------------------------------------------------------------------
(***************************************************************************)
(* Properties.                                                             *)
(***************************************************************************)
OfOneKey(i, j) == orders[i].key = orders[j].key /\ orders[i].actor = orders[j].actor

\* A retry returns the same order: a request that reads its record after an order of its key and
\* customer was placed leads to no other one, whatever failed before.
RetryFindsTheOrder ==
  \A i, j \in DOMAIN orders : i < j /\ OfOneKey(i, j) => orders[j].known < i

\* No key of a customer leads to two orders (ADR-0011, sections 12 and 36): no, two requests
\* may both read the record before either writes it.
OneOrderPerKey ==
  \A i, j \in DOMAIN orders : OfOneKey(i, j) => i = j

\* An answer is an order of the customer who asked, made under the key asked
\* with, even if another customer happens to use the same key.
AnswerIsOwn ==
  \A p \in Requests : req[p].pc = "answered" =>
    /\ req[p].answer \in DOMAIN orders
    /\ orders[req[p].answer].actor = Actor[p]
    /\ orders[req[p].answer].key = Key[p]

\* Every line of an order has a reservation of its own cart, whichever mix of
\* failed attempts, repeated keys and new holds it comes from.
OrderIsCovered ==
  \A i \in DOMAIN orders : \A o \in Lines(orders[i].lines) :
    \E r \in orders[i].held :
      /\ reservations[r].offer = o
      /\ reservations[r].actor = orders[i].actor /\ reservations[r].cart = orders[i].cart

\* A reservation holds the quantity its order sells (ADR-0011, section 30).
OrderHoldsItsQuantity ==
  \A i \in DOMAIN orders : \A r \in orders[i].held :
    reservations[r].qty = orders[i].lines[reservations[r].offer]

\* A reservation is owned by one order (ADR-0011, section 30).
HoldServesOneOrder ==
  \A i, j \in DOMAIN orders : orders[i].held \cap orders[j].held # {} => i = j
=============================================================================
