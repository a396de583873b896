--------------------------------- MODULE Cart ---------------------------------
(***************************************************************************)
(* CartService and the requests that reach it: a customer or a guest finds *)
(* or opens a cart, adds, changes and removes lines, and after a login the *)
(* guest's cart is merged into the customer's.  One action per statement   *)
(* sent to the database; only the merge runs in a transaction, so what it  *)
(* reads may be stale when it writes.                                      *)
(***************************************************************************)
EXTENDS Sums, SequencesExt, FiniteSets

CONSTANTS
  CartRequests,  \* HTTP requests, each handled once
  CartCalls,     \* what a request may ask: [op, who, guest, offer, qty]
  Wares,         \* the offers that are sold
  Withdrawn,     \* those an administrator may withdraw
  Returning,     \* customers and guests whose cart is there from the start
  NoGuest,       \* no guest cookie
  PatientMerge   \* TRUE: a browser does not send a second merge during the first

Owners == {c.who : c \in CartCalls} \cup {c.guest : c \in CartCalls}
Ops == {"add", "update", "remove", "merge", "show"}

ASSUME CartAssumption ==
  /\ IsFiniteSet(Wares) /\ IsFiniteSet(Returning) /\ Returning \subseteq Owners
  /\ \A c \in CartCalls : c.op \in Ops /\ c.offer \in Wares /\ c.qty \in Nat

VARIABLES
  cartRows,   \* carts.carts, in the order of creation: [who, status]
  cartLines,  \* carts.cart_lines: [cart, offer, qty]; qty 0 is a deleted row
  sellable,   \* the offers that are active, of an ACTIVE product
  cartReq,    \* where each request is
  wanted,     \* all the units ever asked for, per offer
  owed,       \* the units that should be in ACTIVE carts, per offer
  raced       \* a merge wrote from a reading that had become stale

Tallies == <<wanted, owed, raced>>
cartVars == <<cartRows, cartLines, sellable, cartReq, Tallies>>

Carts == 1..Len(cartRows)
IsActive(c) == cartRows[c].status = "ACTIVE"
ActiveOf(who) == {c \in Carts : cartRows[c].who = who /\ IsActive(c)}
\* The row of a cart for an offer (cart_lines is unique on the pair), or 0.
LinesOf(c, o) ==
  {l \in 1..Len(cartLines) :
     cartLines[l].cart = c /\ cartLines[l].offer = o /\ cartLines[l].qty > 0}
LineOf(c, o) == IF LinesOf(c, o) = {} THEN 0 ELSE CHOOSE l \in LinesOf(c, o) : TRUE
QtyOf(c, o) == IF LineOf(c, o) = 0 THEN 0 ELSE cartLines[LineOf(c, o)].qty
InCarts(o) == SumOf([c \in Carts |-> IF IsActive(c) THEN QtyOf(c, o) ELSE 0])

InTransaction(r) == cartReq[r].pc \in {"merge", "write"}
\* A transaction of another request wrote the row and has not committed.
Locked(r, c, o) ==
  \E q \in CartRequests \ {r} :
    InTransaction(q) /\ cartReq[q].cart = c /\ cartReq[q].wrote[o] > 0

CartRow == [who : Owners, status : {"ACTIVE", "CONVERTED"}]
LineRow == [cart : Nat, offer : Wares, qty : Nat]
CartTypeOK ==
  /\ cartRows \in Seq(CartRow) /\ cartLines \in Seq(LineRow)
  /\ \A l \in 1..Len(cartLines) : cartLines[l].cart \in Carts
  /\ \A k, l \in 1..Len(cartLines) :
       /\ cartLines[k].cart = cartLines[l].cart /\ cartLines[k].offer = cartLines[l].offer
       /\ cartLines[k].qty > 0 /\ cartLines[l].qty > 0
       => k = l
  /\ sellable \subseteq Wares

NoneOf == [o \in Wares |-> 0]
NoCall == [op |-> "none", who |-> NoGuest, guest |-> NoGuest, offer |-> NoGuest, qty |-> 0]
Idle == [pc |-> "new", call |-> NoCall, cart |-> 0, line |-> 0, guest |-> 0, offer |-> NoGuest,
         left |-> {}, units |-> NoneOf, wrote |-> NoneOf]

NewLine(c, o, qty) == [cart |-> c, offer |-> o, qty |-> qty]
\* The returning customers come back to a cart of earlier requests, a unit of every offer in it.
CartInit ==
  /\ LET who == SetToSeq(Returning)
         what == SetToSeq((1..Cardinality(Returning)) \X Wares) IN
       /\ cartRows = [c \in 1..Len(who) |-> [who |-> who[c], status |-> "ACTIVE"]]
       /\ cartLines = [l \in 1..Len(what) |-> NewLine(what[l][1], what[l][2], 1)]
  /\ wanted = [o \in Wares |-> Cardinality(Returning)] /\ owed = wanted /\ raced = FALSE
  /\ sellable = Wares
  /\ cartReq = [r \in CartRequests |-> Idle]

Final == {"answered", "refused"}   \* refused: any error answer, or none
CartGoto(r, pc) ==
  cartReq' = [cartReq EXCEPT ![r] = IF pc \in Final THEN [Idle EXCEPT !.pc = pc]
                                    ELSE [cartReq[r] EXCEPT !.pc = pc]]
AsksFor(c, o, old, new) ==   \* a write the customer asked for: old becomes new
  /\ wanted' = [wanted EXCEPT ![o] = @ + new]
  /\ owed' = IF IsActive(c) THEN [owed EXCEPT ![o] = (@ + new) - old] ELSE owed
  /\ raced' = raced
-----------------------------------------------------------------------------
Call(r, call) ==
  /\ cartReq[r].pc = "new"
  /\ PatientMerge /\ call.op = "merge" => \A q \in CartRequests :
       cartReq[q].call.op = "merge" =>
         cartReq[q].call.guest # call.guest \/ cartReq[q].pc \in Final
  /\ cartReq' = [cartReq EXCEPT ![r] = [Idle EXCEPT !.pc = "find", !.call = call]]
  /\ UNCHANGED <<cartRows, cartLines, sellable, Tallies>>

\* Where each handler goes once it has its cart.
After(call) ==
  CASE call.op = "add" -> "offer" [] call.op = "update" -> "line"
    [] call.op = "remove" -> "delete" [] call.op = "merge" -> "guest" [] OTHER -> "view"
\* The request has cart c.
Has(r, c) ==
  cartReq' = [cartReq EXCEPT ![r] = [cartReq[r] EXCEPT !.cart = c, !.pc = After(cartReq[r].call)]]

\* getOrCreateCart: any ACTIVE cart of the caller, else a new one.
Find(r) ==
  LET mine == ActiveOf(cartReq[r].call.who) IN
  /\ cartReq[r].pc = "find"
  /\ (\E c \in mine : Has(r, c)) \/ (mine = {} /\ CartGoto(r, "create"))
  /\ UNCHANGED <<cartRows, cartLines, sellable, Tallies>>

Create(r) ==
  /\ cartReq[r].pc = "create"
  /\ cartRows' = Append(cartRows, [who |-> cartReq[r].call.who, status |-> "ACTIVE"])
  /\ Has(r, Len(cartRows'))
  /\ UNCHANGED <<cartLines, sellable, Tallies>>

\* addLine: the offer must be sold now; the line is upserted with an increment.
ReadOffer(r) ==
  /\ cartReq[r].pc = "offer"
  /\ CartGoto(r, IF cartReq[r].call.offer \in sellable THEN "upsert" ELSE "refused")
  /\ UNCHANGED <<cartRows, cartLines, sellable, Tallies>>

Upserted_Sets(old, qty) == qty                  \* mutant: the quantity replaces the old one
Upserted(old, qty) == old + qty
WithQty(l, qty) == [cartLines EXCEPT ![l] = [cartLines[l] EXCEPT !.qty = qty]]

Upsert(r) ==
  LET c == cartReq[r].cart  o == cartReq[r].call.offer  qty == cartReq[r].call.qty
      l == LineOf(c, o) IN
  /\ cartReq[r].pc = "upsert"
  /\ ~Locked(r, c, o)
  /\ cartLines' = IF l = 0 THEN Append(cartLines, NewLine(c, o, qty))
                  ELSE WithQty(l, Upserted(cartLines[l].qty, qty))
  /\ AsksFor(c, o, 0, qty)
  /\ CartGoto(r, "view")
  /\ UNCHANGED <<cartRows, sellable>>

\* updateLine: the line of this cart, then its new quantity.
FindLine(r) ==
  LET l == LineOf(cartReq[r].cart, cartReq[r].call.offer) IN
  /\ cartReq[r].pc = "line"
  /\ IF l = 0 THEN CartGoto(r, "refused")
     ELSE cartReq' = [cartReq EXCEPT ![r] = [cartReq[r] EXCEPT !.line = l, !.pc = "set"]]
  /\ UNCHANGED <<cartRows, cartLines, sellable, Tallies>>

SetLine(r) ==
  LET c == cartReq[r].cart  o == cartReq[r].call.offer  l == cartReq[r].line
      qty == cartReq[r].call.qty IN
  /\ cartReq[r].pc = "set"
  /\ ~Locked(r, c, o)
  /\ \/ /\ cartLines[l].qty = 0 /\ CartGoto(r, "refused") /\ UNCHANGED <<cartLines, Tallies>>
     \/ /\ cartLines[l].qty # 0 /\ CartGoto(r, "view")
        /\ cartLines' = WithQty(l, qty) /\ AsksFor(c, o, cartLines[l].qty, qty)
  /\ UNCHANGED <<cartRows, sellable>>

RemoveLine(r) ==
  LET c == cartReq[r].cart  o == cartReq[r].call.offer  l == LineOf(c, o) IN
  /\ cartReq[r].pc = "delete"
  /\ ~Locked(r, c, o)
  /\ \/ l = 0 /\ UNCHANGED <<cartLines, Tallies>>
     \/ l # 0 /\ cartLines' = WithQty(l, 0) /\ AsksFor(c, o, cartLines[l].qty, 0)
  /\ CartGoto(r, "view")
  /\ UNCHANGED <<cartRows, sellable>>

\* getCartView ends every one of these requests: only an ACTIVE cart is shown.
ShowCart(r) ==
  /\ cartReq[r].pc = "view"
  /\ CartGoto(r, IF IsActive(cartReq[r].cart) THEN "answered" ELSE "refused")
  /\ UNCHANGED <<cartRows, cartLines, sellable, Tallies>>
-----------------------------------------------------------------------------
\* mergeOnLogin, before its transaction: the guest's cart and its lines.
ReadGuest(r) ==
  LET call == cartReq[r].call  c == cartReq[r].cart IN
  /\ cartReq[r].pc = "guest"
  /\ \/ \E g \in ActiveOf(call.guest) \ {c} :
          cartReq' = [cartReq EXCEPT ![r] = [cartReq[r] EXCEPT
            !.pc = "merge", !.guest = g, !.left = {o \in Wares : LineOf(g, o) # 0},
            !.units = [o \in Wares |-> QtyOf(g, o)]]]
     \/ /\ call.guest = NoGuest \/ ActiveOf(call.guest) = {} \/ c \in ActiveOf(call.guest)
        /\ CartGoto(r, "answered")
  /\ UNCHANGED <<cartRows, cartLines, sellable, Tallies>>

\* In the transaction, line by line: one no longer sold is dropped, otherwise the
\* customer's own line for the offer is read (`line`, and its quantity in `units`)...
MergeRead(r) ==
  /\ cartReq[r].pc = "merge"
  /\ \E o \in cartReq[r].left :
       LET dropped == [cartReq[r] EXCEPT !.left = cartReq[r].left \ {o}]  c == cartReq[r].cart
           sum == cartReq[r].units[o] + QtyOf(c, o)
       IN IF o \notin sellable THEN cartReq' = [cartReq EXCEPT ![r] = dropped]
          ELSE cartReq' = [cartReq EXCEPT ![r] = [dropped EXCEPT
                 !.pc = "write", !.offer = o, !.line = LineOf(c, o),
                 !.units = [cartReq[r].units EXCEPT ![o] = sum]]]
  /\ UNCHANGED <<cartRows, cartLines, sellable, Tallies>>

\* ...and written: the update needs the row read, the insert needs none for the pair.
MergeWrite(r) ==
  LET c == cartReq[r].cart  o == cartReq[r].offer  l == cartReq[r].line
      possible == IF l # 0 THEN cartLines[l].qty > 0 ELSE LineOf(c, o) = 0 IN
  /\ cartReq[r].pc = "write"
  /\ ~Locked(r, c, o)
  /\ IF possible
     THEN cartReq' = [cartReq EXCEPT ![r] = [cartReq[r] EXCEPT
            !.pc = "merge", !.wrote = [cartReq[r].wrote EXCEPT ![o] = cartReq[r].units[o]]]]
     ELSE CartGoto(r, "refused")
  /\ UNCHANGED <<cartRows, cartLines, sellable, Tallies>>

Wrote(r) == {o \in Wares : cartReq[r].wrote[o] > 0}
Inserted(r) == {o \in Wrote(r) : LineOf(cartReq[r].cart, o) = 0}
NewLines(r, offers) ==
  [k \in 1..Len(offers) |-> NewLine(cartReq[r].cart, offers[k], cartReq[r].wrote[offers[k]])]
Updated(r) ==
  [l \in 1..Len(cartLines) |->
     LET line == cartLines[l] IN
     IF line.cart = cartReq[r].cart /\ line.qty > 0 /\ line.offer \in Wrote(r)
     THEN [line EXCEPT !.qty = cartReq[r].wrote[line.offer]] ELSE line]
Converted(c) == [cartRows EXCEPT ![c] = [cartRows[c] EXCEPT !.status = "CONVERTED"]]

\* The guest's cart is CONVERTED and all of it commits.
MergeCommit(r) ==
  LET c == cartReq[r].cart  g == cartReq[r].guest  wrote == cartReq[r].wrote IN
  /\ cartReq[r].pc = "merge" /\ cartReq[r].left = {}
  /\ cartLines' = Updated(r) \o NewLines(r, SetToSeq(Inserted(r)))
  /\ cartRows' = Converted(g)
  /\ owed' = [o \in Wares |-> IF o \in Wrote(r) \/ ~IsActive(g) THEN owed[o]
                              ELSE owed[o] - QtyOf(g, o)]
  /\ raced' = (raced \/ ~IsActive(c) \/ ~IsActive(g)
                     \/ (\E o \in Wares : QtyOf(g, o) > 0 /\ cartReq[r].units[o] = 0)
                     \/ (\E o \in Wrote(r) : wrote[o] # QtyOf(c, o) + QtyOf(g, o)))
  /\ CartGoto(r, "answered")
  /\ UNCHANGED <<sellable, wanted>>

\* A statement throws or the process dies in the transaction: nothing of it stays.
\* (Elsewhere a request that dies is one that takes no further step.)
MergeFails(r) ==
  /\ InTransaction(r)
  /\ CartGoto(r, "refused")
  /\ UNCHANGED <<cartRows, cartLines, sellable, Tallies>>

-----------------------------------------------------------------------------
\* An administrator withdraws an offer or its product.
Withdraw(o) ==
  /\ o \in sellable \cap Withdrawn
  /\ sellable' = sellable \ {o}
  /\ UNCHANGED <<cartRows, cartLines, cartReq, Tallies>>

\* A checkout turns a cart with lines into an order (module Checkout).
CheckOut(c) ==
  /\ IsActive(c) /\ \E o \in Wares : LineOf(c, o) # 0
  /\ cartRows' = Converted(c)
  /\ owed' = [o \in Wares |-> owed[o] - QtyOf(c, o)]
  /\ UNCHANGED <<cartLines, sellable, cartReq, wanted, raced>>

Step(r) ==
  \/ \E call \in CartCalls : Call(r, call)
  \/ Find(r) \/ Create(r) \/ ReadOffer(r) \/ Upsert(r) \/ FindLine(r) \/ SetLine(r)
  \/ RemoveLine(r) \/ ShowCart(r) \/ ReadGuest(r) \/ MergeRead(r) \/ MergeWrite(r)
  \/ MergeCommit(r) \/ MergeFails(r)
CartNext ==
  \/ \E r \in CartRequests : Step(r)
  \/ \E o \in Wares : Withdraw(o)
  \/ \E c \in Carts : CheckOut(c)

CartSpec == CartInit /\ [][CartNext]_cartVars

-----------------------------------------------------------------------------
\* No cart holds a unit nobody asked for: whatever requests, merges, failures and
\* checkouts overlap, a merge moves units and never doubles them.
NothingInvented == \A o \in Wares : InCarts(o) <= wanted[o]

\* The ACTIVE carts hold exactly what their owners asked for (less what was removed,
\* bought, or dropped as no longer sold) unless a merge wrote from a stale reading.
\* Nothing else in the service can lose a unit.
CartsHoldWhatIsOwed == raced \/ \A o \in Wares : InCarts(o) = owed[o]
=============================================================================
