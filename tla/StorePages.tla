------------------------------ MODULE StorePages ------------------------------
(***************************************************************************)
(* The storefront in one tab of a browser: the product page, the cart, the *)
(* checkout and the page of an order, under a header whose badge counts    *)
(* the cart.  Pages keep what their last call answered; calls go on when   *)
(* the customer leaves the page that made them.  The API is reduced to the *)
(* one line of each cart, the orders and the status of the last payment.   *)
(***************************************************************************)
EXTENDS Integers

CONSTANTS
  Most,        \* the largest quantity an input and the API accept: 100
  MaxUnits, MaxOrders,
  MaxEvents,   \* bound on clicks, calls that are lost and changes from elsewhere, together
  Lanes,       \* 1..n: calls of pages under way at once
  Heads,       \* 1..n: refreshes of the header under way at once
  Polls        \* loads of the order page under way at once

ASSUME StoreConstants == 1 \in Heads  \* the header asks at once

Carts == 1..2  \* a guest's carts: the code makes one for each request without a cookie
NoCart == 0
Unknown == -1  \* the cart of a page that has not loaded it
FinalStatus == {"CONFIRMED", "FAILED", "CANCELLED"}
Edits == {"add", "buy", "update", "remove", "checkout"}

VARIABLES
  cart, made,            \* units of the only line of each cart, and how many carts there are
  orders, payment,       \* how many, and PaymentStatus of the last one
  guest,       \* the guest cart's cookie; a customer who logged in always has the same cart
  tab,       \* page, and what it shows: view (the cart), step, shown (the payment), error
  calls,     \* calls of this page (by 1 or 2, a component with a busy flag) or of one left (by 0)
  badge, heads, newest,  \* the header; newest is the refresh that started last
  polls,
  stray,     \* an edit the browser has given up and the API may still execute
  events,
  unseen, unheard, \* (ghost) the cart changed behind the page's, or the header's, back
  overtaken        \* (ghost) what the header shows is the answer of a refresh that is not its newest

storeVars == <<cart, made, orders, payment, guest, tab, calls, badge, heads, newest, polls, stray,
               events, unseen, unheard, overtaken>>
shop == <<cart, made, orders, payment, stray>>

NoStep == [op |-> "load", arg |-> 0, by |-> 0, at |-> "idle", jar |-> NoCart, got |-> 0]
NoHead == [at |-> "idle", jar |-> NoCart, got |-> 0]
NewTab(page) == [page |-> page, view |-> Unknown, step |-> 0, shown |-> "none", error |-> FALSE]

StoreTypeOK ==
  /\ cart \in [Carts -> 0..MaxUnits] /\ made \in 0..2 /\ orders \in 0..MaxOrders
  /\ payment \in {"none", "PENDING", "INITIATED"} \cup FinalStatus /\ guest \in 0..2
  /\ tab.page \in {"product", "cart", "checkout", "order"} /\ tab.view \in -1..MaxUnits
  /\ tab.step \in 0..2 /\ tab.error \in BOOLEAN
  /\ \A s \in Lanes :
       /\ calls[s].op \in Edits \cup {"load"} /\ calls[s].by \in 0..2
       /\ calls[s].at \in {"idle", "sent", "done", "refused"}
  /\ \A h \in Heads : heads[h].at \in {"idle", "sent", "done"}
  /\ badge \in 0..MaxUnits /\ newest \in Heads
  /\ \A k \in Polls : polls[k] \in {"idle", "sent", "none", "PENDING", "INITIATED"} \cup FinalStatus
  /\ stray.op \in Edits \cup {"none"} /\ events \in 0..MaxEvents
  /\ unseen \in BOOLEAN /\ unheard \in BOOLEAN /\ overtaken \in BOOLEAN

\* A visitor without a cookie or one who comes back, to the shop or to an order.  The header asks
\* at once.
StoreInit ==
  /\ guest \in {NoCart, 1} /\ made = guest /\ cart \in [Carts -> 0..1]
  /\ \A c \in Carts : c > made => cart[c] = 0
  /\ \/ orders = 0 /\ payment = "none" /\ tab = NewTab("product")
     \/ orders = 1 /\ payment = "PENDING" /\ tab = NewTab("order")
  /\ calls = [s \in Lanes |-> NoStep]
  /\ newest = 1
  /\ heads = [h \in Heads |-> IF h = 1 THEN [at |-> "sent", jar |-> NoCart, got |-> 0] ELSE NoHead]
  /\ badge = 0 /\ polls = [k \in Polls |-> "idle"]
  /\ stray = [op |-> "none", arg |-> 0, jar |-> NoCart] /\ events = 0
  /\ unseen = FALSE /\ unheard = FALSE /\ overtaken = FALSE

Units(c) == IF c = NoCart THEN 0 ELSE cart[c]
Busy(by) == \E s \in Lanes : calls[s].at # "idle" /\ calls[s].by = by /\ calls[s].op # "load"
FreeLane(s) == calls[s].at = "idle" /\ \A i \in Lanes : i < s => calls[i].at # "idle"
Event == events < MaxEvents /\ events' = events + 1
-----------------------------------------------------------------------------
\* PlatformSdk.request: for an edit it fetches a CSRF token first (Accounts has the guard), which
\* here is part of the way to the API.
Call(op, arg, by) == [op |-> op, arg |-> arg, by |-> by, at |-> "sent", jar |-> NoCart, got |-> 0]
Begin(op, arg, by) == \E s \in Lanes : FreeLane(s) /\ calls' = [calls EXCEPT ![s] = Call(op, arg, by)]

\* SiteHeader.refresh, which nobody awaits.
Refresh ==
  \E h \in Heads :
    /\ heads[h].at = "idle" /\ newest' = h /\ \A i \in Heads : i < h => heads[i].at # "idle"
    /\ heads' = [heads EXCEPT ![h] = [at |-> "sent", jar |-> NoCart, got |-> 0]]
-----------------------------------------------------------------------------
\* AddToCartButton; a page of cards has several of them, each with its own busy flag.
Add(by) ==
  /\ Event
  /\ tab.page = "product" /\ ~Busy(by) /\ Begin("add", 1, by)
  /\ tab' = [tab EXCEPT !.error = FALSE]
  /\ UNCHANGED <<shop, guest, badge, overtaken, heads, newest, polls, unseen, unheard>>

\* CartPage: the buttons step from the quantity shown, the input takes any in range.
Change_NotDisabled ==                             \* mutant: the controls stay enabled meanwhile
  /\ Event
  /\ tab.page = "cart" /\ tab.view > 0
  /\ \/ \E q \in 1..Most \cup {tab.view - 1} : q >= 1 /\ Begin("update", q, 1)
     \/ Begin("remove", 0, 1)
  /\ UNCHANGED <<shop, guest, tab, badge, overtaken, heads, newest, polls, unseen, unheard>>
Change ==
  /\ Event
  /\ tab.page = "cart" /\ tab.view > 0 /\ ~Busy(1)
  /\ \/ \E q \in 1..Most \cup {tab.view - 1} : q >= 1 /\ Begin("update", q, 1)
     \/ Begin("remove", 0, 1)
  /\ UNCHANGED <<shop, guest, tab, badge, overtaken, heads, newest, polls, unseen, unheard>>

\* CheckoutPage: cart review, delivery, confirmation.
Turn ==
  /\ tab.page = "checkout" /\ tab.view > 0
  /\ \E step \in {tab.step - 1, tab.step + 1} \cap 0..2 : tab' = [tab EXCEPT !.step = step]
  /\ UNCHANGED <<shop, guest, calls, badge, overtaken, heads, newest, polls, events, unseen, unheard>>

\* Every submission has an idempotency key of its own.
Submit ==
  /\ Event
  /\ tab.page = "checkout" /\ tab.view > 0 /\ tab.step = 2 /\ ~Busy(1)
  /\ Begin("checkout", 0, 1)
  /\ tab' = [tab EXCEPT !.error = FALSE]
  /\ UNCHANGED <<shop, guest, badge, overtaken, heads, newest, polls, unseen, unheard>>

\* Calls of a page that is left go on without it; its timers stop.
Left == [s \in Lanes |-> [calls[s] EXCEPT !.by = 0]]
Leave(page) ==
  /\ tab' = NewTab(page) /\ polls' = [k \in Polls |-> "idle"]
  /\ unseen' = FALSE

\* A link.  The cart and checkout pages load the cart; buy now adds the offer first.
OpenPage ==
  /\ Event
  /\ \E page \in {"product", "cart", "checkout"} \ {tab.page} :
       /\ Leave(page)
       /\ IF page = "product" THEN calls' = Left
          ELSE \E s \in Lanes, op \in {"load", "buy"} :
                 /\ FreeLane(s) /\ (op = "buy" => page = "checkout")
                 /\ calls' = [Left EXCEPT ![s] = Call(op, IF op = "buy" THEN 1 ELSE 0, 1)]
  /\ Refresh
  /\ UNCHANGED <<shop, guest, badge, overtaken, unheard>>
OpenOrder ==
  /\ Event
  /\ orders > 0 /\ tab.page # "order" /\ Leave("order") /\ calls' = Left /\ Refresh
  /\ UNCHANGED <<shop, guest, badge, overtaken, unheard>>
-----------------------------------------------------------------------------
\* A request without the cookie makes a cart (ensureGuestCookie, getOrCreateCart).
CartOf(cookie) == IF cookie # NoCart THEN {cookie} ELSE Carts \cap {made + 1}
Makes(cookie) == made' = IF cookie # NoCart THEN made ELSE made + 1

\* What the API does with a cart call: the line's new quantity, or the refusal.
Effect(op, arg, c) ==
  /\ op \in {"load", "add", "buy", "update", "remove"}
  /\ (op = "update" => Units(c) > 0 /\ arg <= Most)
  /\ Units(c) + arg <= MaxUnits \/ op \notin {"add", "buy"}
  /\ cart' = [cart EXCEPT ![c] = CASE op = "load" -> @
                                   [] op \in {"add", "buy"} -> @ + arg
                                   [] OTHER -> arg]
  /\ UNCHANGED <<orders, payment>>
\* CheckoutService.checkout turns the cart into an order; an empty one is refused.
Order(op, c) ==
  /\ op = "checkout" /\ Units(c) > 0 /\ orders < MaxOrders
  /\ cart' = [cart EXCEPT ![c] = 0] /\ orders' = orders + 1 /\ payment' = "PENDING"
Refuses(op, arg, c) ==
  \/ op = "update" /\ (Units(c) = 0 \/ arg > Most \/ unseen)  \* unseen: it may be another line
  \/ op = "checkout" /\ Units(c) = 0

Execute(s) ==
  /\ calls[s].at = "sent" /\ Makes(guest)
  /\ \E c \in CartOf(guest) :
       \/ /\ Effect(calls[s].op, calls[s].arg, c) \/ Order(calls[s].op, c)
          /\ calls' = [calls EXCEPT ![s].at = "done", ![s].jar = c, ![s].got = cart'[c]]
       \/ /\ Refuses(calls[s].op, calls[s].arg, c) /\ UNCHANGED <<cart, orders, payment>>
          /\ calls' = [calls EXCEPT ![s].at = "refused", ![s].jar = c]
  /\ unseen' = (unseen \/ (calls[s].by = 0 /\ calls[s].op \in Edits))
  /\ UNCHANGED <<guest, tab, badge, overtaken, heads, newest, polls, stray, events, unheard>>

\* Set-Cookie of a request that had none; another one may have come first.
Cookie(c) ==
  /\ guest' = c
  /\ unseen' = (unseen \/ guest \notin {NoCart, c}) /\ unheard' = (unheard \/ guest \notin {NoCart, c})
Mine(s) == calls[s].by # 0

\* The answer of a load or an edit of the cart.
Receive(s) ==
  /\ calls[s].at = "done" /\ calls[s].op \notin {"checkout", "buy"}
  /\ tab' = IF ~Mine(s) THEN tab
            ELSE [tab EXCEPT !.view = IF calls[s].op = "add" THEN @ ELSE calls[s].got,
                             !.error = @ /\ calls[s].op # "load"]
  /\ calls' = [calls EXCEPT ![s] = NoStep] /\ Cookie(calls[s].jar)
  /\ IF calls[s].op = "load" THEN UNCHANGED <<heads, newest>> ELSE Refresh
  /\ UNCHANGED <<shop, badge, overtaken, polls, events>>
\* Buy now: the address loses the offer, which loads the cart once more beside the load that follows.
Bought(s) ==
  /\ calls[s].at = "done" /\ calls[s].op = "buy" /\ Cookie(calls[s].jar) /\ Refresh
  /\ \E again \in Lanes :
       /\ Mine(s) => calls[again].at = "idle"
       /\ calls' = [i \in Lanes |-> IF i = s \/ (i = again /\ Mine(s))
                                   THEN Call("load", 0, calls[s].by) ELSE calls[i]]
  /\ UNCHANGED <<shop, tab, badge, overtaken, polls, events>>
\* The answer of the checkout leads to the order, wherever the customer is by now.
Placed(s) ==
  /\ calls[s].at = "done" /\ calls[s].op = "checkout"
  /\ tab' = NewTab("order") /\ polls' = [k \in Polls |-> "idle"]
  /\ calls' = [Left EXCEPT ![s] = NoStep]
  /\ Refresh /\ Cookie(calls[s].jar)
  /\ UNCHANGED <<shop, badge, overtaken, events>>
Refused(s) ==
  /\ calls[s].at = "refused" /\ calls' = [calls EXCEPT ![s] = NoStep] /\ Cookie(calls[s].jar)
  /\ tab' = IF Mine(s) THEN [tab EXCEPT !.error = TRUE] ELSE tab
  /\ UNCHANGED <<shop, badge, overtaken, heads, newest, polls, events>>

\* The browser gives a call up: before or after the API executed it, or while it still will.
Lose(s) ==
  /\ calls[s].at \in {"sent", "done"} /\ Event
  /\ \/ UNCHANGED stray
     \/ /\ calls[s].at = "sent" /\ calls[s].op \in Edits /\ stray.op = "none"
        /\ stray' = [op |-> calls[s].op, arg |-> calls[s].arg, jar |-> guest]
  /\ LET done == calls[s].at = "done" /\ calls[s].op \in Edits
     IN  unseen' = (unseen \/ done) /\ unheard' = (unheard \/ done)
  /\ calls' = [calls EXCEPT ![s] = NoStep]
  /\ tab' = IF Mine(s) THEN [tab EXCEPT !.error = TRUE] ELSE tab
  /\ UNCHANGED <<cart, made, orders, payment, guest, badge, overtaken, heads, newest, polls>>
ExecuteStray ==
  /\ stray.op # "none" /\ stray' = [stray EXCEPT !.op = "none"] /\ Makes(stray.jar)
  /\ \E c \in CartOf(stray.jar) :
       \/ Effect(stray.op, stray.arg, c) \/ Order(stray.op, c)
       \/ Refuses(stray.op, stray.arg, c) /\ UNCHANGED <<cart, orders, payment>>
  /\ unseen' = TRUE /\ unheard' = TRUE
  /\ UNCHANGED <<guest, tab, calls, badge, overtaken, heads, newest, polls, events>>

\* Another tab, or the assistant.
Elsewhere ==
  /\ Event /\ guest # NoCart
  /\ \E n \in 0..MaxUnits : n # Units(guest) /\ cart' = [cart EXCEPT ![guest] = n]
  /\ unseen' = TRUE /\ unheard' = TRUE
  /\ UNCHANGED <<made, orders, payment, guest, tab, calls, badge, overtaken, heads, newest,
                 polls, stray>>
-----------------------------------------------------------------------------
\* What the cart is now, the newest refresh will show: what happened behind the header is over.
HeadRead(h) ==
  /\ heads[h].at = "sent" /\ Makes(guest)
  /\ \E c \in CartOf(guest) :
       heads' = [heads EXCEPT ![h] = [at |-> "done", jar |-> c, got |-> Units(c)]]
  /\ unheard' = (unheard /\ h # newest)
  /\ UNCHANGED <<cart, orders, payment, stray, guest, tab, calls, badge, overtaken, newest, polls,
                 events, unseen>>
\* Answers come in any order and the last one stays: nothing tells an older refresh from the newest.
Ends(h) ==
  /\ heads' = [heads EXCEPT ![h] = NoHead]
  /\ overtaken' = (h # newest /\ heads[newest].at = "idle")
HeadShows(h) ==
  /\ heads[h].at = "done" /\ Ends(h) /\ badge' = heads[h].got /\ guest' = heads[h].jar
  /\ LET other == guest \notin {NoCart, heads[h].jar}
     IN  unseen' = (unseen \/ other) /\ unheard' = (unheard \/ other)
  /\ UNCHANGED <<shop, tab, calls, newest, polls, events>>
\* An error counts as an empty cart.
HeadFails(h) ==
  /\ heads[h].at \in {"sent", "done"} /\ Event
  /\ Ends(h) /\ badge' = 0 /\ unheard' = (unheard \/ h = newest)
  /\ UNCHANGED <<shop, guest, tab, calls, newest, polls, unseen>>
-----------------------------------------------------------------------------
\* OrderStatusPage: at once and every four seconds, whether or not the last load has ended.
Poll_UntilError ==                                \* mutant: the interval is cleared by an error
  /\ tab.page = "order" /\ ~tab.error
  /\ \E k \in Polls : polls[k] = "idle" /\ polls' = [polls EXCEPT ![k] = "sent"]
  /\ UNCHANGED <<shop, guest, tab, calls, badge, overtaken, heads, newest, events, unseen, unheard>>
Poll ==
  /\ tab.page = "order"
  /\ \E k \in Polls : polls[k] = "idle" /\ polls' = [polls EXCEPT ![k] = "sent"]
  /\ UNCHANGED <<shop, guest, tab, calls, badge, overtaken, heads, newest, events, unseen, unheard>>
PollRead(k) ==
  /\ polls[k] = "sent" /\ polls' = [polls EXCEPT ![k] = payment]
  /\ UNCHANGED <<shop, guest, tab, calls, badge, overtaken, heads, newest, events, unseen, unheard>>
PollShows(k) ==
  /\ polls[k] \notin {"idle", "sent"} /\ polls' = [polls EXCEPT ![k] = "idle"]
  /\ tab' = [tab EXCEPT !.shown = polls[k], !.error = FALSE]
  /\ UNCHANGED <<shop, guest, calls, badge, overtaken, heads, newest, events, unseen, unheard>>
PollFails(k) ==
  /\ polls[k] # "idle" /\ polls' = [polls EXCEPT ![k] = "idle"]
  /\ tab' = [tab EXCEPT !.error = TRUE]
  /\ UNCHANGED <<shop, guest, calls, badge, overtaken, heads, newest, events, unseen, unheard>>

\* The worker and the provider (Orders).
Pay ==
  /\ \/ payment = "PENDING" /\ payment' \in {"INITIATED"} \cup FinalStatus
     \/ payment = "INITIATED" /\ payment' \in FinalStatus
  /\ UNCHANGED <<cart, made, orders, stray, guest, tab, calls, badge, overtaken, heads, newest,
                 polls, events, unseen, unheard>>

\* paymentTone: how the order page renders a status.
Tone(status) ==
  CASE status \in {"PAID", "SUCCEEDED", "SUCCESS", "COMPLETED"} -> "ok"
    [] status \in {"FAILED", "CANCELLED", "CANCELED", "EXPIRED"} -> "failed"
    [] OTHER -> "pending"
-----------------------------------------------------------------------------
Customer == (\E by \in 1..2 : Add(by)) \/ Change \/ Turn \/ Submit \/ OpenPage \/ OpenOrder
Network ==
  \/ \E s \in Lanes : Execute(s) \/ Receive(s) \/ Bought(s) \/ Placed(s) \/ Refused(s)
                      \/ Lose(s)
  \/ ExecuteStray \/ Elsewhere
Header == \E h \in Heads : HeadRead(h) \/ HeadShows(h) \/ HeadFails(h)
Watch == Poll \/ (\E k \in Polls : PollRead(k) \/ PollShows(k) \/ PollFails(k)) \/ Pay
StoreNext == Customer \/ Network \/ Header \/ Watch

StoreSpec == StoreInit /\ [][StoreNext]_storeVars

\* The interval fires for ever, and not every load of it fails.
StoreFairness ==
  /\ WF_storeVars(Poll)
  /\ SF_storeVars(\E k \in Polls : PollRead(k)) /\ SF_storeVars(\E k \in Polls : PollShows(k))
-----------------------------------------------------------------------------
NoCalls == \A s \in Lanes : calls[s].at = "idle"
Quiet == NoCalls /\ \A h \in Heads : heads[h].at = "idle"

\* A page at rest shows the cart unless something changed it behind the page's back.  The badge,
\* which every edit refreshes without waiting (cart/page.tsx:38), shows it unless the cart changed
\* after its newest refresh had read it, or that refresh failed, or an older one answered after it
\* (SiteHeader.tsx:52 takes the answers as they come: BadgeShowsTheCart).
PagesShowTheCart ==
  /\ NoCalls /\ ~unseen /\ tab.view # Unknown => tab.view = Units(guest)
  /\ Quiet /\ ~unheard /\ ~overtaken => badge = Units(guest)

\* A final status is shown by an order page that stays open, however many of its overlapping loads
\* fail or answer out of order (orders/[id]/page.tsx:62).
FinalStatusIsShown ==
  tab.page = "order" /\ payment \in FinalStatus ~> tab.shown = payment \/ tab.page # "order"
-----------------------------------------------------------------------------
(* Statements that the code does not keep.                                                    *)

\* "Payment confirmed by the server. Thank you." (orders/[id]/page.tsx:159): CONFIRMED, the status
\* of a paid order (schema.prisma:163), is none of those the page takes for success.
PaidIsShown == tab.shown = "CONFIRMED" => Tone(tab.shown) = "ok"
\* The page shows statuses in the order in which the payment has them.
StatusNeverGoesBack ==
  [][tab.shown \in FinalStatus /\ tab'.page = "order" => tab'.shown \in FinalStatus]_tab
\* The badge shows the cart when everything has been answered and nothing changed behind its back:
\* an older refresh may answer last, and its count stays until the next navigation or edit.
BadgeShowsTheCart == Quiet /\ ~unheard => badge = Units(guest)
\* All units a guest asked for are in the cart of the cookie.
NoStrandedCart == Quiet => \A c \in Carts \ {guest} : Units(c) = 0
\* A checkout that the page reports as failed made no order: the retry has a new key, and finds the
\* cart empty.
FailedMeansNoOrder == tab.page = "checkout" /\ tab.error /\ NoCalls => orders = 0
=============================================================================
