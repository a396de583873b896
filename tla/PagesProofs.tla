----------------------------- MODULE PagesProofs ------------------------------
(***************************************************************************)
(* Proofs about the pages of the storefront and of the administrators, for *)
(* any number of clicks, calls and answers in any order.  StorePages: what *)
(* a page at rest and the badge of the header show is the cart.            *)
(* AdminPages: what "Saved" says is stored, under one offer.               *)
(***************************************************************************)
EXTENDS StorePages, AdminPages, SequenceTheorems, TLAPS
-----------------------------------------------------------------------------
(***************************************************************************)
(* The storefront: what each call under way will show, and whether         *)
(* something will still correct what the page shows now.                   *)
(***************************************************************************)
Shown == {"idle", "sent", "none", "PENDING", "INITIATED"} \cup FinalStatus
PageNames == {"product", "cart", "checkout", "order"}
CallRow == [op : Edits \cup {"load"}, arg : Int, by : 0..2,
            at : {"idle", "sent", "done", "refused"}, jar : 0..2, got : Int]
HeadRow == [at : {"idle", "sent", "done"}, jar : 0..2, got : Int]
StrayRow == [op : Edits \cup {"none"}, arg : Int, jar : 0..2]
TabRow == [page : PageNames, view : Int, step : Int, shown : Shown, error : BOOLEAN]
StoreShapes ==
  /\ cart \in [Carts -> Int] /\ guest \in 0..2 /\ badge \in Int
  /\ calls \in [Lanes -> CallRow] /\ heads \in [Heads -> HeadRow] /\ newest \in Heads
  /\ tab \in TabRow /\ polls \in [Polls -> Shown] /\ payment \in Shown /\ stray \in StrayRow
  /\ unseen \in BOOLEAN /\ unheard \in BOOLEAN /\ overtaken \in BOOLEAN

\* The calls that each page makes.
OpsOf(p) ==
  CASE p = "product" -> {"add"} [] p = "cart" -> {"load", "update", "remove"}
    [] p = "checkout" -> {"load", "buy", "checkout"} [] OTHER -> {}
CallOK(c) ==
  /\ c.at = "idle" => c.by = 0
  /\ c.at \in {"done", "refused"} => c.jar \in Carts
  /\ c.by # 0 =>
       /\ c.op \in OpsOf(tab.page)
       /\ tab.page # "product" => c.by = 1
       /\ (c.op = "load" /\ tab.page = "cart") \/ c.op = "buy" => tab.view = Unknown
CallsOK == \A s \in Lanes : CallOK(calls[s])
\* The cart page waits for the answer of one call before it makes another, and so does buy now.
Alone ==
  \A s, t \in Lanes :
    s # t /\ Mine(s) /\ Mine(t) => tab.page \in {"product", "checkout"} /\ calls[s].op # "buy"
ViewOK ==
  /\ tab.page \in {"product", "order"} => tab.view = Unknown
  /\ tab.view # Unknown => guest # NoCart
HeadsOK == \A h \in Heads : heads[h].at = "done" => heads[h].jar \in Carts

Answered(s, ops) == Mine(s) /\ calls[s].at = "done" /\ calls[s].op \in ops
Ordered == \E s \in Lanes : Answered(s, {"checkout"})
\* What the page shows, or will show when an answer under way has come.
Seen ==
  /\ \A s \in Lanes :
       Answered(s, {"load", "update", "remove"}) =>
         calls[s].got = Units(calls[s].jar) \/ Ordered
  /\ tab.view # Unknown =>
       tab.view = Units(guest) \/ \E s \in Lanes : Answered(s, {"update", "remove", "checkout"})

\* An edit that the API executed and whose answer will refresh the header.
Pending == \E s \in Lanes : calls[s].at = "done" /\ calls[s].op \in Edits
Heard ==
  /\ heads[newest].at = "done" =>
       heads[newest].got = Units(heads[newest].jar) \/ Pending
  /\ heads[newest].at = "idle" => guest # NoCart /\ (badge = Units(guest) \/ Pending \/ overtaken)

StoreInv ==
  /\ StoreShapes /\ CallsOK /\ Alone /\ ViewOK /\ HeadsOK
  /\ unseen \/ Seen
  /\ unheard \/ Heard

LEMMA Fresh ==
  ASSUME NEW p \in PageNames
  PROVE  NewTab(p) \in TabRow /\ NewTab(p).page = p /\ NewTab(p).view = Unknown
BY DEF NewTab, TabRow, Unknown, Shown

LEMMA StoreStarts == StoreInit => StoreInv
<1> SUFFICES ASSUME StoreInit PROVE StoreInv
  OBVIOUS
<1> USE DEF StoreInit
<1>1. StoreShapes
  <2>1. calls \in [Lanes -> CallRow]
    BY DEF NoStep, CallRow, NoCart, Edits
  <2>2. heads \in [Heads -> HeadRow]
    BY DEF NoHead, HeadRow, NoCart
  <2>3. tab \in TabRow
    BY Fresh DEF PageNames
  <2>4. cart \in [Carts -> Int] /\ guest \in 0..2 /\ badge \in Int
    BY DEF Carts, NoCart
  <2>5. newest \in Heads /\ polls \in [Polls -> Shown] /\ payment \in Shown
    BY StoreConstants DEF Shown
  <2>6. stray \in StrayRow
    BY DEF StrayRow, NoCart
  <2> QED BY <2>1, <2>2, <2>3, <2>4, <2>5, <2>6 DEF StoreShapes
<1>2. \A s \in Lanes : calls[s] = NoStep
  OBVIOUS
<1>3. CallsOK /\ Alone
  BY <1>2 DEF CallsOK, CallOK, Alone, Mine, NoStep
<1>4. ViewOK
  BY DEF ViewOK, NewTab
<1>5. heads[newest].at = "sent" /\ HeadsOK
  BY StoreConstants DEF HeadsOK, NoHead
<1>6. Seen
  BY <1>2 DEF Seen, Answered, Mine, NoStep, NewTab
<1>7. Heard
  BY <1>5 DEF Heard
<1> QED BY <1>1, <1>3, <1>4, <1>5, <1>6, <1>7 DEF StoreInv

\* A step that touches neither the cart, the calls nor the header.
LEMMA Aside ==
  ASSUME StoreInv, StoreShapes',
         UNCHANGED <<cart, guest, calls, badge, overtaken, heads, newest, unseen, unheard>>,
         tab'.page = tab.page, tab'.view = tab.view
  PROVE  StoreInv'
<1> USE DEF StoreInv
<1>1. CallsOK'
  BY DEF CallsOK, CallOK
<1>2. Alone' /\ ViewOK' /\ HeadsOK'
  BY DEF Alone, Mine, ViewOK, HeadsOK
<1>3. (unseen \/ Seen)'
  BY DEF Seen, Answered, Ordered, Mine, Units
<1>4. (unheard \/ Heard)'
  BY DEF Heard, Pending, Units
<1> QED BY <1>1, <1>2, <1>3, <1>4

LEMMA StoreStutters ==
  ASSUME StoreInv, UNCHANGED storeVars PROVE StoreInv'
<1>1. StoreShapes'
  BY DEF StoreInv, storeVars, StoreShapes
<1> QED BY <1>1, Aside DEF storeVars

LEMMA WatchKeeps ==
  ASSUME StoreInv, Watch \/ Turn PROVE StoreInv'
<1> USE DEF StoreInv, StoreShapes, shop
<1>1. CASE Turn
  <2>1. PICK step \in {tab.step - 1, tab.step + 1} \cap 0..2 : tab' = [tab EXCEPT !.step = step]
    BY <1>1 DEF Turn
  <2>2. tab' \in TabRow /\ tab'.page = tab.page /\ tab'.view = tab.view
    BY <2>1 DEF TabRow
  <2> QED BY <1>1, <2>2, Aside DEF Turn
<1>2. CASE Poll
  BY <1>2, Aside DEF Poll, Shown
<1>3. ASSUME NEW k \in Polls, PollRead(k) PROVE StoreInv'
  BY <1>3, Aside DEF PollRead
<1>4. ASSUME NEW k \in Polls, PollShows(k) PROVE StoreInv'
  <2>1. tab' \in TabRow /\ tab'.page = tab.page /\ tab'.view = tab.view
    BY <1>4 DEF PollShows, TabRow
  <2> QED BY <1>4, <2>1, Aside DEF PollShows, Shown
<1>5. ASSUME NEW k \in Polls, PollFails(k) PROVE StoreInv'
  <2>1. tab' \in TabRow /\ tab'.page = tab.page /\ tab'.view = tab.view
    BY <1>5 DEF PollFails, TabRow
  <2> QED BY <1>5, <2>1, Aside DEF PollFails, Shown
<1>6. CASE Pay
  BY <1>6, Aside DEF Pay, Shown
<1> QED BY <1>1, <1>2, <1>3, <1>4, <1>5, <1>6 DEF Watch

LEMMA OneMore ==
  ASSUME StoreInv, NEW op \in Edits \cup {"load"}, NEW arg \in Int, NEW by \in 0..2, NEW s \in Lanes,
         calls' = [calls EXCEPT ![s] = Call(op, arg, by)]
  PROVE  /\ calls' \in [Lanes -> CallRow]
         /\ calls'[s].op = op /\ calls'[s].by = by /\ calls'[s].at = "sent"
         /\ \A t \in Lanes \ {s} : calls'[t] = calls[t]
<1>1. Call(op, arg, by) \in CallRow
  BY DEF Call, CallRow, NoCart
<1> QED BY <1>1 DEF StoreInv, StoreShapes, Call

LEMMA Begun ==
  ASSUME StoreInv, NEW op \in Edits, NEW arg \in Int, NEW by \in 1..2,
         Begin(op, arg, by), tab' \in TabRow, tab'.page = tab.page, tab'.view = tab.view,
         op \in OpsOf(tab.page), op # "buy", tab.page # "product" => by = 1,
         \A t \in Lanes : Mine(t) => tab.page \in {"product", "checkout"} /\ calls[t].op # "buy",
         UNCHANGED <<cart, guest, badge, overtaken, heads, newest, polls, payment, stray, unseen, unheard>>
  PROVE  StoreInv'
<1>0. op \in Edits \cup {"load"} /\ by \in 0..2
  OBVIOUS
<1>1. PICK s \in Lanes : FreeLane(s) /\ calls' = [calls EXCEPT ![s] = Call(op, arg, by)]
  BY DEF Begin
<1>2. /\ calls' \in [Lanes -> CallRow]
      /\ calls'[s].op = op /\ calls'[s].by = by /\ calls'[s].at = "sent"
      /\ \A t \in Lanes \ {s} : calls'[t] = calls[t]
  BY <1>0, <1>1, OneMore
<1> USE DEF StoreInv
<1>3. calls[s].at = "idle" /\ ~Mine(s)
  BY <1>1 DEF FreeLane, CallsOK, CallOK, Mine
<1>4. StoreShapes'
  BY <1>2 DEF StoreShapes
<1>5. CallsOK'
  <2> SUFFICES ASSUME NEW t \in Lanes PROVE CallOK(calls[t])'
    BY DEF CallsOK
  <2>1. CASE t = s
    BY <1>2, <2>1 DEF CallOK, OpsOf, Edits
  <2>2. CASE t # s
    BY <1>2, <2>2 DEF CallsOK, CallOK
  <2> QED BY <2>1, <2>2
<1>6. Alone'
  BY <1>2 DEF Alone, Mine
<1>7. ViewOK' /\ HeadsOK'
  BY DEF ViewOK, HeadsOK
<1>8. \A t \in Lanes : calls'[t].at = "done" <=> calls[t].at = "done"
  BY <1>2, <1>3
<1>9. \A t \in Lanes : calls'[t].at = "done" => calls'[t] = calls[t]
  BY <1>2
<1>10. (unseen \/ Seen)'
  BY <1>8, <1>9 DEF Seen, Answered, Ordered, Mine, Units
<1>11. (unheard \/ Heard)'
  BY <1>8, <1>9 DEF Heard, Pending, Units
<1> QED BY <1>4, <1>5, <1>6, <1>7, <1>10, <1>11

LEMMA AddKeeps ==
  ASSUME StoreInv, NEW by \in 1..2, Add(by) PROVE StoreInv'
<1>1. Begin("add", 1, by) /\ tab.page = "product" /\ tab' = [tab EXCEPT !.error = FALSE]
  BY DEF Add
<1>2. tab' \in TabRow /\ tab'.page = tab.page /\ tab'.view = tab.view
  BY <1>1 DEF StoreInv, StoreShapes, TabRow
<1>3. \A t \in Lanes : Mine(t) => calls[t].op = "add"
  BY <1>1 DEF StoreInv, CallsOK, CallOK, Mine, OpsOf
<1>4. "add" \in Edits /\ "add" \in OpsOf(tab.page)
  BY <1>1 DEF Edits, OpsOf
<1>5. \A t \in Lanes : Mine(t) => tab.page \in {"product", "checkout"} /\ calls[t].op # "buy"
  BY <1>1, <1>3
<1>6. UNCHANGED <<cart, guest, badge, overtaken, heads, newest, polls, payment, stray, unseen, unheard>>
  BY DEF Add, shop
<1>7. tab.page # "product" => by = 1
  BY <1>1
<1>8. 1 \in Int /\ by \in 1..2 /\ "add" # "buy"
  OBVIOUS
<1> QED BY <1>1, <1>2, <1>4, <1>5, <1>6, <1>7, <1>8, Begun

\* Nothing of this page is under way but loads.
LEMMA NotBusy ==
  ASSUME StoreInv, ~Busy(1), tab.page # "product", NEW t \in Lanes, Mine(t)
  PROVE  calls[t].op = "load"
BY DEF StoreInv, StoreShapes, CallRow, CallsOK, CallOK, Mine, Busy

LEMMA ChangeKeeps ==
  ASSUME StoreInv, Change PROVE StoreInv'
<1>1. PICK op \in {"update", "remove"}, arg \in Int : Begin(op, arg, 1)
  <2>1. CASE Begin("remove", 0, 1)
    BY <2>1
  <2>2. ASSUME NEW q \in 1..Most \cup {tab.view - 1}, Begin("update", q, 1)
        PROVE  \E op \in {"update", "remove"}, arg \in Int : Begin(op, arg, 1)
    <3>1. q \in Int
      BY DEF StoreInv, StoreShapes, TabRow
    <3> QED BY <2>2, <3>1
  <2> QED BY <2>1, <2>2 DEF Change
<1>2. tab.page = "cart" /\ tab.view # Unknown /\ ~Busy(1) /\ tab' = tab
  BY DEF Change, Unknown
<1>3. \A t \in Lanes : ~Mine(t)
  BY <1>2, NotBusy DEF StoreInv, CallsOK, CallOK, Mine
<1>4. op \in Edits /\ op \in OpsOf(tab.page) /\ op # "buy"
  BY <1>2 DEF Edits, OpsOf
<1>5. tab' \in TabRow
  BY <1>2 DEF StoreInv, StoreShapes
<1> QED BY <1>1, <1>2, <1>3, <1>4, <1>5, Begun DEF Change, shop

LEMMA SubmitKeeps ==
  ASSUME StoreInv, Submit PROVE StoreInv'
<1>1. Begin("checkout", 0, 1) /\ tab.page = "checkout" /\ ~Busy(1)
      /\ tab' = [tab EXCEPT !.error = FALSE]
  BY DEF Submit
<1>2. tab' \in TabRow /\ tab'.page = tab.page /\ tab'.view = tab.view
  BY <1>1 DEF StoreInv, StoreShapes, TabRow
<1>3. \A t \in Lanes : Mine(t) => calls[t].op = "load"
  BY <1>1, NotBusy
<1>4. "checkout" \in Edits /\ "checkout" \in OpsOf(tab.page)
  BY <1>1 DEF Edits, OpsOf
<1>5. \A t \in Lanes : Mine(t) => tab.page \in {"product", "checkout"} /\ calls[t].op # "buy"
  BY <1>1, <1>3
<1>6. UNCHANGED <<cart, guest, badge, overtaken, heads, newest, polls, payment, stray, unseen, unheard>>
  BY DEF Submit, shop
<1>7. tab.page # "product" => 1 = 1
  BY <1>1
<1>8. 0 \in Int /\ 1 \in 1..2 /\ "checkout" # "buy"
  OBVIOUS
<1> QED BY <1>1, <1>2, <1>4, <1>5, <1>6, <1>7, <1>8, Begun

\* A header that has just started to refresh will show what it reads.
LEMMA Refreshed ==
  ASSUME StoreInv, Refresh
  PROVE  /\ heads' \in [Heads -> HeadRow] /\ newest' \in Heads /\ heads'[newest'].at = "sent"
         /\ HeadsOK'
<1>1. PICK h \in Heads : newest' = h /\ heads' = [heads EXCEPT ![h] = [at |-> "sent", jar |-> NoCart, got |-> 0]]
  BY DEF Refresh
<1>2. heads \in [Heads -> HeadRow] /\ HeadsOK
  BY DEF StoreInv, StoreShapes
<1>3. [at |-> "sent", jar |-> NoCart, got |-> 0] \in HeadRow
  BY DEF HeadRow, NoCart
<1>4. heads' \in [Heads -> HeadRow] /\ newest' \in Heads /\ heads'[newest'].at = "sent"
  BY <1>1, <1>2, <1>3
<1>5. HeadsOK'
  BY <1>1, <1>2 DEF HeadsOK
<1> QED BY <1>4, <1>5

LEMMA LeftBehind ==
  ASSUME StoreInv
  PROVE  /\ Left \in [Lanes -> CallRow]
         /\ \A t \in Lanes : /\ Left[t].by = 0 /\ Left[t].at = calls[t].at /\ Left[t].op = calls[t].op
                             /\ Left[t].jar = calls[t].jar
<1>1. \A t \in Lanes : calls[t] \in CallRow
  BY DEF StoreInv, StoreShapes
<1>2. \A t \in Lanes : Left[t] = [calls[t] EXCEPT !.by = 0]
  BY DEF Left
<1>3. ASSUME NEW t \in Lanes
      PROVE  /\ Left[t] \in CallRow /\ Left[t].by = 0 /\ Left[t].at = calls[t].at
             /\ Left[t].op = calls[t].op /\ Left[t].jar = calls[t].jar
  <2>1. PICK c \in CallRow : c = calls[t]
    BY <1>1
  <2>2. 0 \in 0..2 /\ [c EXCEPT !.by = 0] \in CallRow
    BY DEF CallRow
  <2>3. [c EXCEPT !.by = 0].by = 0 /\ [c EXCEPT !.by = 0].at = c.at
        /\ [c EXCEPT !.by = 0].op = c.op /\ [c EXCEPT !.by = 0].jar = c.jar
    BY DEF CallRow
  <2> QED BY <1>2, <2>1, <2>2, <2>3
<1> QED BY <1>3 DEF Left

\* A page that was just opened shows nothing yet, and none of its calls was answered.
LEMMA PageOpens ==
  ASSUME StoreInv, NEW p \in PageNames, tab' = NewTab(p), polls' = [k \in Polls |-> "idle"],
         calls' \in [Lanes -> CallRow], CallsOK', Alone',
         \A t \in Lanes : calls'[t].at = "done" => calls'[t].by = 0,
         Refresh, cart' = cart, guest' \in 0..2, UNCHANGED <<badge, overtaken, payment, stray>>,
         unseen' \in BOOLEAN, unheard' \in BOOLEAN
  PROVE  StoreInv'
<1>1. tab' \in TabRow /\ tab'.page = p /\ tab'.view = Unknown
  BY Fresh
<1>2. /\ heads' \in [Heads -> HeadRow] /\ newest' \in Heads /\ heads'[newest'].at = "sent"
      /\ HeadsOK'
  BY Refreshed
<1>3. StoreShapes'
  BY <1>1, <1>2 DEF StoreInv, StoreShapes, Shown
<1>4. ViewOK'
  BY <1>1 DEF ViewOK
<1>5. Seen'
  BY <1>1 DEF Seen, Answered, Mine
<1>6. Heard'
  BY <1>2 DEF Heard
<1> QED BY <1>2, <1>3, <1>4, <1>5, <1>6 DEF StoreInv

\* The calls of a page that was left, with one of the new page's in a lane that was free.
LEMMA FirstCall ==
  ASSUME StoreInv, NEW p \in {"cart", "checkout"}, tab' = NewTab(p), NEW op \in {"load", "buy"},
         op = "buy" => p = "checkout", NEW arg \in Int, NEW s \in Lanes,
         calls' = [Left EXCEPT ![s] = Call(op, arg, 1)]
  PROVE  /\ calls' \in [Lanes -> CallRow] /\ CallsOK' /\ Alone'
         /\ \A t \in Lanes : calls'[t].at = "done" => calls'[t].by = 0
<1>1. tab'.page = p /\ tab'.view = Unknown
  BY Fresh DEF PageNames
<1>2. Call(op, arg, 1) \in CallRow /\ op \in OpsOf(p)
  BY DEF Call, CallRow, NoCart, Edits, OpsOf
<1>3. /\ calls' \in [Lanes -> CallRow] /\ calls'[s] = Call(op, arg, 1)
      /\ \A t \in Lanes \ {s} : calls'[t] = Left[t]
  BY <1>2, LeftBehind
<1>4. ASSUME NEW t \in Lanes PROVE CallOK(calls[t])'
  <2>1. CASE t = s
    BY <1>1, <1>2, <1>3, <2>1 DEF CallOK, Call
  <2>2. CASE t # s
    BY <1>3, <2>2, LeftBehind DEF CallOK, StoreInv, CallsOK
  <2> QED BY <2>1, <2>2
<1>5. CallsOK'
  BY <1>4 DEF CallsOK
<1>6. \A t \in Lanes : calls'[t].by # 0 => t = s
  BY <1>3, LeftBehind
<1>7. Alone'
  BY <1>6 DEF Alone, Mine
<1>8. \A t \in Lanes : calls'[t].at = "done" => calls'[t].by = 0
  BY <1>3, <1>6 DEF Call
<1> QED BY <1>3, <1>5, <1>7, <1>8

LEMMA NoneOfMine ==
  ASSUME StoreInv, calls' = Left
  PROVE  /\ calls' \in [Lanes -> CallRow] /\ CallsOK' /\ Alone'
         /\ \A t \in Lanes : calls'[t].by = 0
<1>1. calls' \in [Lanes -> CallRow] /\ \A t \in Lanes : calls'[t].by = 0
  BY LeftBehind
<1>2. CallsOK'
  BY LeftBehind DEF StoreInv, CallsOK, CallOK
<1> QED BY <1>1, <1>2 DEF Alone, Mine

LEMMA OpenKeeps ==
  ASSUME StoreInv, OpenPage \/ OpenOrder PROVE StoreInv'
<1>1. /\ Refresh /\ UNCHANGED <<cart, guest, badge, overtaken, payment, stray, unheard>>
      /\ guest' \in 0..2 /\ unheard' \in BOOLEAN
  BY DEF OpenPage, OpenOrder, shop, StoreInv, StoreShapes
<1>2. CASE OpenOrder
  <2>1. tab' = NewTab("order") /\ polls' = [k \in Polls |-> "idle"] /\ unseen' = FALSE /\ calls' = Left
    BY <1>2 DEF OpenOrder, Leave
  <2>2. "order" \in PageNames
    BY DEF PageNames
  <2> QED BY <1>1, <2>1, <2>2, NoneOfMine, PageOpens
<1>3. CASE OpenPage
  <2>1. PICK p \in {"product", "cart", "checkout"} :
          /\ Leave(p)
          /\ IF p = "product" THEN calls' = Left
             ELSE \E s \in Lanes, op \in {"load", "buy"} :
                    /\ FreeLane(s) /\ (op = "buy" => p = "checkout")
                    /\ calls' = [Left EXCEPT ![s] = Call(op, IF op = "buy" THEN 1 ELSE 0, 1)]
    BY <1>3 DEF OpenPage
  <2>2. tab' = NewTab(p) /\ polls' = [k \in Polls |-> "idle"] /\ unseen' = FALSE /\ p \in PageNames
    BY <2>1 DEF Leave, PageNames
  <2>3. CASE p = "product"
    <3>1. calls' = Left
      BY <2>1, <2>3
    <3> QED BY <1>1, <2>2, <3>1, NoneOfMine, PageOpens
  <2>4. CASE p # "product"
    <3>1. PICK s \in Lanes, op \in {"load", "buy"} :
            /\ op = "buy" => p = "checkout"
            /\ calls' = [Left EXCEPT ![s] = Call(op, IF op = "buy" THEN 1 ELSE 0, 1)]
      BY <2>1, <2>4
    <3>2. (IF op = "buy" THEN 1 ELSE 0) \in Int /\ p \in {"cart", "checkout"}
      BY <2>4
    <3>3. /\ calls' \in [Lanes -> CallRow] /\ CallsOK' /\ Alone'
          /\ \A t \in Lanes : calls'[t].at = "done" => calls'[t].by = 0
      BY <2>2, <3>1, <3>2, FirstCall
    <3> QED BY <1>1, <2>2, <3>3, PageOpens
  <2> QED BY <2>3, <2>4
<1> QED BY <1>2, <1>3

AnsweredRow(row, c, n) == [row EXCEPT !.at = "done", !.jar = c, !.got = n]
RefusedRow(row, c) == [row EXCEPT !.at = "refused", !.jar = c]
LEMMA RowChanges ==
  ASSUME NEW row \in CallRow, NEW c \in 0..2, NEW n \in Int
  PROVE  /\ AnsweredRow(row, c, n) \in CallRow /\ AnsweredRow(row, c, n).at = "done"
         /\ AnsweredRow(row, c, n).jar = c /\ AnsweredRow(row, c, n).got = n
         /\ AnsweredRow(row, c, n).op = row.op /\ AnsweredRow(row, c, n).by = row.by
         /\ RefusedRow(row, c) \in CallRow /\ RefusedRow(row, c).at = "refused"
         /\ RefusedRow(row, c).jar = c
         /\ RefusedRow(row, c).op = row.op /\ RefusedRow(row, c).by = row.by
BY DEF CallRow, AnsweredRow, RefusedRow

\* The call of lane s was answered, or refused, from cart c.
LEMMA RowAnswered ==
  ASSUME StoreInv, NEW s \in Lanes, NEW c \in Carts, NEW n \in Int,
         calls' = [calls EXCEPT ![s].at = "done", ![s].jar = c, ![s].got = n]
  PROVE  /\ calls' \in [Lanes -> CallRow]
         /\ calls'[s].at = "done" /\ calls'[s].jar = c /\ calls'[s].got = n
         /\ calls'[s].op = calls[s].op /\ calls'[s].by = calls[s].by
         /\ \A t \in Lanes \ {s} : calls'[t] = calls[t]
<1>1. calls \in [Lanes -> CallRow] /\ c \in 0..2
  BY DEF StoreInv, StoreShapes, Carts
<1>2. calls' = [calls EXCEPT ![s] = AnsweredRow(calls[s], c, n)]
  BY <1>1 DEF AnsweredRow
<1>3. PICK new : new = AnsweredRow(calls[s], c, n)
  OBVIOUS
<1>4. calls[s] \in CallRow
  BY <1>1
<1>5. /\ new \in CallRow /\ new.at = "done" /\ new.jar = c /\ new.got = n
      /\ new.op = calls[s].op /\ new.by = calls[s].by
  BY <1>1, <1>3, <1>4, RowChanges
<1>6. calls' = [calls EXCEPT ![s] = new]
  BY <1>2, <1>3
<1>7. calls' \in [Lanes -> CallRow]
  BY <1>1, <1>5, <1>6
<1>8. calls'[s] = new /\ \A t \in Lanes \ {s} : calls'[t] = calls[t]
  BY <1>1, <1>6
<1> QED BY <1>5, <1>7, <1>8

LEMMA RowRefused ==
  ASSUME StoreInv, NEW s \in Lanes, NEW c \in Carts,
         calls' = [calls EXCEPT ![s].at = "refused", ![s].jar = c]
  PROVE  /\ calls' \in [Lanes -> CallRow]
         /\ calls'[s].at = "refused" /\ calls'[s].jar = c
         /\ calls'[s].op = calls[s].op /\ calls'[s].by = calls[s].by
         /\ \A t \in Lanes \ {s} : calls'[t] = calls[t]
<1>1. calls \in [Lanes -> CallRow] /\ c \in 0..2
  BY DEF StoreInv, StoreShapes, Carts
<1>2. calls' = [calls EXCEPT ![s] = RefusedRow(calls[s], c)]
  BY <1>1 DEF RefusedRow
<1>3. PICK new : new = RefusedRow(calls[s], c)
  OBVIOUS
<1>4. calls[s] \in CallRow /\ 0 \in Int
  BY <1>1
<1>5. /\ new \in CallRow /\ new.at = "refused" /\ new.jar = c
      /\ new.op = calls[s].op /\ new.by = calls[s].by
  BY <1>1, <1>3, <1>4, RowChanges
<1>6. calls' = [calls EXCEPT ![s] = new]
  BY <1>2, <1>3
<1>7. calls' \in [Lanes -> CallRow]
  BY <1>1, <1>5, <1>6
<1>8. calls'[s] = new /\ \A t \in Lanes \ {s} : calls'[t] = calls[t]
  BY <1>1, <1>6
<1> QED BY <1>5, <1>7, <1>8

LEMMA CartsExist ==
  ASSUME StoreInv, NEW cookie \in 0..2, NEW c \in CartOf(cookie)
  PROVE  c \in Carts /\ c # NoCart /\ (cookie # NoCart => c = cookie)
BY DEF CartOf, Carts, NoCart

\* What the API does leaves numbers in the carts, and a load leaves them as they are.
LEMMA Effected ==
  ASSUME StoreInv, NEW op, NEW arg \in Int, NEW c \in Carts, Effect(op, arg, c) \/ Order(op, c)
  PROVE  cart' \in [Carts -> Int] /\ payment' \in Shown /\ (op = "load" => cart' = cart)
<1>1. cart \in [Carts -> Int] /\ payment \in Shown
  BY DEF StoreInv, StoreShapes
<1>2. CASE Order(op, c)
  BY <1>1, <1>2 DEF Order, Shown
<1>3. CASE Effect(op, arg, c)
  <2>1. PICK n \in Int : cart' = [cart EXCEPT ![c] = n] /\ (op = "load" => n = cart[c])
    <3>1. cart[c] \in Int
      BY <1>1
    <3>2. PICK n : n = CASE op = "load" -> cart[c] [] op \in {"add", "buy"} -> cart[c] + arg
                         [] OTHER -> arg
      OBVIOUS
    <3>3. n \in Int /\ (op = "load" => n = cart[c])
      BY <3>1, <3>2
    <3>4. cart' = [cart EXCEPT ![c] = n]
      BY <1>1, <1>3, <3>2 DEF Effect
    <3> QED BY <3>3, <3>4
  <2> QED BY <1>1, <1>3, <2>1 DEF Effect
<1> QED BY <1>2, <1>3

\* A call that was answered or refused is as much a call of its page as before.
LEMMA StillOK ==
  ASSUME StoreInv, NEW s \in Lanes, calls[s].at # "idle",
         calls' \in [Lanes -> CallRow], calls'[s].at \in {"done", "refused"},
         calls'[s].jar \in Carts, calls'[s].op = calls[s].op, calls'[s].by = calls[s].by,
         \A t \in Lanes \ {s} : calls'[t] = calls[t], tab' = tab, guest' = guest
  PROVE  CallsOK' /\ Alone' /\ ViewOK'
<1>1. ASSUME NEW t \in Lanes PROVE CallOK(calls[t])'
  <2>1. CallOK(calls[t])
    BY DEF StoreInv, CallsOK
  <2>2. CASE t = s
    BY <2>1, <2>2 DEF CallOK
  <2>3. CASE t # s
    BY <2>1, <2>3 DEF CallOK
  <2> QED BY <2>2, <2>3
<1>2. CallsOK'
  BY <1>1 DEF CallsOK
<1>3. \A t \in Lanes : calls'[t].op = calls[t].op /\ calls'[t].by = calls[t].by
  OBVIOUS
<1>4. Alone'
  BY <1>3 DEF StoreInv, Alone, Mine
<1> QED BY <1>2, <1>4 DEF StoreInv, ViewOK

LEMMA AnsweredKeeps ==
  ASSUME StoreInv, NEW s \in Lanes, calls[s].at = "sent", NEW c \in Carts,
         cart' \in [Carts -> Int], payment' \in Shown, calls[s].op = "load" => cart' = cart,
         calls' = [calls EXCEPT ![s].at = "done", ![s].jar = c, ![s].got = cart'[c]],
         unseen' = (unseen \/ (calls[s].by = 0 /\ calls[s].op \in Edits)),
         UNCHANGED <<guest, tab, badge, overtaken, heads, newest, polls, stray, unheard>>
  PROVE  StoreInv'
<1>1. PICK n \in Int : n = cart'[c]
  OBVIOUS
<1>2. calls' = [calls EXCEPT ![s].at = "done", ![s].jar = c, ![s].got = n]
  BY <1>1
<1>3. /\ calls' \in [Lanes -> CallRow]
      /\ calls'[s].at = "done" /\ calls'[s].jar = c /\ calls'[s].got = n
      /\ calls'[s].op = calls[s].op /\ calls'[s].by = calls[s].by
      /\ \A t \in Lanes \ {s} : calls'[t] = calls[t]
  BY <1>2, RowAnswered
<1>4. CallsOK' /\ Alone' /\ ViewOK'
  BY <1>3, StillOK
<1>5. StoreShapes'
  BY <1>3 DEF StoreInv, StoreShapes
<1>6. HeadsOK'
  BY DEF StoreInv, HeadsOK
<1>7. calls[s].op \in Edits \cup {"load"} /\ Units(c)' = n /\ CallOK(calls[s])
  BY <1>1 DEF StoreInv, StoreShapes, CallRow, Units, NoCart, Carts, CallsOK
<1>8. CASE calls[s].op = "load"
  <2>1. cart' = cart /\ (unseen => unseen')
    BY <1>8 DEF Edits
  <2>2. (unseen \/ Seen)'
    BY <1>3, <1>7, <1>8, <2>1 DEF StoreInv, Seen, Answered, Ordered, Mine, Units
  <2>3. (unheard \/ Heard)'
    BY <1>3, <1>8, <2>1 DEF StoreInv, Heard, Pending, Units, Edits
  <2> QED BY <1>4, <1>5, <1>6, <2>2, <2>3 DEF StoreInv
<1>9. CASE calls[s].op \in Edits
  <2>1. Pending'
    BY <1>3, <1>9 DEF Pending
  <2>2. (unheard \/ Heard)'
    BY <2>1 DEF StoreInv, Heard
  <2>3. ASSUME ~unseen' PROVE Seen'
    <3>1. Mine(s) /\ calls[s].op \in OpsOf(tab.page)
      BY <1>7, <1>9, <2>3 DEF CallOK, Mine
    <3>2. Mine(s)' /\ (calls[s].op = "checkout" => Ordered')
      BY <1>3, <3>1 DEF Ordered, Answered, Mine
    <3>3. CASE calls[s].op = "checkout"
      BY <1>3, <1>9, <3>2, <3>3 DEF Seen, Answered
    <3>4. CASE calls[s].op \in {"update", "remove"}
      <4>1. \A t \in Lanes \ {s} : ~Mine(t)'
        BY <1>3, <3>1, <3>4 DEF StoreInv, Alone, Mine, OpsOf
      <4>2. Answered(s, {"update", "remove", "checkout"})'
        BY <1>3, <3>2, <3>4 DEF Answered
      <4> QED BY <1>3, <1>7, <4>1, <4>2 DEF Seen, Answered
    <3>5. CASE calls[s].op = "buy"
      <4>1. \A t \in Lanes \ {s} : ~Mine(t)'
        BY <1>3, <3>1, <3>5 DEF StoreInv, Alone, Mine
      <4>2. tab.view = Unknown
        BY <1>7, <3>1, <3>5 DEF CallOK, Mine
      <4> QED BY <1>3, <3>5, <4>1, <4>2 DEF Seen, Answered
    <3>6. CASE calls[s].op = "add"
      <4>1. tab.page = "product" /\ tab.view = Unknown
        BY <3>1, <3>6 DEF OpsOf, StoreInv, StoreShapes, TabRow, PageNames, ViewOK
      <4>2. \A t \in Lanes : Mine(t)' => calls'[t].op = "add"
        BY <1>3, <4>1 DEF StoreInv, CallsOK, CallOK, Mine, OpsOf
      <4> QED BY <4>1, <4>2 DEF Seen, Answered
    <3> QED BY <1>9, <3>3, <3>4, <3>5, <3>6 DEF Edits
  <2> QED BY <1>4, <1>5, <1>6, <2>2, <2>3 DEF StoreInv
<1> QED BY <1>7, <1>8, <1>9

LEMMA RefusalKeeps ==
  ASSUME StoreInv, NEW s \in Lanes, calls[s].at = "sent", NEW c \in Carts,
         calls' = [calls EXCEPT ![s].at = "refused", ![s].jar = c],
         unseen' \in BOOLEAN, unseen => unseen',
         UNCHANGED <<cart, payment, guest, tab, badge, overtaken, heads, newest, polls, stray, unheard>>
  PROVE  StoreInv'
<1>1. /\ calls' \in [Lanes -> CallRow]
      /\ calls'[s].at = "refused" /\ calls'[s].jar = c
      /\ calls'[s].op = calls[s].op /\ calls'[s].by = calls[s].by
      /\ \A t \in Lanes \ {s} : calls'[t] = calls[t]
  BY RowRefused
<1>2. CallsOK' /\ Alone' /\ ViewOK'
  BY <1>1, StillOK
<1>3. StoreShapes'
  BY <1>1 DEF StoreInv, StoreShapes
<1>4. HeadsOK'
  BY DEF StoreInv, HeadsOK
<1>5. \A t \in Lanes : calls'[t].at = "done" <=> calls[t].at = "done"
  BY <1>1
<1>6. \A t \in Lanes : calls'[t].at = "done" => calls'[t] = calls[t]
  BY <1>1
<1>7. (unseen \/ Seen)'
  <2>1. ASSUME NEW ops, NEW t \in Lanes PROVE Answered(t, ops)' <=> Answered(t, ops)
    BY <1>5, <1>6 DEF Answered, Mine
  <2>2. Ordered' <=> Ordered
    BY <2>1 DEF Ordered
  <2>3. ASSUME Seen PROVE Seen'
    <3>1. ASSUME NEW t \in Lanes, Answered(t, {"load", "update", "remove"})'
          PROVE  (calls[t].got = Units(calls[t].jar) \/ Ordered)'
      <4>1. calls'[t] = calls[t]
        BY <1>6, <3>1 DEF Answered
      <4> QED BY <2>1, <2>2, <2>3, <3>1, <4>1 DEF Seen, Units
    <3>2. (tab.view # Unknown =>
            tab.view = Units(guest) \/ \E t \in Lanes : Answered(t, {"update", "remove", "checkout"}))'
      BY <2>1, <2>3 DEF Seen, Units
    <3> QED BY <3>1, <3>2 DEF Seen
  <2> QED BY <2>3 DEF StoreInv
<1>8. (unheard \/ Heard)'
  BY <1>5, <1>6 DEF StoreInv, Heard, Pending, Units
<1> QED BY <1>2, <1>3, <1>4, <1>7, <1>8 DEF StoreInv

LEMMA ExecuteKeeps ==
  ASSUME StoreInv, NEW s \in Lanes, Execute(s) PROVE StoreInv'
<1>1. guest \in 0..2 /\ calls[s].arg \in Int
  BY DEF StoreInv, StoreShapes, CallRow
<1>2. PICK c \in CartOf(guest) :
       \/ /\ Effect(calls[s].op, calls[s].arg, c) \/ Order(calls[s].op, c)
          /\ calls' = [calls EXCEPT ![s].at = "done", ![s].jar = c, ![s].got = cart'[c]]
       \/ /\ Refuses(calls[s].op, calls[s].arg, c) /\ UNCHANGED <<cart, orders, payment>>
          /\ calls' = [calls EXCEPT ![s].at = "refused", ![s].jar = c]
  BY DEF Execute
<1>3. c \in Carts
  BY <1>1, <1>2, CartsExist
<1>4. /\ calls[s].at = "sent" /\ unseen' = (unseen \/ (calls[s].by = 0 /\ calls[s].op \in Edits))
      /\ UNCHANGED <<guest, tab, badge, overtaken, heads, newest, polls, stray, unheard>>
  BY DEF Execute
<1>5. CASE /\ Effect(calls[s].op, calls[s].arg, c) \/ Order(calls[s].op, c)
           /\ calls' = [calls EXCEPT ![s].at = "done", ![s].jar = c, ![s].got = cart'[c]]
  <2>1. cart' \in [Carts -> Int] /\ payment' \in Shown /\ (calls[s].op = "load" => cart' = cart)
    BY <1>1, <1>3, <1>5, Effected
  <2> QED BY <1>3, <1>4, <1>5, <2>1, AnsweredKeeps
<1>6. CASE /\ UNCHANGED <<cart, orders, payment>>
           /\ calls' = [calls EXCEPT ![s].at = "refused", ![s].jar = c]
  <2>1. unseen' \in BOOLEAN /\ (unseen => unseen')
    BY <1>4 DEF StoreInv, StoreShapes
  <2> QED BY <1>3, <1>4, <1>6, <2>1, RefusalKeeps
<1> QED BY <1>2, <1>5, <1>6

LEMMA CookieSet ==
  ASSUME StoreInv, NEW c \in Carts, Cookie(c)
  PROVE  /\ guest' = c /\ guest' \in 0..2 /\ guest' # NoCart
         /\ unseen' \in BOOLEAN /\ unheard' \in BOOLEAN
         /\ ~unseen' => ~unseen /\ (guest # NoCart => guest' = guest)
         /\ ~unheard' => ~unheard /\ (guest # NoCart => guest' = guest)
<1>1. unseen \in BOOLEAN /\ unheard \in BOOLEAN
  BY DEF StoreInv, StoreShapes
<1>2. /\ guest' = c /\ unseen' = (unseen \/ guest \notin {NoCart, c})
      /\ unheard' = (unheard \/ guest \notin {NoCart, c})
  BY DEF Cookie
<1>3. unseen' \in BOOLEAN /\ unheard' \in BOOLEAN
  BY <1>1, <1>2
<1>4. ~unseen' => ~unseen /\ (guest # NoCart => guest' = guest)
  BY <1>1, <1>2
<1>5. ~unheard' => ~unheard /\ (guest # NoCart => guest' = guest)
  BY <1>1, <1>2
<1>6. guest' \in 0..2 /\ guest' # NoCart
  BY <1>2 DEF Carts, NoCart
<1> QED BY <1>2, <1>3, <1>4, <1>5, <1>6

\* Nothing of the header changed, nor of the cart that it counts.
LEMMA HeardStays ==
  ASSUME StoreInv, UNCHANGED <<cart, badge, overtaken, heads, newest>>,
         ~unheard' => ~unheard /\ (guest # NoCart => guest' = guest),
         Pending => Pending'
  PROVE  (unheard \/ Heard)' /\ HeadsOK'
<1>1. HeadsOK'
  BY DEF StoreInv, HeadsOK
<1>2. (unheard \/ Heard)'
  BY DEF StoreInv, Heard, Units
<1> QED BY <1>1, <1>2

LEMMA HeardAgain ==
  ASSUME StoreInv, Refresh PROVE (unheard \/ Heard)' /\ HeadsOK'
BY Refreshed DEF Heard

\* The call of lane s is over, or goes on for nobody.
Gone(s) ==
  /\ calls'[s].at \notin {"done", "refused"} /\ calls'[s].by = 0
  /\ \A t \in Lanes \ {s} : calls'[t] = calls[t]

LEMMA Over ==
  ASSUME StoreInv, NEW s \in Lanes, calls' = [calls EXCEPT ![s] = NoStep]
  PROVE  /\ calls' \in [Lanes -> CallRow] /\ calls'[s].at = "idle" /\ calls'[s].by = 0
         /\ \A t \in Lanes \ {s} : calls'[t] = calls[t]
         /\ Gone(s)
         /\ (calls[s].at # "done" \/ calls[s].op \notin Edits) /\ Pending => Pending'
<1>1. NoStep \in CallRow
  BY DEF NoStep, CallRow, NoCart
<1>2. /\ calls' \in [Lanes -> CallRow] /\ calls'[s].at = "idle" /\ calls'[s].by = 0
      /\ \A t \in Lanes \ {s} : calls'[t] = calls[t]
  BY <1>1 DEF StoreInv, StoreShapes, NoStep
<1>3. (calls[s].at # "done" \/ calls[s].op \notin Edits) /\ Pending => Pending'
  BY <1>2 DEF Pending
<1>4. Gone(s)
  BY <1>2 DEF Gone
<1> QED BY <1>2, <1>3, <1>4

\* A call is over, and the page shows what it showed.
LEMMA OverOK ==
  ASSUME StoreInv, NEW s \in Lanes, Gone(s),
         tab'.page = tab.page, tab'.view = tab.view, guest # NoCart => guest' # NoCart
  PROVE  CallsOK' /\ Alone' /\ ViewOK'
<1>1. /\ calls'[s].at \notin {"done", "refused"} /\ calls'[s].by = 0
      /\ \A t \in Lanes \ {s} : calls'[t] = calls[t]
  BY DEF Gone
<1>2. ASSUME NEW t \in Lanes PROVE CallOK(calls[t])'
  <2>1. CallOK(calls[t])
    BY DEF StoreInv, CallsOK
  <2>2. CASE t = s
    BY <1>1, <2>2 DEF CallOK
  <2>3. CASE t # s
    BY <1>1, <2>1, <2>3 DEF CallOK
  <2> QED BY <2>2, <2>3
<1>3. CallsOK'
  BY <1>2 DEF CallsOK
<1>4. \A t \in Lanes : Mine(t)' => Mine(t) /\ calls'[t].op = calls[t].op
  BY <1>1 DEF Mine
<1>5. Alone'
  BY <1>4 DEF StoreInv, Alone
<1> QED BY <1>3, <1>5 DEF StoreInv, ViewOK

\* The same for what the page shows, unless the call had changed the cart for the page.
LEMMA OverSeen ==
  ASSUME StoreInv, NEW s \in Lanes, Gone(s),
         tab'.page = tab.page, tab'.view = tab.view, cart' = cart,
         ~unseen' => ~unseen /\ (guest # NoCart => guest' = guest),
         ~unseen' => ~Answered(s, {"update", "remove", "checkout"})
  PROVE  (unseen \/ Seen)'
<1>1. /\ calls'[s].at \notin {"done", "refused"} /\ calls'[s].by = 0
      /\ \A t \in Lanes \ {s} : calls'[t] = calls[t]
  BY DEF Gone
<1> SUFFICES ASSUME ~unseen' PROVE Seen'
  OBVIOUS
<1>2. ASSUME NEW ops, ~Answered(s, ops), NEW t \in Lanes, Answered(t, ops)
      PROVE  Answered(t, ops)'
  BY <1>1, <1>2 DEF Answered, Mine
<1>3. ASSUME NEW ops, NEW t \in Lanes, Answered(t, ops)'
      PROVE  Answered(t, ops) /\ calls'[t] = calls[t]
  BY <1>1, <1>3 DEF Answered, Mine
<1>4. ~Answered(s, {"checkout"})
  BY DEF Answered
<1>5. Ordered => Ordered'
  BY <1>2, <1>4 DEF Ordered
<1>6. ASSUME NEW t \in Lanes, Answered(t, {"load", "update", "remove"})'
      PROVE  (calls[t].got = Units(calls[t].jar) \/ Ordered)'
  BY <1>3, <1>5, <1>6 DEF StoreInv, Seen, Units
<1>7. ASSUME tab'.view # Unknown
      PROVE  (tab.view = Units(guest) \/ \E t \in Lanes : Answered(t, {"update", "remove", "checkout"}))'
  <2>1. guest # NoCart /\ guest' = guest
    BY <1>7 DEF StoreInv, ViewOK
  <2>2. CASE tab.view = Units(guest)
    BY <2>1, <2>2 DEF Units
  <2>3. ASSUME NEW t \in Lanes, Answered(t, {"update", "remove", "checkout"})
        PROVE  Answered(t, {"update", "remove", "checkout"})'
    BY <1>2, <2>3
  <2> QED BY <1>7, <2>2, <2>3 DEF StoreInv, Seen
<1> QED BY <1>6, <1>7 DEF Seen

LEMMA ReceiveKeeps ==
  ASSUME StoreInv, NEW s \in Lanes, Receive(s) PROVE StoreInv'
<1>1. /\ calls[s].at = "done" /\ calls[s].op \notin {"checkout", "buy"}
      /\ calls' = [calls EXCEPT ![s] = NoStep] /\ Cookie(calls[s].jar)
      /\ UNCHANGED <<cart, payment, badge, overtaken, polls, stray>>
  BY DEF Receive, shop
<1>2. CallOK(calls[s]) /\ calls[s] \in CallRow /\ calls[s].jar \in Carts
  BY <1>1 DEF StoreInv, StoreShapes, CallsOK, CallOK
<1>3. /\ guest' = calls[s].jar /\ guest' \in 0..2 /\ guest' # NoCart
      /\ unseen' \in BOOLEAN /\ unheard' \in BOOLEAN
      /\ ~unseen' => ~unseen /\ (guest # NoCart => guest' = guest)
      /\ ~unheard' => ~unheard /\ (guest # NoCart => guest' = guest)
  BY <1>1, <1>2, CookieSet
<1>4. /\ calls' \in [Lanes -> CallRow] /\ calls'[s].at = "idle" /\ calls'[s].by = 0
      /\ \A t \in Lanes \ {s} : calls'[t] = calls[t]
      /\ (calls[s].at # "done" \/ calls[s].op \notin Edits) /\ Pending => Pending'
      /\ Gone(s)
  BY <1>1, Over
<1>5. /\ heads' \in [Heads -> HeadRow] /\ newest' \in Heads
      /\ (unheard \/ Heard)' /\ HeadsOK'
  <2>1. CASE calls[s].op = "load"
    <3>1. UNCHANGED <<cart, badge, overtaken, heads, newest>>
      BY <1>1, <2>1 DEF Receive
    <3>2. Pending => Pending'
      BY <1>4, <2>1 DEF Edits
    <3> QED BY <1>3, <3>1, <3>2, HeardStays DEF StoreInv, StoreShapes
  <2>2. CASE calls[s].op # "load"
    <3>1. Refresh
      BY <2>2 DEF Receive
    <3> QED BY <3>1, Refreshed, HeardAgain
  <2> QED BY <2>1, <2>2
<1>6. /\ tab' \in TabRow /\ tab'.page = tab.page
      /\ Mine(s) /\ calls[s].op # "add" => tab'.view = calls[s].got
      /\ ~(Mine(s) /\ calls[s].op # "add") => tab'.view = tab.view
  <2>1. tab \in TabRow /\ calls[s].got \in Int
    BY <1>2 DEF StoreInv, StoreShapes, CallRow
  <2>2. CASE ~Mine(s)
    BY <2>1, <2>2 DEF Receive
  <2>3. ASSUME Mine(s)
        PROVE  \E v, e : /\ v = (IF calls[s].op = "add" THEN tab.view ELSE calls[s].got)
                         /\ e = (tab.error /\ calls[s].op # "load")
                         /\ tab' = [tab EXCEPT !.view = v, !.error = e]
    BY <2>3 DEF Receive
  <2>4. ASSUME NEW v \in Int, NEW e \in BOOLEAN, tab' = [tab EXCEPT !.view = v, !.error = e]
        PROVE  tab' \in TabRow /\ tab'.page = tab.page /\ tab'.view = v
    BY <2>1, <2>4 DEF TabRow
  <2>5. CASE Mine(s)
    <3>1. PICK v, e : /\ v = (IF calls[s].op = "add" THEN tab.view ELSE calls[s].got)
                      /\ e = (tab.error /\ calls[s].op # "load")
                      /\ tab' = [tab EXCEPT !.view = v, !.error = e]
      BY <2>3, <2>5
    <3>2. v \in Int
      BY <2>1, <3>1 DEF TabRow
    <3>3. e \in BOOLEAN
      BY <3>1
    <3>4. tab' \in TabRow /\ tab'.page = tab.page /\ tab'.view = v
      BY <2>4, <3>1, <3>2, <3>3
    <3> QED BY <2>5, <3>1, <3>4
  <2> QED BY <2>2, <2>5
<1>7. StoreShapes'
  BY <1>1, <1>3, <1>4, <1>5, <1>6 DEF StoreInv, StoreShapes
<1>8. CASE ~(Mine(s) /\ calls[s].op # "add")
  <2>1. ~Answered(s, {"update", "remove", "checkout"})
    BY <1>8 DEF Answered
  <2> QED BY <1>1, <1>3, <1>4, <1>5, <1>6, <1>7, <1>8, <2>1, OverOK, OverSeen DEF StoreInv
<1>9. CASE Mine(s) /\ calls[s].op # "add"
  <2>1. calls[s].op \in {"load", "update", "remove"} /\ calls[s].op \in OpsOf(tab.page)
    BY <1>1, <1>2, <1>9 DEF CallRow, Edits, CallOK, Mine
  <2>2. tab.page \in {"cart", "checkout"}
    BY <2>1 DEF OpsOf
  <2>3. \A t \in Lanes \ {s} : Mine(t) => tab.page = "checkout" /\ calls[t].op # "buy"
    BY <1>9, <2>2 DEF StoreInv, Alone
  <2>4. ASSUME NEW t \in Lanes PROVE CallOK(calls[t])'
    <3>1. CASE t = s
      BY <1>4, <3>1 DEF CallOK
    <3>2. CASE t # s
      <4>1. CallOK(calls[t]) /\ calls'[t] = calls[t]
        BY <1>4, <3>2 DEF StoreInv, CallsOK
      <4>2. calls[t].by # 0 => tab.page = "checkout" /\ calls[t].op # "buy"
        BY <2>3, <3>2 DEF Mine
      <4> QED BY <1>6, <4>1, <4>2 DEF CallOK
    <3> QED BY <3>1, <3>2
  <2>5. CallsOK'
    BY <2>4 DEF CallsOK
  <2>6. \A t \in Lanes : Mine(t)' => t # s /\ Mine(t) /\ calls'[t] = calls[t]
    BY <1>4 DEF Mine
  <2>7. Alone'
    BY <1>6, <2>3, <2>6 DEF Alone
  <2>8. ViewOK'
    BY <1>3, <1>6, <2>2 DEF ViewOK
  <2>9. ASSUME ~unseen' PROVE Seen'
    <3>1. Answered(s, {"load", "update", "remove"}) /\ ~unseen
      BY <1>1, <1>3, <1>9, <2>1, <2>9 DEF Answered
    <3>2. calls[s].got = Units(calls[s].jar) \/ Ordered
      BY <3>1 DEF StoreInv, Seen
    <3>3. Ordered => Ordered' /\ \E t \in Lanes : Answered(t, {"update", "remove", "checkout"})'
      BY <1>4, <2>1 DEF Ordered, Answered, Mine
    <3>4. ASSUME NEW t \in Lanes, Answered(t, {"load", "update", "remove"})'
          PROVE  (calls[t].got = Units(calls[t].jar) \/ Ordered)'
      <4>1. Answered(t, {"load", "update", "remove"}) /\ calls'[t] = calls[t]
        BY <2>6, <3>4 DEF Answered
      <4>2. calls[t].got = Units(calls[t].jar) \/ Ordered
        BY <3>1, <4>1 DEF StoreInv, Seen
      <4> QED BY <1>1, <3>3, <4>1, <4>2 DEF Units
    <3>5. (tab.view = Units(guest))' \/ \E t \in Lanes : Answered(t, {"update", "remove", "checkout"})'
      BY <1>1, <1>3, <1>6, <1>9, <3>2, <3>3 DEF Units
    <3> QED BY <3>4, <3>5 DEF Seen
  <2> QED BY <1>5, <1>7, <2>5, <2>7, <2>8, <2>9 DEF StoreInv
<1> QED BY <1>8, <1>9

LEMMA RefusedKeeps ==
  ASSUME StoreInv, NEW s \in Lanes, Refused(s) PROVE StoreInv'
<1>1. /\ calls[s].at = "refused" /\ calls' = [calls EXCEPT ![s] = NoStep] /\ Cookie(calls[s].jar)
      /\ UNCHANGED <<cart, payment, badge, overtaken, heads, newest, polls, stray>>
  BY DEF Refused, shop
<1>2. calls[s].jar \in Carts
  BY <1>1 DEF StoreInv, CallsOK, CallOK
<1>3. /\ guest' = calls[s].jar /\ guest' \in 0..2 /\ guest' # NoCart
      /\ unseen' \in BOOLEAN /\ unheard' \in BOOLEAN
      /\ ~unseen' => ~unseen /\ (guest # NoCart => guest' = guest)
      /\ ~unheard' => ~unheard /\ (guest # NoCart => guest' = guest)
  BY <1>1, <1>2, CookieSet
<1>4. tab' \in TabRow /\ tab'.page = tab.page /\ tab'.view = tab.view
  BY DEF Refused, StoreInv, StoreShapes, TabRow
<1>5. calls' \in [Lanes -> CallRow] /\ (Pending => Pending') /\ Gone(s)
  BY <1>1, Over
<1>6. StoreShapes'
  BY <1>1, <1>3, <1>4, <1>5 DEF StoreInv, StoreShapes
<1>7. ~Answered(s, {"update", "remove", "checkout"})
  BY <1>1 DEF Answered
<1>8. (unheard \/ Heard)' /\ HeadsOK'
  BY <1>1, <1>3, <1>5, HeardStays
<1> QED BY <1>1, <1>3, <1>4, <1>5, <1>6, <1>7, <1>8, OverOK, OverSeen DEF StoreInv

LEMMA LoseKeeps ==
  ASSUME StoreInv, NEW s \in Lanes, Lose(s) PROVE StoreInv'
<1>1. /\ calls' = [calls EXCEPT ![s] = NoStep]
      /\ UNCHANGED <<cart, payment, guest, badge, overtaken, heads, newest, polls>>
  BY DEF Lose
<1>2. PICK lost \in BOOLEAN :
        /\ lost <=> calls[s].at = "done" /\ calls[s].op \in Edits
        /\ unseen' = (unseen \/ lost) /\ unheard' = (unheard \/ lost)
  BY DEF Lose
<1>3. unseen \in BOOLEAN /\ unheard \in BOOLEAN
  BY DEF StoreInv, StoreShapes
<1>4. unseen' \in BOOLEAN /\ unheard' \in BOOLEAN /\ (~unseen' => ~unseen /\ ~lost)
      /\ (~unheard' => ~unheard /\ ~lost)
  BY <1>2, <1>3
<1>5. tab' \in TabRow /\ tab'.page = tab.page /\ tab'.view = tab.view
  BY DEF Lose, StoreInv, StoreShapes, TabRow
<1>6. calls' \in [Lanes -> CallRow] /\ (~lost /\ Pending => Pending') /\ Gone(s)
  BY <1>1, <1>2, Over
<1>7. stray' \in StrayRow
  BY DEF Lose, StoreInv, StoreShapes, CallRow, StrayRow
<1>8. StoreShapes'
  BY <1>1, <1>4, <1>5, <1>6, <1>7 DEF StoreInv, StoreShapes
<1>9. ~unseen' => ~Answered(s, {"update", "remove", "checkout"})
  BY <1>2, <1>4 DEF Answered, Edits
<1>10. HeadsOK' /\ (unheard \/ Heard)'
  <2>1. HeadsOK'
    BY <1>1 DEF StoreInv, HeadsOK
  <2>2. CASE ~unheard'
    BY <1>1, <1>4, <1>6, <2>2, HeardStays
  <2> QED BY <2>1, <2>2
<1> QED BY <1>1, <1>4, <1>5, <1>6, <1>8, <1>9, <1>10, OverOK, OverSeen DEF StoreInv

\* Nothing changed but the cookie, and that only where the page is told.
LEMMA CookieOnly ==
  ASSUME StoreInv, UNCHANGED <<cart, calls>>, tab'.page = tab.page, tab'.view = tab.view,
         ~unseen' => ~unseen /\ (guest # NoCart => guest' = guest),
         guest # NoCart => guest' # NoCart
  PROVE  CallsOK' /\ Alone' /\ ViewOK' /\ (unseen \/ Seen)'
<1>1. CallsOK' /\ Alone' /\ ViewOK'
  BY DEF StoreInv, CallsOK, CallOK, Alone, Mine, ViewOK
<1>2. ASSUME ~unseen' PROVE Seen'
  <2>1. Seen /\ (tab.view # Unknown => guest' = guest)
    BY <1>2 DEF StoreInv, ViewOK
  <2> QED BY <2>1 DEF Seen, Answered, Ordered, Mine, Units
<1> QED BY <1>1, <1>2

LEMMA LoadRow ==
  ASSUME NEW by \in 0..2
  PROVE  /\ Call("load", 0, by) \in CallRow /\ Call("load", 0, by).op = "load"
         /\ Call("load", 0, by).by = by /\ Call("load", 0, by).at = "sent"
BY DEF Call, CallRow, NoCart

LEMMA BoughtKeeps ==
  ASSUME StoreInv, NEW s \in Lanes, Bought(s) PROVE StoreInv'
<1>1. /\ calls[s].at = "done" /\ calls[s].op = "buy" /\ Cookie(calls[s].jar) /\ Refresh
      /\ UNCHANGED <<cart, payment, stray, tab, badge, overtaken, polls>>
  BY DEF Bought, shop
<1>2. PICK again \in Lanes :
        /\ Mine(s) => calls[again].at = "idle"
        /\ calls' = [i \in Lanes |-> IF i = s \/ (i = again /\ Mine(s))
                                    THEN Call("load", 0, calls[s].by) ELSE calls[i]]
  BY DEF Bought
<1>3. CallOK(calls[s]) /\ calls[s].by \in 0..2 /\ calls \in [Lanes -> CallRow]
  BY DEF StoreInv, StoreShapes, CallsOK, CallRow
<1>4. /\ guest' = calls[s].jar /\ guest' \in 0..2 /\ guest' # NoCart
      /\ unseen' \in BOOLEAN /\ unheard' \in BOOLEAN
      /\ ~unseen' => ~unseen /\ (guest # NoCart => guest' = guest)
  BY <1>1, <1>3, CookieSet DEF CallOK
<1>5. /\ heads' \in [Heads -> HeadRow] /\ newest' \in Heads
      /\ (unheard \/ Heard)' /\ HeadsOK'
  BY <1>1, Refreshed, HeardAgain
<1>6. PICK new \in CallRow :
        /\ new.op = "load" /\ new.by = calls[s].by /\ new.at = "sent"
        /\ calls' = [i \in Lanes |-> IF i = s \/ (i = again /\ Mine(s)) THEN new ELSE calls[i]]
  BY <1>2, <1>3, LoadRow
<1>7. calls' \in [Lanes -> CallRow]
  BY <1>3, <1>6
<1>8. StoreShapes'
  BY <1>1, <1>4, <1>5, <1>7 DEF StoreInv, StoreShapes
<1>9. CASE ~Mine(s)
  <2>1. Gone(s)
    BY <1>6, <1>9 DEF Gone, Mine
  <2>2. ~Answered(s, {"update", "remove", "checkout"})
    BY <1>9 DEF Answered
  <2> QED BY <1>1, <1>4, <1>5, <1>8, <2>1, <2>2, OverOK, OverSeen DEF StoreInv
<1>10. CASE Mine(s)
  <2>1. tab.page = "checkout" /\ tab.view = Unknown /\ calls[s].by = 1
    <3>1. calls[s].by # 0 /\ "buy" \in OpsOf(tab.page)
      BY <1>1, <1>3, <1>10 DEF CallOK, Mine
    <3>2. tab.page = "checkout"
      BY <3>1 DEF OpsOf
    <3> QED BY <1>1, <1>3, <3>1, <3>2 DEF CallOK
  <2>2. \A t \in Lanes \ {s} : ~Mine(t)
    BY <1>1, <1>10 DEF StoreInv, Alone
  <2>3. \A t \in Lanes : Mine(t)' => calls'[t] = new
    BY <1>6, <2>2 DEF Mine
  <2>4. ASSUME NEW t \in Lanes PROVE CallOK(calls[t])'
    <3>1. CASE calls'[t] = new
      BY <1>1, <1>6, <2>1, <3>1 DEF CallOK, OpsOf
    <3>2. CASE calls'[t] = calls[t] /\ calls[t].by = 0
      BY <3>2 DEF StoreInv, CallsOK, CallOK
    <3> QED BY <1>6, <2>2, <3>1, <3>2 DEF Mine
  <2>5. CallsOK'
    BY <2>4 DEF CallsOK
  <2>6. Alone'
    BY <1>1, <1>6, <2>1, <2>3 DEF Alone
  <2>7. ViewOK'
    BY <1>1, <2>1 DEF ViewOK
  <2>8. Seen'
    BY <1>1, <1>6, <2>1, <2>3 DEF Seen, Answered
  <2> QED BY <1>5, <1>8, <2>5, <2>6, <2>7, <2>8 DEF StoreInv
<1> QED BY <1>9, <1>10

LEMMA PlacedKeeps ==
  ASSUME StoreInv, NEW s \in Lanes, Placed(s) PROVE StoreInv'
<1>1. /\ calls[s].at = "done" /\ tab' = NewTab("order") /\ polls' = [k \in Polls |-> "idle"]
      /\ Refresh /\ Cookie(calls[s].jar) /\ UNCHANGED <<cart, payment, stray, badge, overtaken>>
  BY DEF Placed, shop
<1>2. guest' \in 0..2 /\ unseen' \in BOOLEAN /\ unheard' \in BOOLEAN
  BY <1>1, CookieSet DEF StoreInv, CallsOK, CallOK
<1>3. NoStep \in CallRow /\ NoStep.by = 0 /\ NoStep.at = "idle"
  BY DEF NoStep, CallRow, NoCart
<1>4. /\ calls' \in [Lanes -> CallRow] /\ calls'[s] = NoStep
      /\ \A t \in Lanes \ {s} : calls'[t] = Left[t]
  BY <1>3, LeftBehind DEF Placed
<1>5. \A t \in Lanes : calls'[t].by = 0 /\ (t # s => calls'[t].at = calls[t].at /\ calls'[t].jar = calls[t].jar)
  BY <1>3, <1>4, LeftBehind
<1>6. CallsOK'
  BY <1>3, <1>4, <1>5 DEF StoreInv, CallsOK, CallOK
<1>7. Alone'
  BY <1>5 DEF Alone, Mine
<1>8. "order" \in PageNames
  BY DEF PageNames
<1> QED BY <1>1, <1>2, <1>4, <1>5, <1>6, <1>7, <1>8, PageOpens

LEMMA ElsewhereKeeps ==
  ASSUME StoreInv, ExecuteStray \/ Elsewhere PROVE StoreInv'
<1>1. /\ UNCHANGED <<guest, tab, calls, badge, overtaken, heads, newest, polls>> /\ unseen' /\ unheard'
      /\ unseen' \in BOOLEAN /\ unheard' \in BOOLEAN
  BY DEF ExecuteStray, Elsewhere
<1>2. cart' \in [Carts -> Int] /\ payment' \in Shown /\ stray' \in StrayRow
  <2>1. /\ cart \in [Carts -> Int] /\ payment \in Shown /\ stray \in StrayRow
        /\ stray.arg \in Int /\ stray.jar \in 0..2
    BY DEF StoreInv, StoreShapes, StrayRow
  <2>2. CASE Elsewhere
    <3>1. PICK n \in 0..MaxUnits : cart' = [cart EXCEPT ![guest] = n]
      BY <2>2 DEF Elsewhere
    <3>2. n \in Int /\ UNCHANGED <<payment, stray>>
      BY <2>2 DEF Elsewhere
    <3> QED BY <2>1, <3>1, <3>2
  <2>3. CASE ExecuteStray
    <3>1. stray' \in StrayRow
      BY <2>1, <2>3 DEF ExecuteStray, StrayRow
    <3>2. PICK c \in CartOf(stray.jar) :
            \/ Effect(stray.op, stray.arg, c) \/ Order(stray.op, c)
            \/ UNCHANGED <<cart, orders, payment>>
      BY <2>3 DEF ExecuteStray
    <3>3. c \in Carts
      BY <2>1, <3>2, CartsExist
    <3>4. CASE Effect(stray.op, stray.arg, c) \/ Order(stray.op, c)
      BY <2>1, <3>1, <3>3, <3>4, Effected
    <3>5. CASE UNCHANGED <<cart, orders, payment>>
      BY <2>1, <3>1, <3>5
    <3> QED BY <3>2, <3>4, <3>5
  <2> QED BY <2>2, <2>3
<1>3. StoreShapes'
  BY <1>1, <1>2 DEF StoreInv, StoreShapes
<1>4. CallsOK' /\ Alone' /\ ViewOK' /\ HeadsOK'
  BY <1>1 DEF StoreInv, CallsOK, CallOK, Alone, Mine, ViewOK, HeadsOK
<1> QED BY <1>1, <1>3, <1>4 DEF StoreInv

LEMMA HeadReadKeeps ==
  ASSUME StoreInv, NEW h \in Heads, HeadRead(h) PROVE StoreInv'
<1>1. /\ heads[h].at = "sent" /\ unheard' = (unheard /\ h # newest)
      /\ UNCHANGED <<cart, payment, stray, guest, tab, calls, badge, overtaken, newest, polls, unseen>>
  BY DEF HeadRead
<1>2. PICK c \in CartOf(guest) :
        heads' = [heads EXCEPT ![h] = [at |-> "done", jar |-> c, got |-> Units(c)]]
  BY DEF HeadRead
<1>3. c \in Carts
  BY <1>2, CartsExist DEF StoreInv, StoreShapes
<1>4. PICK new : new = [at |-> "done", jar |-> c, got |-> Units(c)]
  OBVIOUS
<1>5. new \in HeadRow /\ new.at = "done" /\ new.jar = c /\ new.got = Units(c)
  BY <1>3, <1>4 DEF StoreInv, StoreShapes, HeadRow, Units, Carts, NoCart
<1>6. heads' = [heads EXCEPT ![h] = new]
  BY <1>2, <1>4
<1>7. StoreShapes'
  BY <1>1, <1>5, <1>6 DEF StoreInv, StoreShapes
<1>8. HeadsOK'
  BY <1>3, <1>5, <1>6 DEF StoreInv, StoreShapes, HeadsOK
<1>9. (unheard \/ Heard)'
  <2>1. SUFFICES ASSUME ~unheard' PROVE Heard'
    OBVIOUS
  <2>2. newest \in Heads /\ heads \in [Heads -> HeadRow]
    BY DEF StoreInv, StoreShapes
  <2>3. CASE newest = h
    BY <1>1, <1>5, <1>6, <2>2, <2>3 DEF Heard, Units
  <2>4. CASE newest # h
    <3>1. Heard
      BY <1>1, <2>1, <2>4 DEF StoreInv
    <3> QED BY <1>1, <1>6, <2>2, <2>4, <3>1 DEF Heard, Pending, Units
  <2> QED BY <2>3, <2>4
<1>10. CallsOK' /\ Alone' /\ ViewOK' /\ (unseen \/ Seen)'
  BY <1>1, CookieOnly
<1> QED BY <1>7, <1>8, <1>9, <1>10 DEF StoreInv

\* An answer of a refresh that is not the newest leaves the badge to the newest one, which is still
\* under way, or has overtaken it.
LEMMA Answering ==
  ASSUME StoreInv, NEW h \in Heads, Ends(h), newest' = newest
  PROVE  /\ heads' \in [Heads -> HeadRow] /\ HeadsOK' /\ overtaken' \in BOOLEAN
         /\ heads'[h].at = "idle"
         /\ h # newest => heads'[newest] = heads[newest] /\ (heads[newest].at = "idle" => overtaken')
<1>1. NoHead \in HeadRow /\ NoHead.at = "idle"
  BY DEF NoHead, HeadRow, NoCart
<1>2. heads \in [Heads -> HeadRow] /\ newest \in Heads /\ HeadsOK
  BY DEF StoreInv, StoreShapes
<1> QED BY <1>1, <1>2 DEF Ends, HeadsOK

LEMMA HeadShowsKeeps ==
  ASSUME StoreInv, NEW h \in Heads, HeadShows(h) PROVE StoreInv'
<1>1. /\ heads[h].at = "done" /\ badge' = heads[h].got /\ guest' = heads[h].jar /\ Ends(h)
      /\ UNCHANGED <<cart, payment, stray, tab, calls, newest, polls>>
  BY DEF HeadShows, shop
<1>2. PICK other \in BOOLEAN :
        /\ other <=> guest \notin {NoCart, heads[h].jar}
        /\ unseen' = (unseen \/ other) /\ unheard' = (unheard \/ other)
  BY DEF HeadShows
<1>3. /\ unseen \in BOOLEAN /\ unheard \in BOOLEAN /\ heads \in [Heads -> HeadRow]
      /\ newest \in Heads /\ heads[h].jar \in Carts /\ heads[h].got \in Int
  BY <1>1 DEF StoreInv, StoreShapes, HeadsOK, HeadRow
<1>4. /\ unseen' \in BOOLEAN /\ unheard' \in BOOLEAN /\ (~unseen' => ~unseen /\ ~other)
      /\ (~unheard' => ~unheard /\ ~other)
  BY <1>2, <1>3
<1>5. /\ heads' \in [Heads -> HeadRow] /\ HeadsOK' /\ overtaken' \in BOOLEAN
      /\ heads'[h].at = "idle"
      /\ h # newest => heads'[newest] = heads[newest] /\ (heads[newest].at = "idle" => overtaken')
  BY <1>1, Answering
<1>6. guest' \in 0..2 /\ guest' # NoCart
  BY <1>1, <1>3 DEF Carts, NoCart
<1>7. StoreShapes'
  BY <1>1, <1>3, <1>4, <1>5, <1>6 DEF StoreInv, StoreShapes
<1>9. ASSUME ~unheard' PROVE Heard'
  <2>1. Heard
    BY <1>4, <1>9 DEF StoreInv
  <2>2. CASE newest = h
    <3>1. heads'[newest'].at = "idle"
      BY <1>1, <1>5, <2>2
    <3>2. heads[h].got = Units(heads[h].jar) \/ Pending
      BY <1>1, <2>1, <2>2 DEF Heard
    <3>3. badge' = Units(guest)' \/ Pending'
      BY <1>1, <3>2 DEF Units, Pending
    <3> QED BY <1>6, <3>1, <3>3 DEF Heard
  <2>3. CASE newest # h
    <3>1. heads'[newest'] = heads[newest] /\ (heads[newest].at = "idle" => overtaken')
      BY <1>1, <1>5, <2>3
    <3>2. Pending' <=> Pending
      BY <1>1 DEF Pending
    <3>3. \A c : Units(c)' = Units(c)
      BY <1>1 DEF Units
    <3> QED BY <1>1, <1>6, <2>1, <3>1, <3>2, <3>3 DEF Heard
  <2> QED BY <2>2, <2>3
<1>10. ~unseen' => ~unseen /\ (guest # NoCart => guest' = guest)
  BY <1>1, <1>2, <1>4
<1>11. CallsOK' /\ Alone' /\ ViewOK' /\ (unseen \/ Seen)'
  BY <1>1, <1>6, <1>10, CookieOnly
<1> QED BY <1>5, <1>7, <1>9, <1>11 DEF StoreInv

LEMMA HeadFailsKeeps ==
  ASSUME StoreInv, NEW h \in Heads, HeadFails(h) PROVE StoreInv'
<1>1. /\ badge' = 0 /\ unheard' = (unheard \/ h = newest) /\ Ends(h)
      /\ UNCHANGED <<cart, payment, stray, guest, tab, calls, newest, polls, unseen>>
  BY DEF HeadFails, shop
<1>2. /\ heads' \in [Heads -> HeadRow] /\ HeadsOK' /\ overtaken' \in BOOLEAN
      /\ h # newest => heads'[newest] = heads[newest] /\ (heads[newest].at = "idle" => overtaken')
  BY <1>1, Answering
<1>3. StoreShapes'
  <2>1. unheard' \in BOOLEAN
    BY <1>1 DEF StoreInv, StoreShapes
  <2> QED BY <1>1, <1>2, <2>1 DEF StoreInv, StoreShapes
<1>4. CallsOK' /\ Alone' /\ ViewOK' /\ (unseen \/ Seen)'
  BY <1>1, CookieOnly
<1>5. ASSUME ~unheard' PROVE Heard'
  <2>1. Heard /\ h # newest
    BY <1>1, <1>5 DEF StoreInv
  <2>2. heads'[newest'] = heads[newest] /\ (heads[newest].at = "idle" => overtaken')
    BY <1>1, <1>2, <2>1
  <2>3. (Pending' <=> Pending) /\ \A c : Units(c)' = Units(c)
    BY <1>1 DEF Pending, Units
  <2> QED BY <1>1, <2>1, <2>2, <2>3 DEF Heard
<1> QED BY <1>2, <1>3, <1>4, <1>5 DEF StoreInv

LEMMA StoreSteps == StoreInv /\ [StoreNext]_storeVars => StoreInv'
<1> SUFFICES ASSUME StoreInv, [StoreNext]_storeVars PROVE StoreInv'
  OBVIOUS
<1>1. CASE UNCHANGED storeVars
  BY <1>1, StoreStutters
<1>2. CASE Customer
  BY <1>2, AddKeeps, ChangeKeeps, WatchKeeps, SubmitKeeps, OpenKeeps DEF Customer
<1>3. CASE Network
  BY <1>3, ExecuteKeeps, ReceiveKeeps, BoughtKeeps, PlacedKeeps, RefusedKeeps, LoseKeeps,
     ElsewhereKeeps DEF Network
<1>4. CASE Header
  BY <1>4, HeadReadKeeps, HeadShowsKeeps, HeadFailsKeeps DEF Header
<1>5. CASE Watch
  BY <1>5, WatchKeeps
<1> QED BY <1>1, <1>2, <1>3, <1>4, <1>5 DEF StoreNext

\* The calls under way, and what each will show, whatever becomes of them: the inductive invariant
\* of the storefront's pages.
THEOREM StoreInvariant == StoreSpec => []StoreInv
BY StoreStarts, StoreSteps, PTL DEF StoreSpec

\* A page at rest shows the cart unless something changed it behind the page's back
\* (cart/page.tsx:38).  The header's badge shows it unless it changed after the newest refresh, or
\* that one failed, or an older one answered last (SiteHeader.tsx:52).  For any number of calls.
THEOREM PagesShow == StoreSpec => []PagesShowTheCart
<1>1. StoreInv => PagesShowTheCart
  <2> SUFFICES ASSUME StoreInv PROVE PagesShowTheCart
    OBVIOUS
  <2>1. ASSUME NoCalls, ~unseen, tab.view # Unknown PROVE tab.view = Units(guest)
    BY <2>1 DEF StoreInv, Seen, Answered, NoCalls
  <2>2. ASSUME Quiet, ~unheard, ~overtaken PROVE badge = Units(guest)
    BY <2>2 DEF StoreInv, StoreShapes, Heard, Pending, Quiet, NoCalls
  <2> QED BY <2>1, <2>2 DEF PagesShowTheCart
<1> QED BY <1>1, StoreInvariant, PTL

-----------------------------------------------------------------------------
(***************************************************************************)
(* The administrators' pages: what is left of each row of requests, and    *)
(* what the page knows of the product's offer.                             *)
(***************************************************************************)
Blank == Names \cup {""}
Marks == {"PENDING", "READY", "DELIVERED"}
FormRow == [name : Blank, status : Statuses, price : Prices \cup {0}, link : BOOLEAN]
AnswerRow == [name : Blank, status : Statuses, offer : {0, 1}, price : Prices \cup {0},
              images : Int, rows : [Fulfilments -> Marks]]
SaveTodos ==
  {<<"load">>} \cup {<<x, "load">> : x \in {"update", "price", "reprice", "link"}}
  \cup {<<"update", x, "load">> : x \in {"price", "reprice", "link"}}
  \cup {<<x, "link", "load">> : x \in {"price", "reprice"}}
  \cup {<<"update", x, "link", "load">> : x \in {"price", "reprice"}}
Acts == {"publish", "unpublish", "archive", "unlink", "upload", "adjust", "ready", "deliver"}
Ops == Acts \cup {"none", "open", "save", "create"}
\* What is left of a row of requests, from the one under way.
TodosOf(op) ==
  CASE op = "none" -> {<<>>} [] op = "open" -> {<<"load">>} [] op = "create" -> {<<"create">>}
    [] op = "save" -> SaveTodos [] OTHER -> {<<op, "load">>, <<"load">>}
Todos == SaveTodos \cup {<<x, "load">> : x \in Acts} \cup {<<"create">>, <<>>}
Row == [op : Ops, at : {"idle", "sent", "done", "refused"}, todo : Todos,
        form : FormRow, offer : {0, 1}, row : 0..2, got : AnswerRow]
AdminShapes ==
  /\ product \in [name : Blank, status : Statuses] /\ offers \in FirstOffers /\ images \in Int
  /\ rows \in [Fulfilments -> Marks] /\ shown \in [Fulfilments -> Marks]
  /\ seen \in [loaded : BOOLEAN, offer : {0, 1}, images : Int]
  /\ form \in FormRow /\ submitted \in FormRow /\ requests \in [Places -> Row]

OpsOn(p) ==
  {"none"} \cup
  CASE p = "product" -> {"open", "save", "publish", "unpublish", "archive", "unlink", "upload"}
    [] p = "new" -> {"create"} [] p = "stock" -> {"open", "adjust"}
    [] p = "order" -> {"open", "ready", "deliver"} [] OTHER -> {"open"}
RequestOK(c) ==
  /\ c.todo \in TodosOf(c.op) /\ c.op \in OpsOn(page)
  /\ c.at = "idle" <=> c.op = "none"
  /\ me # "admin" => c.op \in {"none", "open"}
  /\ c.at = "refused" => Head(c.todo) \in {"update", "publish"}
RequestsOK == \A s \in Places : RequestOK(requests[s])
Pressed(s) == requests[s].op \notin {"none", "open"}
OneRow == \A s, t \in Places : s # t /\ Pressed(s) /\ Pressed(t) => page = "order"

From(at) == IF at = "done" THEN 2 ELSE 1
\* Request r of a row has yet to be executed.
Waits(at, todo, r) == \E i \in From(at)..Len(todo) : todo[i] = r
ToCome(c, r) == Waits(c.at, c.todo, r)
FirstOffer == IF offers = <<>> THEN 0 ELSE 1
SaveOK(c) ==
  /\ c.form.name = submitted.name /\ c.form.status = submitted.status
  /\ ~ToCome(c, "update") => product = [name |-> submitted.name, status |-> submitted.status]
  /\ ToCome(c, "price") => offers = <<>>
  /\ ToCome(c, "reprice") => offers # <<>> /\ c.offer = 1
  /\ ToCome(c, "price") \/ ToCome(c, "reprice") =>
       seen.loaded /\ submitted.price # 0 /\ c.form.price = submitted.price
  /\ submitted.price # 0 =>
       ToCome(c, "price") \/ ToCome(c, "reprice") \/ offers = <<submitted.price>>
SavesOK == \A s \in Places : requests[s].op = "save" => SaveOK(requests[s])
\* What the page knows of the offer, and what a load under way will tell it.
Known ==
  /\ page = "new" => ~seen.loaded
  /\ page = "product" /\ seen.loaded =>
       \/ seen.offer = FirstOffer
       \/ \E s \in Places : requests[s].op = "save" /\ ~ToCome(requests[s], "update")
  /\ \A s \in Places :
       /\ page = "product" /\ requests[s].at = "done" /\ requests[s].todo = <<"load">>
       /\ requests[s].op = "open" => ~seen.loaded
       => requests[s].got.offer = FirstOffer
Told ==
  said = "saved" =>
    /\ page = "product" /\ me = "admin" /\ \A s \in Places : ~Pressed(s)
    /\ product = [name |-> submitted.name, status |-> submitted.status]
    /\ submitted.price # 0 => offers = <<submitted.price>>
Whole == AdminShapes /\ RequestsOK /\ OneRow /\ SavesOK /\ Known /\ Told
\* Off the order's page the buttons are disabled while a row of requests runs.
BusyOK == page # "order" /\ RowRuns => busy
AdminInv == rough \/ foreign \/ crossed \/ (Whole /\ BusyOK)

LEMMA One ==
  ASSUME NEW a
  PROVE  Head(<<a>>) = a /\ Len(<<a>>) = 1
OBVIOUS
LEMMA SentOne ==
  ASSUME NEW a, NEW r PROVE Waits("sent", <<a>>, r) <=> r \in {a}
BY DEF Waits, From
LEMMA DoneOne ==
  ASSUME NEW a, NEW r PROVE Waits("done", <<a>>, r) <=> r \in {}
BY DEF Waits, From
LEMMA Two ==
  ASSUME NEW a, NEW b
  PROVE  Head(<<a, b>>) = a /\ Tail(<<a, b>>) = <<b>> /\ Len(<<a, b>>) = 2
OBVIOUS
LEMMA SentTwo ==
  ASSUME NEW a, NEW b, NEW r PROVE Waits("sent", <<a, b>>, r) <=> r \in {a, b}
BY DEF Waits, From
LEMMA DoneTwo ==
  ASSUME NEW a, NEW b, NEW r PROVE Waits("done", <<a, b>>, r) <=> r \in {b}
BY DEF Waits, From
LEMMA Three ==
  ASSUME NEW a, NEW b, NEW c
  PROVE  Head(<<a, b, c>>) = a /\ Tail(<<a, b, c>>) = <<b, c>> /\ Len(<<a, b, c>>) = 3
OBVIOUS
LEMMA SentThree ==
  ASSUME NEW a, NEW b, NEW c, NEW r PROVE Waits("sent", <<a, b, c>>, r) <=> r \in {a, b, c}
BY DEF Waits, From
LEMMA DoneThree ==
  ASSUME NEW a, NEW b, NEW c, NEW r PROVE Waits("done", <<a, b, c>>, r) <=> r \in {b, c}
BY DEF Waits, From
LEMMA Four ==
  ASSUME NEW a, NEW b, NEW c, NEW d
  PROVE  Head(<<a, b, c, d>>) = a /\ Tail(<<a, b, c, d>>) = <<b, c, d>> /\ Len(<<a, b, c, d>>) = 4
OBVIOUS
LEMMA SentFour ==
  ASSUME NEW a, NEW b, NEW c, NEW d, NEW r PROVE Waits("sent", <<a, b, c, d>>, r) <=> r \in {a, b, c, d}
BY DEF Waits, From
LEMMA DoneFour ==
  ASSUME NEW a, NEW b, NEW c, NEW d, NEW r PROVE Waits("done", <<a, b, c, d>>, r) <=> r \in {b, c, d}
BY DEF Waits, From

TodoOK(t) ==
  /\ t # <<"load">> => Len(t) > 1 /\ Tail(t) \in SaveTodos
  /\ Head(t) \in {"update", "price", "reprice", "link", "load"}
  /\ Head(t) = "load" <=> t = <<"load">>
  /\ Waits("sent", t, Head(t)) /\ (Waits("sent", t, "update") <=> Head(t) = "update")
  /\ Head(t) \in {"price", "reprice"} => ~Waits("done", t, "price") /\ ~Waits("done", t, "reprice")
WaitsOK(t, r) ==
  /\ Waits("done", t, r) <=> Waits("sent", t, r) /\ r # Head(t)
  /\ t # <<"load">> => (Waits("done", t, r) <=> Waits("sent", Tail(t), r))
  /\ t = <<"load">> => ~Waits("done", t, r)

\* The rows of a save, whatever part of them is left.
LEMMA SaveTodo == ASSUME NEW t \in SaveTodos, NEW r PROVE TodoOK(t) /\ WaitsOK(t, r)
<1>1. CASE t = <<"load">>
  BY <1>1, One, SentOne, DoneOne DEF TodoOK, WaitsOK
<1>2. ASSUME NEW x \in {"update", "price", "reprice", "link"}, t = <<x, "load">> PROVE TodoOK(t) /\ WaitsOK(t, r)
  <2>1. <<"load">> \in SaveTodos /\ t # <<"load">>
    BY <1>2 DEF SaveTodos
  <2>2. Head(t) = x /\ Tail(t) = <<"load">> /\ Len(t) = 2
    BY <1>2, Two
  <2>3. \A q : Waits("sent", t, q) <=> q \in {x, "load"}
    BY <1>2, SentTwo
  <2>4. \A q : Waits("done", t, q) <=> q \in {"load"}
    BY <1>2, DoneTwo
  <2>5. Waits("sent", <<"load">>, r) <=> r \in {"load"}
    BY SentOne
  <2>6. TodoOK(t)
    BY <1>2, <2>1, <2>2, <2>3, <2>4 DEF TodoOK
  <2>7. WaitsOK(t, r)
    BY <2>1, <2>2, <2>3, <2>4, <2>5 DEF WaitsOK
  <2> QED BY <2>6, <2>7
<1>3. ASSUME NEW x \in {"price", "reprice", "link"}, t = <<"update", x, "load">> PROVE TodoOK(t) /\ WaitsOK(t, r)
  <2>1. <<x, "load">> \in SaveTodos /\ t # <<"load">>
    BY <1>3 DEF SaveTodos
  <2>2. Head(t) = "update" /\ Tail(t) = <<x, "load">> /\ Len(t) = 3
    BY <1>3, Three
  <2>3. \A q : Waits("sent", t, q) <=> q \in {"update", x, "load"}
    BY <1>3, SentThree
  <2>4. \A q : Waits("done", t, q) <=> q \in {x, "load"}
    BY <1>3, DoneThree
  <2>5. Waits("sent", <<x, "load">>, r) <=> r \in {x, "load"}
    BY SentTwo
  <2>6. TodoOK(t)
    BY <1>3, <2>1, <2>2, <2>3, <2>4 DEF TodoOK
  <2>7. WaitsOK(t, r)
    BY <2>1, <2>2, <2>3, <2>4, <2>5 DEF WaitsOK
  <2> QED BY <2>6, <2>7
<1>4. ASSUME NEW x \in {"price", "reprice"}, t = <<x, "link", "load">> PROVE TodoOK(t) /\ WaitsOK(t, r)
  <2>1. <<"link", "load">> \in SaveTodos /\ t # <<"load">>
    BY <1>4 DEF SaveTodos
  <2>2. Head(t) = x /\ Tail(t) = <<"link", "load">> /\ Len(t) = 3
    BY <1>4, Three
  <2>3. \A q : Waits("sent", t, q) <=> q \in {x, "link", "load"}
    BY <1>4, SentThree
  <2>4. \A q : Waits("done", t, q) <=> q \in {"link", "load"}
    BY <1>4, DoneThree
  <2>5. Waits("sent", <<"link", "load">>, r) <=> r \in {"link", "load"}
    BY SentTwo
  <2>6. TodoOK(t)
    BY <1>4, <2>1, <2>2, <2>3, <2>4 DEF TodoOK
  <2>7. WaitsOK(t, r)
    BY <2>1, <2>2, <2>3, <2>4, <2>5 DEF WaitsOK
  <2> QED BY <2>6, <2>7
<1>5. ASSUME NEW x \in {"price", "reprice"}, t = <<"update", x, "link", "load">> PROVE TodoOK(t) /\ WaitsOK(t, r)
  <2>1. <<x, "link", "load">> \in SaveTodos /\ t # <<"load">>
    BY <1>5 DEF SaveTodos
  <2>2. Head(t) = "update" /\ Tail(t) = <<x, "link", "load">> /\ Len(t) = 4
    BY <1>5, Four
  <2>3. \A q : Waits("sent", t, q) <=> q \in {"update", x, "link", "load"}
    BY <1>5, SentFour
  <2>4. \A q : Waits("done", t, q) <=> q \in {x, "link", "load"}
    BY <1>5, DoneFour
  <2>5. Waits("sent", <<x, "link", "load">>, r) <=> r \in {x, "link", "load"}
    BY SentThree
  <2>6. TodoOK(t)
    BY <1>5, <2>1, <2>2, <2>3, <2>4 DEF TodoOK
  <2>7. WaitsOK(t, r)
    BY <2>1, <2>2, <2>3, <2>4, <2>5 DEF WaitsOK
  <2> QED BY <2>6, <2>7
<1> QED BY <1>1, <1>2, <1>3, <1>4, <1>5 DEF SaveTodos

LEMMA JoinOne ==
  ASSUME NEW a, NEW b PROVE <<a>> \o <<b>> = <<a, b>> /\ <<a>> \o <<>> = <<a>>
<1>1. PICK S : S = {a, b}
  OBVIOUS
<1>2. <<a>> \in Seq(S) /\ <<b>> \in Seq(S) /\ <<a, b>> \in Seq(S)
  BY <1>1
<1>3. Len(<<a>> \o <<b>>) = 2 /\ <<a>> \o <<b>> \in Seq(S)
  BY <1>2, ConcatProperties
<1>4. \A i \in 1..2 : (<<a>> \o <<b>>)[i] = <<a, b>>[i]
  BY <1>2, ConcatProperties
<1>5. <<a>> \o <<b>> = <<a, b>>
  BY <1>2, <1>3, <1>4, SeqEqual
<1> QED BY <1>2, <1>5, ConcatEmptySeq
LEMMA JoinTwo ==
  ASSUME NEW a, NEW b, NEW c PROVE <<a, b>> \o <<c>> = <<a, b, c>> /\ <<a, b>> \o <<>> = <<a, b>>
<1>1. PICK S : S = {a, b, c}
  OBVIOUS
<1>2. <<a, b>> \in Seq(S) /\ <<c>> \in Seq(S) /\ <<a, b, c>> \in Seq(S)
  BY <1>1
<1>3. Len(<<a, b>> \o <<c>>) = 3 /\ <<a, b>> \o <<c>> \in Seq(S)
  BY <1>2, ConcatProperties
<1>4. \A i \in 1..3 : (<<a, b>> \o <<c>>)[i] = <<a, b, c>>[i]
  BY <1>2, ConcatProperties
<1>5. <<a, b>> \o <<c>> = <<a, b, c>>
  BY <1>2, <1>3, <1>4, SeqEqual
<1> QED BY <1>2, <1>5, ConcatEmptySeq
LEMMA JoinThree ==
  ASSUME NEW a, NEW b, NEW c, NEW d PROVE <<a, b, c>> \o <<d>> = <<a, b, c, d>> /\ <<a, b, c>> \o <<>> = <<a, b, c>>
<1>1. PICK S : S = {a, b, c, d}
  OBVIOUS
<1>2. <<a, b, c>> \in Seq(S) /\ <<d>> \in Seq(S) /\ <<a, b, c, d>> \in Seq(S)
  BY <1>1
<1>3. Len(<<a, b, c>> \o <<d>>) = 4 /\ <<a, b, c>> \o <<d>> \in Seq(S)
  BY <1>2, ConcatProperties
<1>4. \A i \in 1..4 : (<<a, b, c>> \o <<d>>)[i] = <<a, b, c, d>>[i]
  BY <1>2, ConcatProperties
<1>5. <<a, b, c>> \o <<d>> = <<a, b, c, d>>
  BY <1>2, <1>3, <1>4, SeqEqual
<1> QED BY <1>2, <1>5, ConcatEmptySeq

\* A save sends the product, the price if the page knows one, the link if there is one.
SaveRow(todo, offer) ==
  /\ todo \in SaveTodos /\ Waits("sent", todo, "update")
  /\ Waits("sent", todo, "price") <=> offer = <<"price">>
  /\ Waits("sent", todo, "reprice") <=> offer = <<"reprice">>
LEMMA WholeRow ==
  ASSUME NEW offer \in {<<>>, <<"price">>, <<"reprice">>}, NEW media \in {<<>>, <<"link">>}
  PROVE  SaveRow(<<"update">> \o offer \o media \o <<"load">>, offer)
<1>1. PICK u : u = <<"update">> \o offer
  OBVIOUS
<1>2. PICK w : w = u \o media
  OBVIOUS
<1>3. PICK todo : todo = w \o <<"load">>
  OBVIOUS
<1>4. SUFFICES SaveRow(todo, offer)
  BY <1>1, <1>2, <1>3
<1>5. CASE offer = <<>>
  <2>1. u = <<"update">>
    BY <1>1, <1>5, JoinOne
  <2>2. w = <<"update">> \/ w = <<"update", "link">>
    BY <1>2, <2>1, JoinOne
  <2>3. offer # <<"price">> /\ offer # <<"reprice">>
    BY <1>5
  <2>4. CASE w = <<"update">>
    <3>1. todo = <<"update", "load">>
      BY <1>3, <2>4, JoinOne
    <3>2. \A r : Waits("sent", todo, r) <=> r \in {"update", "load"}
      BY <3>1, SentTwo
    <3>3. todo \in SaveTodos
      BY <3>1 DEF SaveTodos
    <3> QED BY <2>3, <3>2, <3>3 DEF SaveRow
  <2>5. CASE w = <<"update", "link">>
    <3>1. todo = <<"update", "link", "load">>
      BY <1>3, <2>5, JoinTwo
    <3>2. \A r : Waits("sent", todo, r) <=> r \in {"update", "link", "load"}
      BY <3>1, SentThree
    <3>3. todo \in SaveTodos
      BY <3>1 DEF SaveTodos
    <3> QED BY <2>3, <3>2, <3>3 DEF SaveRow
  <2> QED BY <2>2, <2>4, <2>5
<1>6. ASSUME NEW x \in {"price", "reprice"}, offer = <<x>> PROVE SaveRow(todo, offer)
  <2>1. u = <<"update", x>>
    BY <1>1, <1>6, JoinOne
  <2>2. w = <<"update", x>> \/ w = <<"update", x, "link">>
    BY <1>2, <2>1, JoinTwo
  <2>3. (offer = <<"price">> <=> x = "price") /\ (offer = <<"reprice">> <=> x = "reprice")
    BY <1>6
  <2>4. CASE w = <<"update", x>>
    <3>1. todo = <<"update", x, "load">>
      BY <1>3, <2>4, JoinTwo
    <3>2. \A r : Waits("sent", todo, r) <=> r \in {"update", x, "load"}
      BY <3>1, SentThree
    <3>3. todo \in SaveTodos
      BY <3>1 DEF SaveTodos
    <3> QED BY <2>3, <3>2, <3>3 DEF SaveRow
  <2>5. CASE w = <<"update", x, "link">>
    <3>1. todo = <<"update", x, "link", "load">>
      BY <1>3, <2>5, JoinThree
    <3>2. \A r : Waits("sent", todo, r) <=> r \in {"update", x, "link", "load"}
      BY <3>1, SentFour
    <3>3. todo \in SaveTodos
      BY <3>1 DEF SaveTodos
    <3> QED BY <2>3, <3>2, <3>3 DEF SaveRow
  <2> QED BY <2>2, <2>4, <2>5
<1> QED BY <1>5, <1>6

LEMMA ShortRows ==
  ASSUME NEW op \in Acts, NEW t \in TodosOf(op)
  PROVE  /\ t = <<op, "load">> \/ t = <<"load">>
         /\ Head(t) \in {op, "load"} /\ (Head(t) = "load" <=> t = <<"load">>)
         /\ Len(t) > 1 => Tail(t) = <<"load">>
<1>1. t = <<op, "load">> \/ t = <<"load">>
  BY DEF TodosOf, Acts
<1>2. op # "load"
  BY DEF Acts
<1>3. CASE t = <<op, "load">>
  <2>1. Head(t) = op /\ Tail(t) = <<"load">> /\ t # <<"load">>
    BY <1>3, Two
  <2> QED BY <1>1, <1>2, <2>1
<1>4. CASE t = <<"load">>
  <2>1. Head(t) = "load" /\ Len(t) = 1
    BY <1>4, One
  <2> QED BY <1>1, <1>4, <2>1
<1> QED BY <1>1, <1>3, <1>4

LEMMA AllTodos ==
  ASSUME NEW op \in Ops, NEW t \in TodosOf(op) PROVE t \in Todos
BY DEF TodosOf, Ops, Acts, Todos, SaveTodos
LEMMA RowFacts ==
  /\ NoRequest \in Row /\ NoRequest.op = "none" /\ NoRequest.at = "idle" /\ NoRequest.todo = <<>>
  /\ FirstLoad \in Row /\ FirstLoad.op = "open" /\ FirstLoad.at = "sent" /\ FirstLoad.todo = <<"load">>
<1>1. NoForm \in FormRow
  BY DEF NoForm, FormRow, Blank, Statuses
<1>2. NoAnswer \in AnswerRow
  BY DEF NoAnswer, AnswerRow, Blank, Statuses, Marks
<1>3. <<>> \in Todos /\ <<"load">> \in Todos
  BY DEF Todos, SaveTodos
<1>4. NoRequest \in Row
  BY <1>1, <1>2, <1>3 DEF NoRequest, Row, Ops
<1>5. FirstLoad = [NoRequest EXCEPT !.op = "open", !.at = "sent", !.todo = <<"load">>]
  BY DEF FirstLoad
<1>6. FirstLoad \in Row /\ FirstLoad.op = "open" /\ FirstLoad.at = "sent" /\ FirstLoad.todo = <<"load">>
  BY <1>3, <1>4, <1>5 DEF Row, Ops
<1> QED BY <1>4, <1>6 DEF NoRequest

LEMMA Offered ==
  ASSUME NEW o \in FirstOffers
  PROVE  /\ Len(o) <= 1 /\ DOMAIN o = 1..Len(o) /\ (o = <<>> <=> Len(o) = 0)
         /\ o # <<>> => DOMAIN o = {1} /\ o[1] \in Prices /\ o = <<o[1]>>
<1>1. CASE o = <<>>
  BY <1>1
<1>2. ASSUME NEW p \in Prices, o = <<p>> PROVE Len(o) = 1 /\ DOMAIN o = 1..1 /\ o # <<>> /\ o[1] = p
  BY <1>2
<1> QED BY <1>1, <1>2 DEF FirstOffers

LEMMA AdminStarts == AdminInit => Whole
<1> SUFFICES ASSUME AdminInit PROVE Whole
  OBVIOUS
<1>1. /\ \E n \in Names : product = [name |-> n, status |-> "DRAFT"]
      /\ offers \in FirstOffers /\ images = 0 /\ rows = [i \in Fulfilments |-> "PENDING"]
      /\ page \in Pages /\ me = "asking" /\ seen = Unloaded /\ form = NoForm
      /\ shown = NoAnswer.rows /\ said = "nothing" /\ submitted = NoForm
  BY DEF AdminInit
<1>2. \A s \in Places :
        requests[s] \in {FirstLoad, NoRequest} /\ (page = "new" => requests[s] = NoRequest)
  BY DEF AdminInit
<1>3. requests \in [Places -> Row]
  BY RowFacts DEF AdminInit
<1>4. AdminShapes
  <2>1. form \in FormRow /\ submitted \in FormRow
    BY <1>1 DEF NoForm, FormRow, Blank, Statuses
  <2>2. product \in [name : Blank, status : Statuses]
    <3>1. PICK n \in Names : product = [name |-> n, status |-> "DRAFT"]
      BY <1>1
    <3> QED BY <3>1 DEF Blank, Statuses
  <2>3. rows \in [Fulfilments -> Marks] /\ shown \in [Fulfilments -> Marks]
    BY <1>1 DEF Marks, NoAnswer
  <2>4. seen \in [loaded : BOOLEAN, offer : {0, 1}, images : Int]
    BY <1>1 DEF Unloaded
  <2> QED BY <1>1, <1>3, <2>1, <2>2, <2>3, <2>4 DEF AdminShapes
<1>5. RequestsOK
  <2> SUFFICES ASSUME NEW s \in Places PROVE RequestOK(requests[s])
    BY DEF RequestsOK
  <2>1. CASE requests[s] = NoRequest
    BY <2>1, RowFacts DEF RequestOK, TodosOf, OpsOn
  <2>2. CASE requests[s] = FirstLoad /\ page # "new"
    BY <1>1, <2>2, RowFacts DEF RequestOK, TodosOf, OpsOn, Pages
  <2> QED BY <1>2, <2>1, <2>2
<1>6. \A s \in Places : requests[s].op \in {"none", "open"} /\ requests[s].at # "done"
  BY <1>2, RowFacts
<1>7. OneRow /\ SavesOK /\ Told
  BY <1>1, <1>6 DEF OneRow, Pressed, SavesOK, Told
<1>8. Known
  BY <1>1, <1>6 DEF Known, Unloaded
<1> QED BY <1>4, <1>5, <1>7, <1>8 DEF Whole

\* A row as it stands says the same whatever the rest of the state does.
LEMMA AdminStutters ==
  ASSUME Whole,
         UNCHANGED <<product, offers, page, me, requests, submitted>>,
         seen'.loaded = seen.loaded, seen'.offer = seen.offer,
         said' = "saved" => said = "saved", AdminShapes'
  PROVE  Whole'
<1>1. RequestsOK' /\ OneRow'
  BY DEF Whole, RequestsOK, RequestOK, OpsOn, OneRow, Pressed
<1>2. SavesOK'
  BY DEF Whole, SavesOK, SaveOK, ToCome
<1>3. Known'
  BY DEF Whole, Known, FirstOffer, ToCome
<1>4. Told'
  BY DEF Whole, Told, Pressed
<1> QED BY <1>1, <1>2, <1>3, <1>4 DEF Whole

LEMMA TypeKeeps == ASSUME Whole, Type PROVE Whole'
<1>1. UNCHANGED <<stored, page, me, seen, shown, said, requests, submitted>>
  BY DEF Type
<1>2. PICK f \in FormRow : \E field \in DOMAIN f : form' = [form EXCEPT ![field] = f[field]]
  <2>1. PICK f \in [name : Names, status : Statuses, price : Prices \cup {0}, link : BOOLEAN] :
          \E field \in DOMAIN f : form' = [form EXCEPT ![field] = f[field]]
    BY DEF Type
  <2>2. f \in FormRow
    BY <2>1 DEF FormRow, Blank
  <2> QED BY <2>1, <2>2
<1>3. form' \in FormRow
  <2>1. form \in FormRow
    BY DEF Whole, AdminShapes
  <2>2. PICK field \in DOMAIN f : form' = [form EXCEPT ![field] = f[field]]
    BY <1>2
  <2>3. field \in {"name", "status", "price", "link"}
    BY <2>2 DEF FormRow
  <2> QED BY <2>1, <2>2, <2>3 DEF FormRow
<1>4. AdminShapes'
  BY <1>1, <1>3 DEF Whole, AdminShapes, stored
<1> QED BY <1>1, <1>4, AdminStutters DEF stored

LEMMA ShellKeeps == ASSUME Whole, Shell PROVE Whole'
<1>1. /\ UNCHANGED <<stored, seen, form, shown, said, requests, submitted>>
      /\ me = "asking" /\ me' \in {"admin", "nobody"} /\ page' \in {page, "login"}
  BY DEF Shell
<1>2. AdminShapes'
  BY <1>1 DEF Whole, AdminShapes, stored
<1>3. \A s \in Places : requests[s].op \in {"none", "open"}
  BY <1>1 DEF Whole, RequestsOK, RequestOK
<1>4. RequestsOK'
  <2> SUFFICES ASSUME NEW s \in Places PROVE RequestOK(requests[s])'
    BY DEF RequestsOK
  <2>1. RequestOK(requests[s])
    BY DEF Whole, RequestsOK
  <2>2. requests[s].op \in OpsOn(page)'
    BY <1>1, <1>3, <2>1 DEF RequestOK, OpsOn
  <2> QED BY <1>1, <1>3, <2>1, <2>2 DEF RequestOK
<1>5. OneRow' /\ SavesOK'
  BY <1>1, <1>3 DEF OneRow, Pressed, SavesOK
<1>6. Known'
  BY <1>1 DEF Whole, Known, FirstOffer, ToCome, stored
<1>7. Told'
  BY <1>1 DEF Whole, Told
<1> QED BY <1>2, <1>4, <1>5, <1>6, <1>7 DEF Whole

LEMMA Changed ==
  ASSUME AdminShapes, NEW s \in Places, NEW new \in Row, requests' = [requests EXCEPT ![s] = new]
  PROVE  /\ requests' \in [Places -> Row] /\ requests'[s] = new
         /\ \A t \in Places : t # s => requests'[t] = requests[t]
BY DEF AdminShapes

LEMMA Runs == ASSUME RequestsOK PROVE RowRuns <=> \E s \in Places : Pressed(s)
BY DEF RequestsOK, RequestOK, RowRuns, Pressed

LEMMA OneChanged ==
  ASSUME RequestsOK, OneRow, UNCHANGED <<page, me>>, NEW s \in Places,
         \A t \in Places : t # s => requests'[t] = requests[t],
         RequestOK(requests[s])',
         Pressed(s)' => Pressed(s) \/ ~RowRuns \/ page = "order"
  PROVE  RequestsOK' /\ OneRow'
<1>1. ASSUME NEW t \in Places PROVE RequestOK(requests[t])'
  <2>1. CASE t # s
    <3>1. RequestOK(requests[t]) /\ requests'[t] = requests[t]
      BY <2>1 DEF RequestsOK
    <3> QED BY <3>1 DEF RequestOK, OpsOn
  <2> QED BY <2>1
<1>2. ASSUME NEW t \in Places, NEW u \in Places, t # u, Pressed(t)', Pressed(u)' PROVE page' = "order"
  <2>1. \A v \in Places : v # s => (Pressed(v)' <=> Pressed(v))
    BY DEF Pressed
  <2> QED BY <1>2, <2>1, Runs DEF OneRow
<1>3. RequestsOK'
  BY <1>1 DEF RequestsOK
<1>4. OneRow'
  BY <1>2 DEF OneRow
<1> QED BY <1>3, <1>4

\* Outside the order's page a row that was pressed is the only one.
LEMMA Only ==
  ASSUME Whole, NEW s \in Places, Pressed(s), page # "order", NEW t \in Places, t # s
  PROVE  ~Pressed(t) /\ requests[t].op # "save"
BY DEF Whole, OneRow, Pressed

LEMMA SavePage ==
  ASSUME Whole, NEW s \in Places, requests[s].op = "save"
  PROVE  page = "product" /\ me = "admin" /\ Pressed(s) /\ requests[s].todo \in SaveTodos
BY DEF Whole, RequestsOK, RequestOK, OpsOn, Pressed, TodosOf

NewRow(op, todo, row, f, o) ==
  [NoRequest EXCEPT !.op = op, !.at = "sent", !.todo = todo, !.form = f, !.offer = o, !.row = row]
LEMMA NewRowOK ==
  ASSUME NEW op \in Ops, NEW todo \in Todos, NEW row \in 0..2, NEW f \in FormRow, NEW o \in {0, 1}
  PROVE  /\ NewRow(op, todo, row, f, o) \in Row
         /\ NewRow(op, todo, row, f, o).op = op /\ NewRow(op, todo, row, f, o).at = "sent"
         /\ NewRow(op, todo, row, f, o).todo = todo /\ NewRow(op, todo, row, f, o).form = f
         /\ NewRow(op, todo, row, f, o).offer = o
BY RowFacts DEF NewRow, Row

LEMMA PressKeeps ==
  ASSUME Whole, NEW op \in Acts \cup {"save", "create"}, NEW todo \in TodosOf(op), NEW row \in 0..2,
         op \in OpsOn(page), ~RowRuns \/ page = "order", Press(op, todo, row),
         UNCHANGED <<stored, page, me, seen, form, shown>>, submitted' \in FormRow,
         said' = "nothing" \/ (page = "order" /\ said' = said),
         op # "save" => submitted' = submitted,
         op = "save" =>
           \A new \in Row :
             new.op = op /\ new.at = "sent" /\ new.todo = todo /\ new.form = form
             /\ new.offer = seen.offer => SaveOK(new)'
  PROVE  Whole'
<1>1. AdminShapes /\ me = "admin" /\ RequestsOK /\ OneRow
  BY DEF Whole, Press
<1>2. op \in Ops /\ todo \in Todos
  BY AllTodos DEF Ops
<1>3. PICK s \in Places :
        /\ requests[s].at = "idle"
        /\ requests' = [requests EXCEPT ![s] = NewRow(op, todo, row, form, seen.offer)]
  BY DEF Press, FreePlace, NewRow
<1>4. PICK new : new = NewRow(op, todo, row, form, seen.offer)
  OBVIOUS
<1>5. /\ new \in Row /\ new.op = op /\ new.at = "sent" /\ new.todo = todo /\ new.form = form
      /\ new.offer = seen.offer
  BY <1>1, <1>2, <1>4, NewRowOK DEF AdminShapes
<1>6. /\ requests' \in [Places -> Row] /\ requests'[s] = new
      /\ \A t \in Places : t # s => requests'[t] = requests[t]
  BY <1>1, <1>3, <1>4, <1>5, Changed
<1>7. AdminShapes'
  BY <1>1, <1>6 DEF AdminShapes, stored
<1>8. RequestOK(requests[s])'
  BY <1>1, <1>5, <1>6 DEF RequestOK, OpsOn, Acts
<1>9. RequestsOK' /\ OneRow'
  BY <1>1, <1>6, <1>8, OneChanged
<1>10. requests[s].op = "none"
  BY <1>1, <1>3 DEF RequestsOK, RequestOK
<1>11. \A t \in Places : requests[t].op = "save" => FALSE
  BY <1>1, SavePage, Runs
<1>12. SavesOK'
  BY <1>5, <1>6, <1>11 DEF SavesOK
<1>13. Known'
  <2>1. page = "new" => ~seen.loaded
    BY DEF Whole, Known
  <2>2. page = "product" /\ seen.loaded => seen.offer = FirstOffer
    BY <1>11 DEF Whole, Known
  <2>3. ASSUME NEW t \in Places, page = "product", requests'[t].at = "done", requests'[t].todo = <<"load">>,
               requests'[t].op = "open" => ~seen.loaded
        PROVE  requests'[t].got.offer = FirstOffer
    <3>1. t # s
      BY <1>5, <1>6, <2>3
    <3> QED BY <1>6, <2>3, <3>1 DEF Whole, Known
  <2> QED BY <2>1, <2>2, <2>3 DEF Known, FirstOffer, stored
<1>14. Told'
  BY DEF Whole, Told
<1> QED BY <1>7, <1>9, <1>12, <1>13, <1>14 DEF Whole

LEMMA ActTodos ==
  ASSUME NEW op \in Acts PROVE <<op, "load">> \in TodosOf(op)
BY DEF TodosOf, Acts

\* Where the buttons are enabled no row of requests runs.
LEMMA Idle == ASSUME BusyOK, ~busy, page # "order" PROVE ~RowRuns
BY DEF BusyOK

LEMMA ButtonsKeep ==
  ASSUME Whole, BusyOK, ~crossed', Act \/ RemoveImage \/ Upload \/ Adjust \/ Create \/ Mark
  PROVE  Whole'
<1>1. submitted' = submitted /\ submitted' \in FormRow
  BY DEF Whole, AdminShapes, Act, RemoveImage, Upload, Adjust, Create, Mark
<1>2. CASE Act
  <2>1. PICK op \in {"publish", "unpublish", "archive"} : Press(op, <<op, "load">>, 0)
    BY <1>2 DEF Act
  <2>2. op \in Acts /\ op \in OpsOn(page) /\ op # "save" /\ ~RowRuns
    BY <1>2, Idle DEF Act, Acts, OpsOn
  <2> QED BY <1>1, <1>2, <2>1, <2>2, ActTodos, PressKeeps DEF Act
<1>3. ASSUME NEW op \in {"unlink", "upload"}, Press(op, <<op, "load">>, 0), ~RowRuns,
             page = "product", said' = "nothing", UNCHANGED <<stored, page, me, seen, form, shown>>
      PROVE  Whole'
  <2>1. op \in Acts /\ op \in OpsOn(page) /\ op # "save"
    BY <1>3 DEF Acts, OpsOn
  <2> QED BY <1>1, <1>3, <2>1, ActTodos, PressKeeps
<1>7. CASE RemoveImage
  <2>1. ~RowRuns
    BY <1>7, Idle DEF RemoveImage
  <2> QED BY <1>3, <1>7, <2>1 DEF RemoveImage
<1>8. CASE Upload
  <2>1. ~RowRuns
    BY <1>8 DEF Upload
  <2> QED BY <1>3, <1>8, <2>1 DEF Upload
<1>4. CASE Adjust
  <2>1. "adjust" \in Acts /\ "adjust" \in OpsOn(page) /\ "adjust" # "save" /\ ~RowRuns
    BY <1>4, Idle DEF Adjust, Acts, OpsOn
  <2> QED BY <1>1, <1>4, <2>1, ActTodos, PressKeeps DEF Adjust
<1>5. CASE Create
  <2>1. "create" \in OpsOn(page) /\ <<"create">> \in TodosOf("create") /\ "create" # "save" /\ ~RowRuns
    BY <1>5, Idle DEF Create, OpsOn, TodosOf
  <2> QED BY <1>1, <1>5, <2>1, PressKeeps DEF Create
<1>6. CASE Mark
  <2>1. PICK row \in 1..2, op \in {"ready", "deliver"} : Press(op, <<op, "load">>, row)
    BY <1>6 DEF Mark, Fulfilments
  <2>2. op \in Acts /\ op \in OpsOn(page) /\ op # "save" /\ row \in 0..2
    BY <1>6 DEF Mark, Acts, OpsOn
  <2> QED BY <1>1, <1>6, <2>1, <2>2, ActTodos, PressKeeps DEF Mark
<1> QED BY <1>2, <1>4, <1>5, <1>6, <1>7, <1>8

LEMMA SaveKeeps == ASSUME Whole, BusyOK, Save PROVE Whole'
<1>1. /\ page = "product" /\ ~RowRuns /\ said' = "nothing"
      /\ UNCHANGED <<stored, page, me, seen, form, shown>>
  BY Idle DEF Save
<1>2. PICK priced, offer, media :
        /\ priced \in BOOLEAN /\ (priced <=> seen.loaded /\ form.price # 0)
        /\ offer = IF ~priced THEN <<>> ELSE IF seen.offer # 0 THEN <<"reprice">> ELSE <<"price">>
        /\ media \in {<<>>, <<"link">>}
        /\ Press("save", <<"update">> \o offer \o media \o <<"load">>, 0)
        /\ submitted' = [form EXCEPT !.price = IF priced THEN @ ELSE 0]
  BY DEF Save
<1>3. PICK todo : todo = <<"update">> \o offer \o media \o <<"load">>
  OBVIOUS
<1>4. offer \in {<<>>, <<"price">>, <<"reprice">>}
  BY <1>2
<1>5. SaveRow(todo, offer) /\ Press("save", todo, 0)
  BY <1>2, <1>3, <1>4, WholeRow
<1>6. todo \in TodosOf("save") /\ "save" \in OpsOn(page)
  BY <1>1, <1>5 DEF SaveRow, TodosOf, OpsOn
<1>7. form \in FormRow /\ seen.offer \in {0, 1} /\ offers \in FirstOffers
  BY DEF Whole, AdminShapes
<1>8. /\ submitted' \in FormRow
      /\ submitted'.name = form.name /\ submitted'.status = form.status
      /\ priced => submitted'.price = form.price
      /\ ~priced => submitted'.price = 0
  BY <1>2, <1>7 DEF FormRow
<1>9. seen.loaded => seen.offer = FirstOffer
  <2>1. \A t \in Places : requests[t].op # "save"
    BY <1>1, SavePage, Runs DEF Whole
  <2> QED BY <1>1, <2>1 DEF Whole, Known
<1>10. ASSUME NEW new \in Row, new.op = "save", new.at = "sent", new.todo = todo, new.form = form,
              new.offer = seen.offer
       PROVE  SaveOK(new)'
  <2>1. /\ ToCome(new, "update") /\ (ToCome(new, "price") <=> offer = <<"price">>)
        /\ ToCome(new, "reprice") <=> offer = <<"reprice">>
    BY <1>5, <1>10 DEF ToCome, SaveRow
  <2>2. (offer = <<"price">> <=> priced /\ seen.offer = 0) /\ (offer = <<"reprice">> <=> priced /\ seen.offer # 0)
    BY <1>2
  <2>3. offer = <<"price">> => offers = <<>>
    BY <1>2, <1>9, <2>2 DEF FirstOffer
  <2>4. offer = <<"reprice">> => offers # <<>> /\ seen.offer = 1
    BY <1>2, <1>9, <2>2 DEF FirstOffer
  <2>5. offer = <<"price">> \/ offer = <<"reprice">> <=> priced
    BY <2>2
  <2>6. offers' = offers /\ seen' = seen
    BY <1>1 DEF stored
  <2> QED BY <1>2, <1>8, <1>10, <2>1, <2>3, <2>4, <2>5, <2>6 DEF SaveOK, ToCome
<1> QED BY <1>1, <1>5, <1>6, <1>8, <1>10, PressKeeps

RowDone(c) == [c EXCEPT !.at = "done"]
RowGot(c, a) == [c EXCEPT !.at = "done", !.got = a]
RowDenied(c) == [c EXCEPT !.at = "refused"]
RowNext(c) == [c EXCEPT !.at = "sent", !.todo = Tail(c.todo)]
SameRow(c, d) == c.op = d.op /\ c.form = d.form /\ c.offer = d.offer
LEMMA RowMoved ==
  ASSUME NEW c \in Row, NEW a \in AnswerRow
  PROVE  /\ RowDone(c) \in Row /\ RowDone(c).at = "done" /\ RowDone(c).todo = c.todo
         /\ SameRow(RowDone(c), c)
         /\ RowGot(c, a) \in Row /\ RowGot(c, a).at = "done" /\ RowGot(c, a).todo = c.todo
         /\ RowGot(c, a).got = a /\ SameRow(RowGot(c, a), c)
         /\ RowDenied(c) \in Row /\ RowDenied(c).at = "refused" /\ RowDenied(c).todo = c.todo
         /\ SameRow(RowDenied(c), c)
BY DEF RowDone, RowGot, RowDenied, SameRow, Row
LEMMA RowOn ==
  ASSUME NEW c \in Row, Tail(c.todo) \in Todos
  PROVE  /\ RowNext(c) \in Row /\ RowNext(c).at = "sent" /\ RowNext(c).todo = Tail(c.todo)
         /\ SameRow(RowNext(c), c)
BY DEF RowNext, SameRow, Row

\* A row goes on and neither the product nor its offers change.
LEMMA RowGoesOn ==
  ASSUME Whole, NEW s \in Places, NEW new \in Row, requests' = [requests EXCEPT ![s] = new],
         UNCHANGED <<product, offers, page, me, seen, form, shown, said, submitted>>,
         images' \in Int, rows' \in [Fulfilments -> Marks],
         SameRow(new, requests[s]), RequestOK(new)',
         \A r \in {"update", "price", "reprice"} :
           new.op = "save" => (ToCome(new, r) <=> ToCome(requests[s], r)),
         new.at = "done" /\ new.todo = <<"load">> => new.got.offer = FirstOffer
  PROVE  Whole'
<1>1. AdminShapes /\ RequestsOK /\ OneRow /\ SavesOK /\ Known /\ Told
  BY DEF Whole
<1>2. /\ requests' \in [Places -> Row] /\ requests'[s] = new
      /\ \A t \in Places : t # s => requests'[t] = requests[t]
  BY <1>1, Changed
<1>3. new.op = requests[s].op /\ new.form = requests[s].form /\ new.offer = requests[s].offer
  BY DEF SameRow
<1>4. \A t \in Places : Pressed(t)' <=> Pressed(t)
  BY <1>2, <1>3 DEF Pressed
<1>5. AdminShapes'
  BY <1>1, <1>2 DEF AdminShapes
<1>6. RequestOK(requests[s])'
  BY <1>2 DEF RequestOK, OpsOn
<1>7. RequestsOK' /\ OneRow'
  BY <1>1, <1>2, <1>4, <1>6, OneChanged
<1>8. ASSUME NEW t \in Places, requests'[t].op = "save" PROVE SaveOK(requests[t])'
  <2>1. requests[t].op = "save" /\ SaveOK(requests[t])
    BY <1>1, <1>2, <1>3, <1>8 DEF SavesOK
  <2>2. CASE t # s
    BY <1>2, <2>1, <2>2 DEF SaveOK, ToCome
  <2>3. CASE t = s
    <3>1. /\ ToCome(new, "update") <=> ToCome(requests[s], "update")
          /\ ToCome(new, "price") <=> ToCome(requests[s], "price")
          /\ ToCome(new, "reprice") <=> ToCome(requests[s], "reprice")
      BY <1>3, <2>1, <2>3
    <3>2. SaveOK(new)'
      BY <1>3, <2>1, <2>3, <3>1 DEF SaveOK, ToCome
    <3> QED BY <1>2, <2>3, <3>2 DEF SaveOK, ToCome
  <2> QED BY <2>2, <2>3
<1>9. SavesOK'
  BY <1>8 DEF SavesOK
<1>10. Known'
  <2>1. page = "new" => ~seen.loaded
    BY <1>1 DEF Known
  <2>2. ASSUME NEW t \in Places, requests[t].op = "save", ~ToCome(requests[t], "update")
        PROVE  requests'[t].op = "save" /\ ~ToCome(requests'[t], "update")
    BY <1>2, <1>3, <2>2
  <2>3. page = "product" /\ seen.loaded =>
          \/ seen.offer = FirstOffer
          \/ \E t \in Places : requests'[t].op = "save" /\ ~ToCome(requests'[t], "update")
    BY <1>1, <2>2 DEF Known
  <2>4. ASSUME NEW t \in Places, page = "product", requests'[t].at = "done",
               requests'[t].todo = <<"load">>, requests'[t].op = "open" => ~seen.loaded
        PROVE  requests'[t].got.offer = FirstOffer
    <3>1. CASE t # s
      BY <1>1, <1>2, <2>4, <3>1 DEF Known
    <3>2. CASE t = s
      BY <1>2, <2>4, <3>2
    <3> QED BY <3>1, <3>2
  <2> QED BY <2>1, <2>3, <2>4 DEF Known, FirstOffer, ToCome
<1>11. Told'
  BY <1>1, <1>4 DEF Told
<1> QED BY <1>5, <1>7, <1>9, <1>10, <1>11 DEF Whole

\* What a request under way tells of its row.
LEMMA HeadOf ==
  ASSUME Whole, NEW s \in Places, requests[s].at # "idle"
  PROVE  /\ requests[s] \in Row /\ RequestOK(requests[s]) /\ requests[s].op # "none"
         /\ Head(requests[s].todo) = "load" <=> requests[s].todo = <<"load">>
         /\ requests[s].op = "save" \/ Head(requests[s].todo) \in {requests[s].op, "load"}
<1>1. requests[s] \in Row /\ RequestOK(requests[s]) /\ requests[s].op # "none"
  BY DEF Whole, AdminShapes, RequestsOK, RequestOK
<1>2. requests[s].todo \in TodosOf(requests[s].op) /\ requests[s].op \in Ops
  BY <1>1 DEF RequestOK, Row
<1>3. CASE requests[s].op = "save"
  BY <1>1, <1>2, <1>3, SaveTodo DEF TodosOf, TodoOK
<1>4. CASE requests[s].op \in Acts
  BY <1>1, <1>2, <1>4, ShortRows
<1>5. CASE requests[s].op = "open"
  <2>1. requests[s].todo = <<"load">>
    BY <1>2, <1>5 DEF TodosOf
  <2> QED BY <1>1, <2>1, One
<1>6. CASE requests[s].op = "create"
  <2>1. requests[s].todo = <<"create">>
    BY <1>2, <1>6 DEF TodosOf
  <2>2. Head(requests[s].todo) = "create" /\ Head(<<"load">>) = "load"
    BY <2>1, One
  <2> QED BY <1>1, <1>6, <2>2
<1> QED BY <1>1, <1>2, <1>3, <1>4, <1>5, <1>6 DEF Ops

LEMMA AnswersAre ==
  ASSUME Whole, NEW a \in Answers PROVE a \in AnswerRow /\ a.offer = FirstOffer
<1>1. PICK i \in IF offers = <<>> THEN {0} ELSE DOMAIN offers :
        a = [name |-> product.name, status |-> product.status, offer |-> i,
             price |-> IF i = 0 THEN 0 ELSE offers[i], images |-> images, rows |-> rows]
  BY DEF Answers
<1>2. /\ offers \in FirstOffers /\ images \in Int /\ rows \in [Fulfilments -> Marks]
      /\ product.name \in Blank /\ product.status \in Statuses
  BY DEF Whole, AdminShapes
<1>3. i = FirstOffer /\ i \in {0, 1}
  BY <1>1, <1>2, Offered DEF FirstOffer
<1>4. (IF i = 0 THEN 0 ELSE offers[i]) \in Prices \cup {0}
  BY <1>1, <1>2, <1>3, Offered DEF FirstOffer
<1> QED BY <1>1, <1>2, <1>3, <1>4 DEF AnswerRow

HandleFrame == UNCHANGED <<page, me, seen, form, shown, busyId, busy, said, submitted, deeds, rough,
                         foreign, crossed>>

LEMMA LoadHandled ==
  ASSUME Whole, NEW s \in Places, requests[s].at = "sent", Head(requests[s].todo) = "load",
         UNCHANGED stored, HandleFrame, NEW a \in Answers,
         requests' = [requests EXCEPT ![s].at = "done", ![s].got = a]
  PROVE  Whole'
<1>1. /\ requests[s] \in Row /\ RequestOK(requests[s]) /\ requests[s].op # "none"
      /\ requests[s].todo = <<"load">>
  BY HeadOf
<1>2. a \in AnswerRow /\ a.offer = FirstOffer
  BY AnswersAre
<1>3. requests' = [requests EXCEPT ![s] = RowGot(requests[s], a)]
  BY DEF RowGot
<1>4. PICK new : new = RowGot(requests[s], a)
  OBVIOUS
<1>5. /\ new \in Row /\ new.at = "done" /\ new.todo = <<"load">> /\ new.got = a
      /\ SameRow(new, requests[s])
  BY <1>1, <1>2, <1>4, RowMoved
<1>6. RequestOK(new)'
  BY <1>1, <1>5 DEF RequestOK, SameRow, OpsOn, HandleFrame
<1>7. \A r \in {"update", "price", "reprice"} : ToCome(new, r) <=> ToCome(requests[s], r)
  BY <1>1, <1>5, SentOne, DoneOne DEF ToCome
<1>8. images' \in Int /\ rows' \in [Fulfilments -> Marks]
  BY DEF Whole, AdminShapes, stored
<1>9. requests' = [requests EXCEPT ![s] = new]
  BY <1>3, <1>4
<1>10. UNCHANGED <<product, offers, page, me, seen, form, shown, said, submitted>>
  BY DEF stored, HandleFrame
<1>11. new.got.offer = FirstOffer
  BY <1>2, <1>5
<1> QED BY <1>5, <1>6, <1>7, <1>8, <1>9, <1>10, <1>11, RowGoesOn

\* A request is executed that is no load and changes neither the product nor its offers.
LEMMA AsideHandled ==
  ASSUME Whole, NEW s \in Places, requests[s].at = "sent",
         Head(requests[s].todo) \notin {"load", "update", "price", "reprice"},
         UNCHANGED <<product, offers>>, images' \in Int, rows' \in [Fulfilments -> Marks],
         HandleFrame, requests' = [requests EXCEPT ![s].at = "done"]
  PROVE  Whole'
<1>1. /\ requests[s] \in Row /\ RequestOK(requests[s]) /\ requests[s].op # "none"
      /\ requests[s].todo # <<"load">>
  BY HeadOf
<1>2. requests' = [requests EXCEPT ![s] = RowDone(requests[s])]
  BY DEF RowDone
<1>3. PICK new : new = RowDone(requests[s])
  OBVIOUS
<1>4. NoAnswer \in AnswerRow
  BY RowFacts DEF NoRequest, Row
<1>5. /\ new \in Row /\ new.at = "done" /\ new.todo = requests[s].todo
      /\ SameRow(new, requests[s])
  BY <1>1, <1>3, <1>4, RowMoved
<1>6. RequestOK(new)'
  BY <1>1, <1>5 DEF RequestOK, SameRow, OpsOn, HandleFrame
<1>7. ASSUME NEW r \in {"update", "price", "reprice"}, new.op = "save"
      PROVE  ToCome(new, r) <=> ToCome(requests[s], r)
  <2>1. requests[s].op = "save"
    BY <1>5, <1>7 DEF SameRow
  <2>2. requests[s].todo \in SaveTodos
    BY <2>1, SavePage
  <2>3. WaitsOK(requests[s].todo, r)
    BY <2>2, SaveTodo
  <2> QED BY <1>5, <2>3 DEF ToCome, WaitsOK
<1>8. requests' = [requests EXCEPT ![s] = new]
  BY <1>2, <1>3
<1>9. UNCHANGED <<page, me, seen, form, shown, said, submitted>>
  BY DEF HandleFrame
<1>10. new.todo # <<"load">>
  BY <1>1, <1>5
<1> QED BY <1>5, <1>6, <1>7, <1>8, <1>9, <1>10, RowGoesOn

LEMMA RefusalHandled ==
  ASSUME Whole, NEW s \in Places, requests[s].at = "sent",
         Head(requests[s].todo) \in {"update", "publish"}, UNCHANGED stored, HandleFrame,
         requests' = [requests EXCEPT ![s].at = "refused"]
  PROVE  Whole'
<1>1. requests[s] \in Row /\ RequestOK(requests[s]) /\ requests[s].op # "none"
  BY HeadOf
<1>2. requests' = [requests EXCEPT ![s] = RowDenied(requests[s])]
  BY DEF RowDenied
<1>3. PICK new : new = RowDenied(requests[s])
  OBVIOUS
<1>4. NoAnswer \in AnswerRow
  BY RowFacts DEF NoRequest, Row
<1>5. /\ new \in Row /\ new.at = "refused" /\ new.todo = requests[s].todo
      /\ SameRow(new, requests[s])
  BY <1>1, <1>3, <1>4, RowMoved
<1>6. RequestOK(new)'
  BY <1>1, <1>5 DEF RequestOK, SameRow, OpsOn, HandleFrame
<1>7. \A r \in {"update", "price", "reprice"} : ToCome(new, r) <=> ToCome(requests[s], r)
  BY <1>5 DEF ToCome, Waits, From
<1>8. images' \in Int /\ rows' \in [Fulfilments -> Marks]
  BY DEF Whole, AdminShapes, stored
<1>9. requests' = [requests EXCEPT ![s] = new]
  BY <1>2, <1>3
<1>10. UNCHANGED <<product, offers, page, me, seen, form, shown, said, submitted>>
  BY DEF stored, HandleFrame
<1> QED BY <1>5, <1>6, <1>7, <1>8, <1>9, <1>10, RowGoesOn

\* What an executed request that changed the product or its offers leaves to be shown.
LEMMA AloneHandled ==
  ASSUME Whole, NEW s \in Places, requests[s].at = "sent", requests[s].todo # <<"load">>,
         requests[s].op \notin {"none", "open"}, page = "product",
         product' \in [name : Blank, status : Statuses], offers' \in FirstOffers,
         UNCHANGED <<images, rows>>, HandleFrame, requests' = [requests EXCEPT ![s].at = "done"],
         NEW new \in Row, new = RowDone(requests[s]),
         new.op = "save" => SaveOK(new)',
         \/ offers' = offers
         \/ seen.loaded /\ new.op = "save" /\ ~ToCome(new, "update")
  PROVE  Whole'
<1>1. AdminShapes /\ RequestsOK /\ OneRow /\ SavesOK /\ Known /\ Told
  BY DEF Whole
<1>2. requests[s] \in Row /\ RequestOK(requests[s]) /\ requests[s].op # "none"
  BY HeadOf
<1>3. NoAnswer \in AnswerRow
  BY RowFacts DEF NoRequest, Row
<1>4. /\ new.at = "done" /\ new.todo = requests[s].todo /\ SameRow(new, requests[s])
      /\ new.op = requests[s].op
  BY <1>2, <1>3, RowMoved DEF SameRow
<1>5. requests' = [requests EXCEPT ![s] = new]
  BY DEF RowDone
<1>6. /\ requests' \in [Places -> Row] /\ requests'[s] = new
      /\ \A t \in Places : t # s => requests'[t] = requests[t]
  BY <1>1, <1>5, Changed
<1>7. \A t \in Places : t # s => ~Pressed(t) /\ requests[t].op # "save"
  BY Only DEF Pressed
<1>8. AdminShapes'
  BY <1>1, <1>6 DEF AdminShapes, HandleFrame
<1>9. RequestOK(requests[s])'
  BY <1>2, <1>4, <1>6 DEF RequestOK, OpsOn, HandleFrame
<1>10. RequestsOK' /\ OneRow'
  <2>1. Pressed(s) /\ UNCHANGED <<page, me>>
    BY DEF Pressed, HandleFrame
  <2> QED BY <1>1, <1>6, <1>9, <2>1, OneChanged
<1>11. SavesOK'
  <2> SUFFICES ASSUME NEW t \in Places, requests'[t].op = "save" PROVE SaveOK(requests[t])'
    BY DEF SavesOK
  <2>1. t = s
    BY <1>6, <1>7
  <2>2. requests'[t] = new /\ new.op = "save"
    BY <1>6, <2>1
  <2> QED BY <2>2 DEF SaveOK, ToCome
<1>12. Known'
  <2>1. page' = page /\ seen' = seen
    BY DEF HandleFrame
  <2>2. CASE offers' = offers
    <3>1. ASSUME NEW t \in Places, requests[t].op = "save", ~ToCome(requests[t], "update")
          PROVE  requests'[t].op = "save" /\ ~ToCome(requests'[t], "update")
      <4>1. t = s
        BY <1>7, <3>1
      <4>2. WaitsOK(requests[s].todo, "update")
        BY <3>1, <4>1, SavePage, SaveTodo
      <4> QED BY <1>4, <1>6, <3>1, <4>1, <4>2 DEF ToCome, WaitsOK
    <3>2. page = "product" /\ seen.loaded =>
            \/ seen.offer = FirstOffer
            \/ \E t \in Places : requests'[t].op = "save" /\ ~ToCome(requests'[t], "update")
      BY <1>1, <3>1 DEF Known
    <3>3. ASSUME NEW t \in Places, page = "product", requests'[t].at = "done",
                 requests'[t].todo = <<"load">>, requests'[t].op = "open" => ~seen.loaded
          PROVE  requests'[t].got.offer = FirstOffer
      <4>1. t # s
        BY <1>4, <1>6, <3>3
      <4> QED BY <1>1, <1>6, <3>3, <4>1 DEF Known
    <3> QED BY <2>1, <2>2, <3>2, <3>3 DEF Known, FirstOffer, ToCome
  <2>3. CASE seen.loaded /\ new.op = "save" /\ ~ToCome(new, "update")
    <3>1. requests'[s].op = "save" /\ ~ToCome(requests'[s], "update")
      BY <1>6, <2>3
    <3>2. ASSUME NEW t \in Places, requests'[t].at = "done", requests'[t].todo = <<"load">>,
                 requests'[t].op = "open" => ~seen.loaded
          PROVE  FALSE
      <4>1. t # s
        BY <1>4, <1>6, <3>2
      <4>2. ~Pressed(t) /\ requests'[t] = requests[t] /\ RequestOK(requests[t])
        BY <1>1, <1>6, <1>7, <4>1 DEF RequestsOK
      <4>3. requests[t].op = "open"
        BY <3>2, <4>2 DEF Pressed, RequestOK
      <4> QED BY <2>3, <3>2, <4>2, <4>3
    <3> QED BY <2>1, <2>3, <3>1, <3>2 DEF Known, ToCome
  <2> QED BY <2>2, <2>3
<1>13. Told'
  BY <1>1 DEF Told, Pressed, HandleFrame
<1> QED BY <1>8, <1>10, <1>11, <1>12, <1>13 DEF Whole

\* The page of a request that is no load, by what it asks.
LEMMA PageOf ==
  ASSUME Whole, NEW s \in Places, requests[s].at # "idle",
         Head(requests[s].todo) \in {"update", "publish", "unpublish", "archive", "price", "reprice"}
  PROVE  /\ page = "product" /\ requests[s].op \notin {"none", "open"} /\ requests[s].todo # <<"load">>
         /\ Head(requests[s].todo) \in {"update", "price", "reprice"} <=> requests[s].op = "save"
<1>1. /\ RequestOK(requests[s]) /\ requests[s].op # "none" /\ requests[s].todo # <<"load">>
      /\ requests[s].op = "save" \/ Head(requests[s].todo) = requests[s].op
  BY HeadOf
<1>2. requests[s].op \in OpsOn(page)
  BY <1>1 DEF RequestOK
<1>3. requests[s].op = "save" => Head(requests[s].todo) \in {"update", "price", "reprice", "link", "load"}
  BY SavePage, SaveTodo DEF TodoOK
<1>4. requests[s].op \in {"save", "publish", "unpublish", "archive"}
  <2>1. "update" \notin Ops /\ "price" \notin Ops /\ "reprice" \notin Ops
    BY DEF Ops, Acts
  <2>2. requests[s].op \in Ops
    BY DEF Whole, AdminShapes, Row
  <2> QED BY <1>1, <2>1, <2>2
<1>5. page = "product"
  BY <1>2, <1>4 DEF OpsOn
<1> QED BY <1>1, <1>3, <1>4, <1>5

LEMMA UpdateHandled ==
  ASSUME Whole, NEW s \in Places, requests[s].at = "sent", Update(requests[s]),
         HandleFrame, requests' = [requests EXCEPT ![s].at = "done"]
  PROVE  Whole'
<1>1. PICK c : c = requests[s]
  OBVIOUS
<1>2. c \in Row /\ c.form \in FormRow
  BY <1>1, HeadOf DEF Row
<1>3. /\ Head(c.todo) \in {"update", "publish", "unpublish", "archive"}
      /\ UNCHANGED <<offers, images, created, stock, rows>>
      /\ product' = [name |-> IF Head(c.todo) = "update" THEN c.form.name ELSE product.name,
                     status |-> NewStatus(Head(c.todo), c.form)]
  BY <1>1 DEF Update
<1>4. NewStatus(Head(c.todo), c.form) \in Statuses /\ NewStatus("update", c.form) = c.form.status
  BY <1>2 DEF NewStatus, FormRow, Statuses
<1>5. c.form.name \in Blank /\ product.name \in Blank /\ offers \in FirstOffers
  BY <1>2 DEF FormRow, Whole, AdminShapes
<1>6. product' \in [name : Blank, status : Statuses]
  BY <1>3, <1>4, <1>5
<1>7. /\ page = "product" /\ c.op \notin {"none", "open"} /\ c.todo # <<"load">>
      /\ Head(c.todo) \in {"update", "price", "reprice"} <=> c.op = "save"
  BY <1>1, <1>3, PageOf
<1>8. PICK new : new = RowDone(c)
  OBVIOUS
<1>9. NoAnswer \in AnswerRow
  BY RowFacts DEF NoRequest, Row
<1>10. new \in Row /\ new.at = "done" /\ new.todo = c.todo /\ SameRow(new, c)
  BY <1>2, <1>8, <1>9, RowMoved
<1>11. ASSUME new.op = "save" PROVE SaveOK(new)'
  <2>1. c.op = "save" /\ Head(c.todo) = "update" /\ c.todo \in SaveTodos /\ SaveOK(c)
    BY <1>1, <1>3, <1>7, <1>10, <1>11, SavePage DEF SameRow, Whole, SavesOK
  <2>2. /\ WaitsOK(c.todo, "price") /\ WaitsOK(c.todo, "reprice")
    BY <2>1, SaveTodo
  <2>3. (ToCome(new, "price") <=> ToCome(c, "price")) /\ (ToCome(new, "reprice") <=> ToCome(c, "reprice"))
    BY <1>1, <1>10, <2>1, <2>2 DEF ToCome, WaitsOK
  <2>4. product' = [name |-> submitted.name, status |-> submitted.status]
    BY <1>3, <1>4, <2>1 DEF SaveOK
  <2>5. UNCHANGED <<submitted, seen>>
    BY DEF HandleFrame
  <2>6. new.form = c.form /\ new.offer = c.offer
    BY <1>10 DEF SameRow
  <2> QED BY <1>3, <2>1, <2>3, <2>4, <2>5, <2>6 DEF SaveOK, ToCome
<1> QED BY <1>1, <1>3, <1>5, <1>6, <1>7, <1>8, <1>10, <1>11, AloneHandled

LEMMA OfferHandled ==
  ASSUME Whole, NEW s \in Places, requests[s].at = "sent", SetOffer(requests[s]),
         HandleFrame, requests' = [requests EXCEPT ![s].at = "done"]
  PROVE  Whole'
<1>1. PICK c : c = requests[s]
  OBVIOUS
<1>2. c \in Row /\ c.form \in FormRow
  BY <1>1, HeadOf DEF Row
<1>3. Head(c.todo) \in {"price", "reprice"} /\ UNCHANGED <<product, images, created, stock, rows>>
  BY <1>1 DEF SetOffer
<1>4. /\ page = "product" /\ c.op = "save" /\ c.todo # <<"load">>
  BY <1>1, <1>3, PageOf
<1>5. c.todo \in SaveTodos /\ SaveOK(c)
  BY <1>1, <1>4, SavePage DEF Whole, SavesOK
<1>6. ToCome(c, Head(c.todo)) /\ ~ToCome(c, "update")
  BY <1>1, <1>3, <1>5, SaveTodo DEF TodoOK, ToCome
<1>7. /\ seen.loaded /\ submitted.price # 0 /\ c.form.price = submitted.price
      /\ c.form.price \in Prices
  BY <1>2, <1>3, <1>5, <1>6 DEF SaveOK, FormRow
<1>8. offers' = <<c.form.price>>
  <2>1. CASE Head(c.todo) = "price"
    <3>1. offers = <<>> /\ offers' = Append(offers, c.form.price)
      BY <1>1, <1>5, <1>6, <2>1 DEF SetOffer, SaveOK
    <3>2. Append(<<>>, c.form.price) = <<c.form.price>>
      OBVIOUS
    <3> QED BY <3>1, <3>2
  <2>2. CASE Head(c.todo) = "reprice"
    <3>1. offers # <<>> /\ c.offer = 1 /\ offers' = [offers EXCEPT ![1] = c.form.price]
      BY <1>1, <1>5, <1>6, <2>2 DEF SetOffer, SaveOK
    <3>2. PICK p \in Prices : offers = <<p>>
      BY <3>1, Offered DEF Whole, AdminShapes
    <3>3. [<<p>> EXCEPT ![1] = c.form.price] = <<c.form.price>>
      OBVIOUS
    <3> QED BY <3>1, <3>2, <3>3
  <2> QED BY <1>3, <2>1, <2>2
<1>9. offers' \in FirstOffers /\ product' \in [name : Blank, status : Statuses]
  BY <1>3, <1>7, <1>8 DEF FirstOffers, Whole, AdminShapes
<1>10. PICK new : new = RowDone(c)
  OBVIOUS
<1>11. NoAnswer \in AnswerRow
  BY RowFacts DEF NoRequest, Row
<1>12. new \in Row /\ new.at = "done" /\ new.todo = c.todo /\ SameRow(new, c)
  BY <1>2, <1>10, <1>11, RowMoved
<1>13. ~ToCome(new, "price") /\ ~ToCome(new, "reprice") /\ ~ToCome(new, "update")
  <2>1. TodoOK(c.todo) /\ WaitsOK(c.todo, "update")
    BY <1>5, SaveTodo
  <2> QED BY <1>1, <1>3, <1>6, <1>12, <2>1 DEF ToCome, TodoOK, WaitsOK
<1>14. SaveOK(new)'
  <2>1. UNCHANGED <<submitted, seen>> /\ new.form = c.form
    BY <1>12 DEF HandleFrame, SameRow
  <2>2. product' = [name |-> submitted.name, status |-> submitted.status]
    BY <1>3, <1>5, <1>6 DEF SaveOK
  <2> QED BY <1>5, <1>7, <1>8, <1>13, <2>1, <2>2 DEF SaveOK, ToCome
<1>15. new.op = "save" /\ c.op \notin {"none", "open"}
  BY <1>4, <1>12 DEF SameRow
<1> QED BY <1>1, <1>3, <1>4, <1>7, <1>9, <1>10, <1>12, <1>13, <1>14, <1>15, AloneHandled

LEMMA PostHandled ==
  ASSUME Whole, NEW s \in Places, requests[s].at = "sent", Post(requests[s]),
         HandleFrame, requests' = [requests EXCEPT ![s].at = "done"]
  PROVE  Whole'
<1>1. images' = images /\ images' \in Int /\ rows \in [Fulfilments -> Marks] /\ requests[s].row \in 0..2
  BY HeadOf DEF Post, Whole, AdminShapes, Row
<1>2. CASE Head(requests[s].todo) \in {"adjust", "ready", "deliver"}
  <2>1. UNCHANGED <<product, offers>>
    BY <1>2 DEF Post
  <2>2. rows' \in [Fulfilments -> Marks]
    BY <1>1, <1>2 DEF Post, Marks
  <2>3. Head(requests[s].todo) \notin {"load", "update", "price", "reprice"}
    BY <1>2
  <2> QED BY <1>1, <2>1, <2>2, <2>3, AsideHandled
<1>3. CASE Head(requests[s].todo) = "create"
  <2>1. /\ product' \in [name : Names, status : {"DRAFT"}] /\ offers' \in FirstOffers
        /\ UNCHANGED <<images, rows>>
    BY <1>1, <1>3 DEF Post
  <2>2. /\ requests[s] \in Row /\ RequestOK(requests[s])
        /\ requests[s].op = "save" \/ requests[s].op = "create"
    BY <1>3, HeadOf
  <2>3. requests[s].op = "create"
    BY <1>3, <2>2, SavePage, SaveTodo DEF TodoOK
  <2>4. page = "new"
    BY <2>2, <2>3 DEF RequestOK, OpsOn
  <2>5. \A t \in Places : requests[t].op # "save" /\ said # "saved" /\ requests[t].op # "open"
    BY <2>4, SavePage DEF Whole, RequestsOK, RequestOK, OpsOn, Told
  <2>6. PICK new : new = RowDone(requests[s])
    OBVIOUS
  <2>7. NoAnswer \in AnswerRow
    BY RowFacts DEF NoRequest, Row
  <2>8. new \in Row /\ new.at = "done" /\ new.todo = requests[s].todo /\ new.op = "create"
    BY <2>2, <2>3, <2>6, <2>7, RowMoved DEF SameRow
  <2>9. requests' = [requests EXCEPT ![s] = new]
    BY <2>6 DEF RowDone
  <2>10. AdminShapes /\ RequestsOK /\ OneRow /\ Known
    BY DEF Whole
  <2>11. /\ requests' \in [Places -> Row] /\ requests'[s] = new
         /\ \A t \in Places : t # s => requests'[t] = requests[t]
    BY <2>8, <2>9, <2>10, Changed
  <2>12. AdminShapes'
    <3>1. product' \in [name : Blank, status : Statuses]
      BY <2>1 DEF Blank, Statuses
    <3> QED BY <2>1, <2>10, <2>11, <3>1 DEF AdminShapes, HandleFrame
  <2>13. RequestOK(requests[s])'
    BY <2>2, <2>3, <2>8, <2>11 DEF RequestOK, OpsOn, HandleFrame
  <2>14. RequestsOK' /\ OneRow'
    <3>1. Pressed(s) /\ UNCHANGED <<page, me>>
      BY <2>3 DEF Pressed, HandleFrame
    <3> QED BY <2>10, <2>11, <2>13, <3>1, OneChanged
  <2>15. SavesOK' /\ Told'
    BY <2>5, <2>8, <2>11 DEF SavesOK, Told, HandleFrame
  <2>16. Known'
    BY <2>4, <2>10 DEF Known, HandleFrame
  <2> QED BY <2>12, <2>14, <2>15, <2>16 DEF Whole
<1> QED BY <1>2, <1>3 DEF Post

LEMMA ImagesHandled ==
  ASSUME Whole, NEW s \in Places, requests[s].at = "sent", SetImages(requests[s]),
         HandleFrame, requests' = [requests EXCEPT ![s].at = "done"]
  PROVE  Whole'
<1>1. images \in Int /\ rows \in [Fulfilments -> Marks]
  BY DEF Whole, AdminShapes
<1>2. Head(requests[s].todo) \in {"link", "upload", "unlink"} /\ images' \in Int
  BY <1>1 DEF SetImages
<1>3. Head(requests[s].todo) \notin {"load", "update", "price", "reprice"}
  BY <1>2
<1>4. UNCHANGED <<product, offers, rows>>
  BY DEF SetImages
<1> QED BY <1>1, <1>2, <1>3, <1>4, AsideHandled

LEMMA ServeKeeps == ASSUME Whole, NEW s \in Places, Serve(s) PROVE Whole'
<1>1. requests[s].at = "sent" /\ HandleFrame
  BY DEF Serve, HandleFrame
<1>2. CASE Head(requests[s].todo) = "load" /\ UNCHANGED stored
           /\ \E a \in Answers : requests' = [requests EXCEPT ![s].at = "done", ![s].got = a]
  BY <1>1, <1>2, LoadHandled
<1>3. CASE /\ Update(requests[s]) \/ SetOffer(requests[s]) \/ SetImages(requests[s]) \/ Post(requests[s])
           /\ requests' = [requests EXCEPT ![s].at = "done"]
  BY <1>1, <1>3, UpdateHandled, OfferHandled, ImagesHandled, PostHandled
<1>4. CASE Head(requests[s].todo) \in {"update", "publish"} /\ UNCHANGED stored
           /\ requests' = [requests EXCEPT ![s].at = "refused"]
  BY <1>1, <1>4, RefusalHandled
<1> QED BY <1>2, <1>3, <1>4 DEF Serve

LEMMA ProceedKeeps == ASSUME Whole, NEW s \in Places, Proceed(s) PROVE Whole'
<1>1. /\ requests[s].at = "done" /\ Len(requests[s].todo) > 1
      /\ requests' = [requests EXCEPT ![s] = RowNext(requests[s])]
      /\ UNCHANGED <<stored, page, me, seen, form, shown, said, submitted>>
  BY DEF Proceed, RowNext
<1>2. PICK c : c = requests[s]
  OBVIOUS
<1>3. c \in Row /\ RequestOK(c) /\ c.op # "none"
  BY <1>1, <1>2, HeadOf
<1>4. c.op \in Ops /\ c.todo \in TodosOf(c.op)
  BY <1>3 DEF RequestOK, Row
<1>5. Tail(c.todo) \in TodosOf(c.op) /\ c.todo # <<"load">>
  <2>1. Len(<<"load">>) = 1 /\ Len(<<"create">>) = 1
    BY One
  <2>2. c.todo # <<"load">> /\ c.todo # <<"create">>
    <3>1. Len(c.todo) > 1
      BY <1>1, <1>2
    <3>2. ASSUME Len(c.todo) = 1 PROVE FALSE
      BY <3>1, <3>2
    <3> QED BY <2>1, <3>2
  <2>3. CASE c.op = "save"
    <3>1. c.todo \in SaveTodos
      BY <1>4, <2>3 DEF TodosOf
    <3> QED BY <2>3, <2>2, <3>1, SaveTodo DEF TodoOK, TodosOf
  <2>4. CASE c.op \in Acts
    <3>1. Tail(c.todo) = <<"load">>
      BY <1>1, <1>2, <1>4, <2>4, ShortRows
    <3> QED BY <2>4, <2>2, <3>1 DEF TodosOf, Acts
  <2>5. CASE c.op = "open" \/ c.op = "create"
    <3>1. c.todo = <<"load">> \/ c.todo = <<"create">>
      BY <1>4, <2>5 DEF TodosOf
    <3> QED BY <2>2, <3>1
  <2> QED BY <1>3, <1>4, <2>3, <2>4, <2>5 DEF Ops
<1>6. Tail(c.todo) \in Todos
  BY <1>4, <1>5, AllTodos
<1>7. PICK new : new = RowNext(c)
  OBVIOUS
<1>8. new \in Row /\ new.at = "sent" /\ new.todo = Tail(c.todo) /\ SameRow(new, c) /\ new.op = c.op
  BY <1>3, <1>6, <1>7, RowOn DEF SameRow
<1>9. RequestOK(new)'
  BY <1>1, <1>3, <1>5, <1>8 DEF RequestOK, OpsOn
<1>10. ASSUME NEW r \in {"update", "price", "reprice"}, new.op = "save"
       PROVE  ToCome(new, r) <=> ToCome(requests[s], r)
  <2>1. c.todo \in SaveTodos
    BY <1>4, <1>8, <1>10 DEF TodosOf
  <2>2. WaitsOK(c.todo, r)
    BY <2>1, SaveTodo
  <2> QED BY <1>1, <1>2, <1>5, <1>8, <2>2 DEF ToCome, WaitsOK
<1>11. images' \in Int /\ rows' \in [Fulfilments -> Marks] /\ UNCHANGED <<product, offers>>
  BY <1>1 DEF Whole, AdminShapes, stored
<1>12. requests' = [requests EXCEPT ![s] = new] /\ SameRow(new, requests[s])
  BY <1>1, <1>2, <1>7, <1>8
<1>13. new.at # "done"
  BY <1>8
<1>14. UNCHANGED <<page, me, seen, form, shown, said, submitted>>
  BY <1>1
<1> QED BY <1>8, <1>9, <1>10, <1>11, <1>12, <1>13, <1>14, RowGoesOn

LEMMA LoadedKeeps ==
  ASSUME Whole, NEW s \in Places, Loaded(s), ~rough' PROVE Whole'
<1>1. /\ requests[s].at = "done" /\ requests[s].todo = <<"load">>
      /\ seen' = [loaded |-> TRUE, offer |-> requests[s].got.offer, images |-> requests[s].got.images]
      /\ shown' = requests[s].got.rows /\ requests' = [requests EXCEPT ![s] = NoRequest]
      /\ UNCHANGED <<product, offers, images, rows, page, me, submitted>>
      /\ requests[s].op = "open" => ~seen.loaded
      /\ said' = CASE requests[s].op = "open" -> said [] requests[s].op = "save" -> "saved"
                   [] OTHER -> "done"
  BY DEF Loaded, stored
<1>2. AdminShapes /\ RequestsOK /\ OneRow /\ SavesOK /\ Known /\ Told
  BY DEF Whole
<1>3. requests[s] \in Row /\ requests[s].got \in AnswerRow /\ RequestOK(requests[s]) /\ requests[s].op # "none"
  BY <1>1, HeadOf DEF Row
<1>4. form' \in FormRow
  <2>1. PICK a : a = requests[s].got
    OBVIOUS
  <2>2. PICK link \in BOOLEAN :
          form' = [name |-> a.name, status |-> a.status,
                   price |-> IF a.offer = 0 THEN form.price ELSE a.price, link |-> link]
    <3>1. form' = [name |-> a.name, status |-> a.status,
                   price |-> IF a.offer = 0 THEN form.price ELSE a.price,
                   link |-> form.link /\ requests[s].op # "save"]
      BY <2>1 DEF Loaded
    <3> QED BY <3>1
  <2>3. /\ a.name \in Blank /\ a.status \in Statuses /\ a.price \in Prices \cup {0}
        /\ form.price \in Prices \cup {0}
    BY <1>2, <1>3, <2>1 DEF AnswerRow, AdminShapes, FormRow
  <2> QED BY <2>2, <2>3 DEF FormRow
<1>5. /\ requests' \in [Places -> Row] /\ requests'[s] = NoRequest
      /\ \A t \in Places : t # s => requests'[t] = requests[t]
  BY <1>1, <1>2, RowFacts, Changed
<1>6. /\ seen'.loaded = TRUE /\ seen'.offer = requests[s].got.offer
      /\ seen' \in [loaded : BOOLEAN, offer : {0, 1}, images : Int]
      /\ shown' \in [Fulfilments -> Marks]
  BY <1>1, <1>3 DEF AnswerRow
<1>7. AdminShapes'
  BY <1>1, <1>2, <1>4, <1>5, <1>6 DEF AdminShapes
<1>8. RequestOK(requests[s])'
  BY <1>5, RowFacts DEF RequestOK, TodosOf, OpsOn
<1>9. ~Pressed(s)' /\ \A t \in Places : Pressed(t)' => t # s /\ Pressed(t)
  BY <1>5, RowFacts DEF Pressed
<1>10. RequestsOK' /\ OneRow'
  BY <1>1, <1>2, <1>5, <1>8, <1>9, OneChanged
<1>11. SavesOK'
  <2> SUFFICES ASSUME NEW t \in Places, requests'[t].op = "save" PROVE SaveOK(requests[t])'
    BY DEF SavesOK
  <2>1. requests'[t] = requests[t] /\ SaveOK(requests[t])
    BY <1>2, <1>5, RowFacts DEF SavesOK
  <2> QED BY <1>1, <1>6, <2>1 DEF SaveOK, ToCome
<1>12. page # "new"
  <2>1. "load" # "create" /\ Head(<<"load">>) = "load" /\ Head(<<"create">>) = "create"
    BY One
  <2>2. requests[s].op # "create"
    BY <1>1, <1>3, <2>1 DEF RequestOK, TodosOf
  <2> QED BY <1>3, <2>2 DEF RequestOK, OpsOn
<1>13. page = "product" => requests[s].got.offer = FirstOffer
  BY <1>1, <1>2 DEF Known
<1>14. Known'
  <2>1. ASSUME NEW t \in Places, page' = "product", requests'[t].at = "done",
               requests'[t].todo = <<"load">>, requests'[t].op = "open" => ~seen'.loaded
        PROVE  requests'[t].got.offer = FirstOffer'
    <3>1. t # s /\ requests'[t] = requests[t] /\ requests[t].op # "open"
      BY <1>5, <1>6, <2>1, RowFacts
    <3> QED BY <1>1, <1>2, <2>1, <3>1 DEF Known, FirstOffer
  <2>2. page' = "product" => seen'.offer = FirstOffer'
    BY <1>1, <1>6, <1>13 DEF FirstOffer
  <2> QED BY <1>1, <1>12, <2>1, <2>2 DEF Known
<1>15. Told'
  <2>1. CASE requests[s].op = "save"
    <3>1. page = "product" /\ me = "admin" /\ Pressed(s) /\ SaveOK(requests[s])
      BY <1>2, <2>1, SavePage DEF SavesOK
    <3>2. \A t \in Places : ~Pressed(t)'
      BY <1>9, <3>1, Only
    <3>3. \A r : ~ToCome(requests[s], r)
      BY <1>1, DoneOne DEF ToCome
    <3> QED BY <1>1, <3>1, <3>2, <3>3 DEF Told, SaveOK
  <2>2. CASE requests[s].op = "open"
    BY <1>1, <1>2, <1>9, <2>2 DEF Told
  <2>3. CASE requests[s].op \notin {"open", "save"}
    BY <1>1, <2>3 DEF Told
  <2> QED BY <2>1, <2>2, <2>3
<1> QED BY <1>7, <1>10, <1>11, <1>14, <1>15 DEF Whole

LEMMA CreatedKeeps == ASSUME Whole, NEW s \in Places, Created(s) PROVE Whole'
<1>1. /\ requests[s].at = "done" /\ requests[s].todo = <<"create">>
      /\ page' = "product" /\ seen' = Unloaded /\ form' = NoForm /\ said' = "nothing"
      /\ requests' = [requests EXCEPT ![s] = FirstLoad]
      /\ UNCHANGED <<stored, me, shown, submitted>>
  BY DEF Created
<1>2. AdminShapes /\ RequestsOK /\ OneRow
  BY DEF Whole
<1>3. RequestOK(requests[s]) /\ requests[s].op # "none" /\ Head(requests[s].todo) = "create"
  BY <1>1, HeadOf, One
<1>4. requests[s].op = "create"
  <2>1. requests[s].op = "save" \/ requests[s].op = "create"
    BY <1>1, <1>3, HeadOf
  <2> QED BY <1>3, <2>1, SavePage, SaveTodo DEF TodoOK
<1>5. page = "new" /\ Pressed(s)
  BY <1>3, <1>4 DEF RequestOK, OpsOn, Pressed
<1>6. \A t \in Places : t # s => requests[t].op = "none"
  <2> SUFFICES ASSUME NEW t \in Places, t # s PROVE requests[t].op = "none"
    OBVIOUS
  <2>1. ~Pressed(t) /\ requests[t].op \in OpsOn(page)
    BY <1>2, <1>5, Only DEF RequestsOK, RequestOK
  <2> QED BY <1>5, <2>1 DEF Pressed, OpsOn
<1>7. /\ requests' \in [Places -> Row] /\ requests'[s] = FirstLoad
      /\ \A t \in Places : t # s => requests'[t] = requests[t]
  BY <1>1, <1>2, RowFacts, Changed
<1>8. NoForm \in FormRow /\ Unloaded \in [loaded : BOOLEAN, offer : {0, 1}, images : Int]
  BY DEF NoForm, FormRow, Blank, Statuses, Unloaded
<1>9. AdminShapes'
  BY <1>1, <1>2, <1>7, <1>8 DEF AdminShapes, stored
<1>10. \A t \in Places : requests'[t].op \in {"none", "open"} /\ requests'[t].at # "done"
  <2> SUFFICES ASSUME NEW t \in Places
               PROVE  requests'[t].op \in {"none", "open"} /\ requests'[t].at # "done"
    OBVIOUS
  <2>1. CASE t = s
    BY <1>7, <2>1, RowFacts
  <2>2. CASE t # s
    BY <1>2, <1>6, <1>7, <2>2 DEF RequestsOK, RequestOK
  <2> QED BY <2>1, <2>2
<1>11. RequestsOK'
  <2> SUFFICES ASSUME NEW t \in Places PROVE RequestOK(requests[t])'
    BY DEF RequestsOK
  <2>1. CASE t = s
    BY <1>1, <1>7, <2>1, RowFacts DEF RequestOK, TodosOf, OpsOn
  <2>2. CASE t # s
    BY <1>1, <1>2, <1>6, <1>7, <2>2 DEF RequestsOK, RequestOK, OpsOn
  <2> QED BY <2>1, <2>2
<1>12. OneRow' /\ SavesOK' /\ Told'
  BY <1>1, <1>10 DEF OneRow, Pressed, SavesOK, Told
<1>13. Known'
  BY <1>1, <1>10 DEF Known, Unloaded
<1> QED BY <1>9, <1>11, <1>12, <1>13 DEF Whole

LEMMA FailsKeep == ASSUME Whole, NEW s \in Places, Fails(s), ~rough' PROVE Whole'
<1>1. /\ requests[s].at = "refused" /\ said' = "error"
      /\ requests' = [requests EXCEPT ![s] = NoRequest]
      /\ UNCHANGED <<product, offers, images, rows, page, me, seen, form, shown, submitted>>
  BY DEF Fails, stored
<1>2. AdminShapes /\ RequestsOK /\ OneRow /\ SavesOK /\ Known
  BY DEF Whole
<1>3. RequestOK(requests[s]) /\ Head(requests[s].todo) \in {"update", "publish"}
  BY <1>1, HeadOf DEF RequestOK
<1>4. /\ requests' \in [Places -> Row] /\ requests'[s] = NoRequest
      /\ \A t \in Places : t # s => requests'[t] = requests[t]
  BY <1>1, <1>2, RowFacts, Changed
<1>5. AdminShapes'
  BY <1>1, <1>2, <1>4 DEF AdminShapes
<1>6. RequestOK(requests[s])' /\ ~Pressed(s)'
  BY <1>4, RowFacts DEF RequestOK, TodosOf, OpsOn, Pressed
<1>7. RequestsOK' /\ OneRow'
  BY <1>1, <1>2, <1>4, <1>6, OneChanged
<1>8. SavesOK'
  <2> SUFFICES ASSUME NEW t \in Places, requests'[t].op = "save" PROVE SaveOK(requests[t])'
    BY DEF SavesOK
  <2>1. requests'[t] = requests[t] /\ SaveOK(requests[t])
    BY <1>2, <1>4, RowFacts DEF SavesOK
  <2> QED BY <1>1, <2>1 DEF SaveOK, ToCome
<1>9. Known'
  <2>1. ASSUME NEW t \in Places, requests[t].op = "save", ~ToCome(requests[t], "update")
        PROVE  requests'[t].op = "save" /\ ~ToCome(requests'[t], "update")
    <3>1. t # s
      <4>1. ASSUME requests[s].op = "save" PROVE ToCome(requests[s], "update")
        <5>1. requests[s].todo \in SaveTodos /\ Head(requests[s].todo) = "update"
          BY <1>3, <4>1, SavePage, SaveTodo DEF TodoOK
        <5>2. Waits("sent", requests[s].todo, "update")
          BY <5>1, SaveTodo DEF TodoOK
        <5> QED BY <1>1, <5>2 DEF ToCome, Waits, From
      <4> QED BY <2>1, <4>1
    <3> QED BY <1>4, <2>1, <3>1
  <2>2. page = "product" /\ seen.loaded =>
          \/ seen.offer = FirstOffer
          \/ \E t \in Places : requests'[t].op = "save" /\ ~ToCome(requests'[t], "update")
    BY <1>2, <2>1 DEF Known
  <2>3. ASSUME NEW t \in Places, page = "product", requests'[t].at = "done",
               requests'[t].todo = <<"load">>, requests'[t].op = "open" => ~seen.loaded
        PROVE  requests'[t].got.offer = FirstOffer
    <3>1. t # s
      BY <1>4, <2>3, RowFacts
    <3> QED BY <1>2, <1>4, <2>3, <3>1 DEF Known
  <2> QED BY <1>1, <1>2, <2>2, <2>3 DEF Known, FirstOffer, ToCome
<1>10. Told'
  BY <1>1 DEF Told
<1> QED BY <1>5, <1>7, <1>8, <1>9, <1>10 DEF Whole

\* The finally of a row enables the buttons: off the order's page it was the only one.
LEMMA BusyKeeps == ASSUME Whole, BusyOK, AdminNext PROVE BusyOK'
<1>1. RequestsOK
  BY DEF Whole
<1>2. CASE Shell
  <2>1. me = "asking" /\ requests' = requests
    BY <1>2 DEF Shell
  <2>2. ~RowRuns
    BY <1>1, <2>1 DEF RequestsOK, RequestOK, RowRuns
  <2> QED BY <2>1, <2>2 DEF BusyOK, RowRuns
<1>3. CASE Type \/ Other
  BY <1>3 DEF Type, Other, BusyOK, RowRuns
<1>4. CASE Save \/ Act \/ RemoveImage \/ Upload \/ Create \/ Adjust
  BY <1>4 DEF Save, Act, RemoveImage, Upload, Create, Adjust, BusyOK
<1>5. CASE Mark
  BY <1>5 DEF Mark, BusyOK
<1>6. ASSUME NEW s \in Places, NEW new \in Row, requests' = [requests EXCEPT ![s] = new],
             requests[s].op = new.op, requests[s].at # "idle", page' = page, busy' = busy
      PROVE  BusyOK'
  <2>1. \A t \in Places : requests'[t].op = requests[t].op /\ (requests'[t].at # "idle" => requests[t].at # "idle")
    BY <1>6, Changed DEF Whole
  <2> QED BY <1>6, <2>1 DEF BusyOK, RowRuns
<1>7. ASSUME NEW s \in Places, Serve(s) PROVE BusyOK'
  <2>1. requests[s].at = "sent" /\ page' = page /\ busy' = busy
    BY <1>7 DEF Serve
  <2>2. \A t \in Places : requests'[t].op = requests[t].op /\ (requests'[t].at # "idle" => requests[t].at # "idle")
    BY <1>7, <2>1 DEF Serve, Whole, AdminShapes, Row
  <2> QED BY <2>1, <2>2 DEF BusyOK, RowRuns
<1>8. ASSUME NEW s \in Places, Proceed(s) PROVE BusyOK'
  <2>1. requests[s].at = "done" /\ page' = page /\ busy' = busy
    BY <1>8 DEF Proceed
  <2>2. \A t \in Places : requests'[t].op = requests[t].op /\ (requests'[t].at # "idle" => requests[t].at # "idle")
    BY <1>8, <2>1 DEF Proceed, Whole, AdminShapes, Row
  <2> QED BY <2>1, <2>2 DEF BusyOK, RowRuns
<1>9. ASSUME NEW s \in Places, requests' = [requests EXCEPT ![s] = NoRequest], requests[s].at # "idle",
             page' = page, busy' = (busy /\ (requests[s].op = "open" \/ requests[s].row # 0))
      PROVE  BusyOK'
  <2>1. NoRequest.at = "idle" /\ requests'[s] = NoRequest /\ \A t \in Places : t # s => requests'[t] = requests[t]
    BY <1>9, Changed, RowFacts DEF Whole
  <2>2. CASE page = "order"
    BY <1>9, <2>2 DEF BusyOK
  <2>3. CASE page # "order" /\ Pressed(s)
    <3>1. \A t \in Places : t # s => ~Pressed(t)
      BY <2>3, Only
    <3>2. ~RowRuns'
      <4>1. \A t \in Places : t # s => requests[t].at = "idle" \/ requests[t].op = "open"
        BY <1>1, <3>1 DEF RequestsOK, RequestOK, Pressed
      <4> QED BY <2>1, <4>1 DEF RowRuns
    <3> QED BY <3>2 DEF BusyOK
  <2>4. CASE ~Pressed(s)
    <3>1. requests[s].op = "open"
      BY <1>1, <1>9, <2>4 DEF RequestsOK, RequestOK, Pressed
    <3>2. RowRuns' => RowRuns
      BY <2>1 DEF RowRuns
    <3> QED BY <1>9, <3>1, <3>2 DEF BusyOK
  <2> QED BY <2>2, <2>3, <2>4
<1>10. ASSUME NEW s \in Places, Loaded(s) PROVE BusyOK'
  BY <1>9, <1>10 DEF Loaded, Finally
<1>11. ASSUME NEW s \in Places, Fails(s) PROVE BusyOK'
  BY <1>9, <1>11 DEF Fails, Finally
<1>12. ASSUME NEW s \in Places, Created(s) PROVE BusyOK'
  <2>1. /\ requests[s].at = "done" /\ requests[s].todo = <<"create">>
        /\ requests' = [requests EXCEPT ![s] = FirstLoad]
    BY <1>12 DEF Created
  <2>2. RequestOK(requests[s]) /\ requests[s].op # "none" /\ Head(requests[s].todo) = "create"
    BY <2>1, HeadOf, One
  <2>3. requests[s].op = "create"
    <3>1. requests[s].op = "save" \/ requests[s].op = "create"
      BY <2>1, <2>2, HeadOf
    <3> QED BY <2>2, <3>1, SavePage, SaveTodo DEF TodoOK
  <2>4. page = "new" /\ Pressed(s)
    BY <2>2, <2>3 DEF RequestOK, OpsOn, Pressed
  <2>5. FirstLoad.op = "open" /\ requests'[s] = FirstLoad /\ \A t \in Places : t # s => requests'[t] = requests[t]
    BY <2>1, Changed, RowFacts DEF Whole
  <2>6. \A t \in Places : t # s => requests[t].at = "idle" \/ requests[t].op = "open"
    BY <1>1, <2>4, Only DEF RequestsOK, RequestOK, Pressed
  <2> QED BY <2>5, <2>6 DEF BusyOK, RowRuns
<1> QED BY <1>2, <1>3, <1>4, <1>5, <1>7, <1>8, <1>10, <1>11, <1>12 DEF AdminNext

LEMMA AdminSteps == AdminInv /\ [AdminNext]_adminVars => AdminInv'
<1> SUFFICES ASSUME AdminInv, [AdminNext]_adminVars, ~rough', ~foreign', ~crossed'
             PROVE  Whole' /\ BusyOK'
  BY DEF AdminInv
<1>1. ~rough /\ ~foreign /\ ~crossed
  <2>1. CASE UNCHANGED adminVars
    BY <2>1 DEF adminVars
  <2>2. CASE Shell
    BY <2>2 DEF Shell
  <2>3. CASE Type
    BY <2>3 DEF Type
  <2>4. CASE Save
    BY <2>4 DEF Save
  <2>5. CASE Act
    BY <2>5 DEF Act
  <2>6. CASE RemoveImage
    BY <2>6 DEF RemoveImage
  <2>7. CASE Upload
    BY <2>7 DEF Upload
  <2>8. CASE Create
    BY <2>8 DEF Create
  <2>9. CASE Adjust
    BY <2>9 DEF Adjust
  <2>10. CASE Mark
    BY <2>10 DEF Mark
  <2>11. CASE Other
    BY <2>11 DEF Other
  <2>12. ASSUME NEW s \in Places, Serve(s) PROVE ~rough /\ ~foreign /\ ~crossed
    BY <2>12 DEF Serve
  <2>13. ASSUME NEW s \in Places, Proceed(s) PROVE ~rough /\ ~foreign /\ ~crossed
    BY <2>13 DEF Proceed
  <2>14. ASSUME NEW s \in Places, Loaded(s) PROVE ~rough /\ ~foreign /\ ~crossed
    BY <2>14 DEF Loaded
  <2>15. ASSUME NEW s \in Places, Created(s) PROVE ~rough /\ ~foreign /\ ~crossed
    BY <2>15 DEF Created
  <2>16. ASSUME NEW s \in Places, Fails(s) PROVE ~rough /\ ~foreign /\ ~crossed
    BY <2>16 DEF Fails
  <2> QED BY <2>1, <2>2, <2>3, <2>4, <2>5, <2>6, <2>7, <2>8,
     <2>9, <2>10, <2>11, <2>12, <2>13, <2>14, <2>15, <2>16 DEF AdminNext
<1>2. Whole /\ BusyOK
  BY <1>1 DEF AdminInv
<1>3. CASE UNCHANGED adminVars
  <2>1. AdminShapes'
    BY <1>2, <1>3 DEF Whole, AdminShapes, adminVars
  <2>2. Whole'
    BY <1>2, <1>3, <2>1, AdminStutters DEF adminVars
  <2> QED BY <1>2, <1>3, <2>2 DEF adminVars, BusyOK, RowRuns
<1>4. ASSUME AdminNext PROVE Whole'
  <2>1. CASE Shell \/ Type \/ Save
    BY <1>2, <2>1, ShellKeeps, TypeKeeps, SaveKeeps
  <2>2. CASE Act \/ RemoveImage \/ Upload \/ Create \/ Adjust \/ Mark
    BY <1>2, <2>2, ButtonsKeep
  <2>3. ~Other
    BY DEF Other
  <2>4. ASSUME NEW s \in Places, Serve(s) \/ Proceed(s) \/ Loaded(s) \/ Created(s) \/ Fails(s)
        PROVE  Whole'
    BY <1>2, <2>4, ServeKeeps, ProceedKeeps, LoadedKeeps, CreatedKeeps, FailsKeep
  <2> QED BY <1>4, <2>1, <2>2, <2>3, <2>4 DEF AdminNext
<1> QED BY <1>2, <1>3, <1>4, BusyKeeps

\* The requests under way, what is left of each row, and what the page knows of the offer, whatever
\* the order of the answers: the inductive invariant of the administrators' pages.
THEOREM AdminInvariant == AdminSpec => []AdminInv
<1>1. AdminInit => BusyOK
  BY DEF AdminInit, BusyOK, RowRuns, FirstLoad, NoRequest
<1>2. AdminInit => AdminInv
  BY <1>1, AdminStarts DEF AdminInv
<1> QED BY <1>2, AdminSteps, PTL DEF AdminSpec

\* "Saved" means that the product and its price are what the form said, and however often it is
\* saved a product has one offer (catalog/[id]/page.tsx:85), unless a call is lost, the first load
\* comes late, somebody else writes or a file is chosen while a row of requests runs, for any number
\* of clicks.
THEOREM SavesAreWhole == AdminSpec => []SaveIsWhole
<1>1. AdminInv => SaveIsWhole
  <2> SUFFICES ASSUME Whole PROVE SaveIsWhole
    BY DEF AdminInv, SaveIsWhole
  <2>1. Len(offers) <= 1
    BY Offered DEF Whole, AdminShapes
  <2> QED BY <2>1 DEF Whole, Told, SaveIsWhole
<1> QED BY <1>1, AdminInvariant, PTL
===============================================================================
