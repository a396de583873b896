----------------------------- MODULE MCOrderPage -------------------------------
(***************************************************************************)
(* Orders, and the page on which the customer waits for the payment's end, *)
(* for TLC.  `component` says in the initial state which of the two runs.  *)
(***************************************************************************)
EXTENDS MCOrders

CONSTANT Components
VARIABLES component,
  cart, made, orders, status, guest, tab, calls, badge, heads, newest, polls, stray, events, unseen,
  unheard, overtaken

P == INSTANCE StorePages WITH
  payment <- status,
  Most <- 2, MaxUnits <- 2, MaxOrders <- 1, MaxEvents <- 3, Lanes <- 1..2, Heads <- 1..2, Polls <- 1..2

orderPage == <<cart, made, orders, status, guest, tab, calls, badge, heads, newest, polls, stray,
               events, unseen, unheard, overtaken>>
MCInit ==
  /\ component \in Components
  /\ Init /\ P!StoreInit /\ tab.page = "order" /\ guest = 0
MCNext ==
  /\ UNCHANGED component
  /\ \/ component = "orders" /\ Next /\ UNCHANGED orderPage
     \/ component = "page" /\ P!Watch /\ UNCHANGED vars
\* The fairness of the component that does not run would exclude every behaviour.
MCFairSpec ==
  /\ MCInit /\ [][MCNext]_<<component, vars, orderPage>>
  /\ component = "orders" => Fairness
  /\ component = "page" => P!StoreFairness

\* A page that stays open comes to show how the payment ended (StorePages).
FinalStatusIsShown == P!FinalStatusIsShown
\* Statements that the code does not keep (StorePages).
PaidIsShown == P!PaidIsShown
StatusNeverGoesBack == P!StatusNeverGoesBack
================================================================================
