------------------------------ MODULE MCAccess --------------------------------
(***************************************************************************)
(* Accounts, RateLimiter and the pages of customers and administrators for *)
(* TLC.  `component` says in the initial state which of the four runs.     *)
(***************************************************************************)
EXTENDS Accounts, RateLimiter, StorePages, AdminPages, TLC

CONSTANTS r1, r2, r3, r4, c1, ann, eve, root, home, office, Components,
  Topics  \* the groups of calls the run explores: the requests of one state all come from one

Asks(op) == [op |-> op, browser |-> home, user |-> ann, pw |-> "old", realm |-> "CUSTOMER",
             code |-> Nobody, form |-> "ours"]
Root(op) == [Asks(op) EXCEPT !.browser = office, !.user = root, !.realm = "ADMIN"]
As(op, user, pw) == [Asks(op) EXCEPT !.user = user, !.pw = pw]
CallsOn ==
  [passwords |-> {As("login", ann, "old"), As("login", ann, "new"), Asks("forgot"),
                  As("reset", ann, "new"), Asks("logout")},
   factors   |-> {Root("enroll"), [Root("confirm") EXCEPT !.code = "totp"],
                  [Root("challenge") EXCEPT !.code = c1], [Root("challenge") EXCEPT !.code = "totp"]},
   accounts  |-> {As("register", eve, "old"), As("verify", eve, "old"), As("login", eve, "old"),
                  [Root("suspend") EXCEPT !.user = eve], [Root("restore") EXCEPT !.user = eve]},
   others    |-> {Asks("csrf"), Asks("me"), [Asks("logout") EXCEPT !.form = "foreign"],
                  [Asks("login") EXCEPT !.form = "script"], Root("login"), Root("logout"),
                  Root("createKey"), Root("revokeKey"), Root("stepUp"),
                  [Root("challenge") EXCEPT !.code = "totp"]}]
AccessCalls == UNION {CallsOn[t] : t \in Topics}
-----------------------------------------------------------------------------
VARIABLES component, topic

chosen == <<component, topic>>
MCInit ==
  /\ component \in Components
  /\ topic \in IF component = "accounts" THEN Topics ELSE {"new visitor", "known visitor"}
  /\ Init /\ LimiterInit /\ StoreInit /\ AdminInit
  /\ component # "accounts" => ~sessions[1].mfa
  /\ tab.page = "product"
  /\ IF component = "storefront" THEN guest = 0 <=> topic = "new visitor"
     ELSE guest = 0 /\ topic # "known visitor"
  /\ component # "backoffice" => page = "new" /\ product.name = "a" /\ offers = <<>>
OnTopic == \A r \in Requests : req'[r].call \in {NoCall} \cup CallsOn[topic]
Only(name) ==
  /\ component = name /\ UNCHANGED chosen
  /\ name # "accounts" => UNCHANGED vars
  /\ name # "limiter" => UNCHANGED limiterVars
  /\ name # "storefront" => UNCHANGED storeVars
  /\ name # "backoffice" => UNCHANGED adminVars
\* A visitor who comes without a cookie is followed for one event less.  An order's page has no watch
\* here: MCOrderPage has it.
Shopping ==
  /\ Customer \/ Network \/ Header
  /\ topic = "new visitor" => events' < 3
MCNext ==
  \/ Only("accounts") /\ Next /\ OnTopic
  \/ Only("limiter") /\ LimiterNext
  \/ Only("storefront") /\ Shopping
  \/ Only("backoffice") /\ AdminNext
MCSpec == MCInit /\ [][MCNext]_<<chosen, vars, limiterVars, storeVars, adminVars>>

\* The type invariants of the four.
AccessTypeOK == TypeOK /\ LimiterTypeOK /\ StoreTypeOK /\ AdminTypeOK

Symmetry == Permutations({r1, r2, r3})
===============================================================================
