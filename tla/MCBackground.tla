---------------------------- MODULE MCBackground -----------------------------
(***************************************************************************)
(* What goes on behind the shop, for TLC: the outbox and its publishers,   *)
(* the notifications, and the life of a process with the environment it    *)
(* starts from.  `component` says in the initial state which of them runs. *)
(***************************************************************************)
EXTENDS Outbox, Notifications, Services, TLC

CONSTANTS
  t1, t2, r1, v1,
  Components \* which of them the run explores
-----------------------------------------------------------------------------
VARIABLE component

\* The file of a complete deployment, and what may be missing in it.
Complete ==
  [NODE_ENV |-> "production", PORT |-> "fixed", CORS_ORIGIN |-> "list", DATABASE_URL |-> "set",
   REDIS_URL |-> "set", SESSION_SECRET |-> "long", SERVICE_JWT_SECRET |-> "long",
   COOKIE_SECURE |-> "yes", PAYMENTS_ENABLED |-> "yes", PAYMENT_PROVIDER |-> "escrow",
   ESCROW |-> "set", ESCROW_ALLOW_TEST_DOUBLE |-> "absent", MPESA_ENABLED |-> "no",
   MPESA |-> "absent", MEDIA_DRIVER |-> "s3", S3 |-> "aliases", AI_SERVICE_BASE_URL |-> "set",
   API_BASE_URL |-> "set", AI_PROVIDER |-> "openai", AI_KEY |-> "set"]
TheFiles ==
  {Complete, [Complete EXCEPT !.PAYMENTS_ENABLED = "no"]}
  \cup
  {[Complete EXCEPT !.NODE_ENV = m, !.SERVICE_JWT_SECRET = j, !.DATABASE_URL = d] :
     m \in {"development", "staging"}, j \in {"absent", "short", "long"}, d \in {"absent", "set"}}
  \cup
  {[Complete EXCEPT !.PAYMENTS_ENABLED = p, !.ESCROW = e, !.ESCROW_ALLOW_TEST_DOUBLE = d,
                    !.PAYMENT_PROVIDER = r, !.MPESA_ENABLED = "yes", !.MPESA = "set"] :
     p \in {"yes", "no"}, e \in {"absent", "blank", "partial"}, d \in {"absent", "yes"},
     r \in {"escrow", "mpesa"}}
  \cup
  {[Complete EXCEPT !.COOKIE_SECURE = c, !.S3 = s, !.AI_SERVICE_BASE_URL = "absent", !.PORT = o] :
     c \in {"yes", "garbled"}, s \in {"partial", "aliases"}, o \in {"fixed", "zero"}}
-----------------------------------------------------------------------------
MCInit ==
  /\ component \in Components
  /\ OutboxInit /\ Init /\ ServicesInit
  /\ component # "services" => file = Complete /\ service = "api" /\ database /\ redis
Only(name) ==
  /\ component = name /\ UNCHANGED component
  /\ name # "outbox" => UNCHANGED outboxVars
  /\ name # "notifications" => UNCHANGED vars
  /\ name # "services" => UNCHANGED serviceVars
MCNext ==
  \/ Only("outbox") /\ OutboxNext
  \/ Only("notifications") /\ Next
  \/ Only("services") /\ ServicesNext
MCSpec == MCInit /\ [][MCNext]_<<component, outboxVars, vars, serviceVars>>
MCFairSpec == MCSpec /\ OutboxFairness /\ Fairness

\* The type invariants of the three.
BackgroundTypeOK == OutboxTypeOK /\ TypeOK /\ ServicesTypeOK
=============================================================================
