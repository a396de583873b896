--------------------------- MODULE Notifications ---------------------------
(***************************************************************************)
(* notification_intents and the loops that send them: the worker's timer   *)
(* (processNotificationIntents, e-mail only) and the API's                 *)
(* processPendingIntents (every channel).  Ticks overlap: the timer does   *)
(* not wait for the last one.  An intent is claimed, PENDING to            *)
(* PROCESSING, by one conditional update before its provider is called.    *)
(***************************************************************************)
EXTENDS Naturals, FiniteSets

CONSTANTS
  Total,    \* the intents are 1..Total, in the order of createdAt
  Emails,   \* those whose channel is EMAIL
  Ticks,    \* ticks of the worker's timer
  Services, \* runs of processPendingIntents
  Limit,    \* intents taken by one run
  Faulty    \* runs whose process or database connection may fail

Intents == 1..Total
Runs == Ticks \cup Services

ASSUME NotificationsAssumption ==
  /\ Total \in Nat /\ Limit \in Nat \ {0}
  /\ Emails \subseteq Intents
  /\ Ticks \cap Services = {} /\ Faulty \subseteq Runs

VARIABLES
  status,     \* notification_intents.status, "none" before the row exists
  attempts,   \* notification_intents.attempts
  deliveries, \* notification_deliveries: <<intent, attempt>>, the attempt_key
  sends,      \* how often a provider took the message of each intent
  run         \* the rows a run has yet to visit, as it read them, and its place

vars == <<status, attempts, deliveries, sends, run>>

Waiting == [pc |-> "visit", todo |-> {}, seen |-> [i \in Intents |-> 0]]

TypeOK ==
  /\ status \in [Intents -> {"none", "PENDING", "PROCESSING", "DELIVERED", "FAILED"}]
  /\ attempts \in [Intents -> Nat] /\ sends \in [Intents -> Nat]
  /\ deliveries \subseteq Intents \X (Nat \ {0})
  /\ run \in [Runs -> [pc : {"visit", "claimed", "sent", "threw"},
                       todo : SUBSET Intents, seen : [Intents -> Nat]]]

Init ==
  /\ status = [i \in Intents |-> "none"]
  /\ attempts = [i \in Intents |-> 0] /\ sends = [i \in Intents |-> 0]
  /\ deliveries = {}
  /\ run = [r \in Runs |-> Waiting]

\* createIntent: an upsert by idempotency key that leaves an old row as it is.
Create(i) ==
  /\ status[i] = "none"
  /\ \A k \in Intents : k < i => status[k] # "none"
  /\ status' = [status EXCEPT ![i] = "PENDING"]
  /\ UNCHANGED <<attempts, deliveries, sends, run>>

-----------------------------------------------------------------------------
\* The rows a run's search matches.
Eligible(r) == {i \in Intents : status[i] = "PENDING" /\ (r \in Ticks => i \in Emails)}

\* Mutant: the worker takes the oldest rows first and drops other channels after.
Batch_FilterLast(r) ==
  {i \in Eligible(r) : Cardinality({k \in Intents : status[k] = "PENDING" /\ k < i}) < Limit}

Batch(r) == {i \in Eligible(r) : Cardinality({k \in Eligible(r) : k < i}) < Limit}

Find(r) ==
  /\ run[r].todo = {} /\ Batch(r) # {}
  /\ run' = [run EXCEPT ![r] = [pc |-> "visit", todo |-> Batch(r), seen |-> attempts]]
  /\ UNCHANGED <<status, attempts, deliveries, sends>>

Visiting(r, pc, i) ==
  /\ run[r].pc = pc
  /\ i \in run[r].todo
  /\ \A k \in run[r].todo : i <= k

Goto(r, pc) == run' = [run EXCEPT ![r].pc = pc]
Leave(r, i) == run' = [run EXCEPT ![r].pc = "visit", ![r].todo = @ \ {i}]

\* Mutant: the claim does not test the status.
Claim_Unconditional(r, i) ==
  /\ Visiting(r, "visit", i)
  /\ status' = [status EXCEPT ![i] = "PROCESSING"]
  /\ attempts' = [attempts EXCEPT ![i] = @ + 1]
  /\ Goto(r, "claimed")
  /\ UNCHANGED <<deliveries, sends>>

\* updateMany ... where status = 'PENDING': the loser goes on to its next row.
Claim(r, i) ==
  /\ Visiting(r, "visit", i)
  /\ \/ /\ status[i] = "PENDING"
        /\ status' = [status EXCEPT ![i] = "PROCESSING"]
        /\ attempts' = [attempts EXCEPT ![i] = @ + 1]
        /\ Goto(r, "claimed")
     \/ /\ status[i] # "PENDING"
        /\ Leave(r, i)
        /\ UNCHANGED <<status, attempts>>
  /\ UNCHANGED <<deliveries, sends>>

Send(r, i) ==
  /\ Visiting(r, "claimed", i)
  /\ \/ sends' = [sends EXCEPT ![i] = @ + 1] /\ Goto(r, "sent")
     \/ Goto(r, "threw") /\ UNCHANGED sends
  /\ UNCHANGED <<status, attempts, deliveries>>

\* One transaction: the delivery under its attempt_key, and DELIVERED.
RecordSent(r, i) ==
  /\ Visiting(r, "sent", i)
  /\ <<i, run[r].seen[i] + 1>> \notin deliveries
  /\ deliveries' = deliveries \cup {<<i, run[r].seen[i] + 1>>}
  /\ status' = [status EXCEPT ![i] = "DELIVERED"]
  /\ Leave(r, i)
  /\ UNCHANGED <<attempts, sends>>

\* That transaction fails, as it must when the attempt_key is taken; or it commits
\* and the answer is lost.
RecordThrows(r, i) ==
  LET key == <<i, run[r].seen[i] + 1>> IN
  /\ Visiting(r, "sent", i)
  /\ \/ (r \in Faulty \/ key \in deliveries) /\ UNCHANGED <<status, deliveries>>
     \/ /\ r \in Faulty /\ key \notin deliveries
        /\ deliveries' = deliveries \cup {key}
        /\ status' = [status EXCEPT ![i] = "DELIVERED"]
  /\ Goto(r, "threw")
  /\ UNCHANGED <<attempts, sends>>

RecordFailed(r, i) ==
  /\ Visiting(r, "threw", i)
  /\ status' = [status EXCEPT ![i] = "FAILED"]
  /\ Leave(r, i)
  /\ UNCHANGED <<attempts, deliveries, sends>>

\* The process dies, or an update outside the try fails and ends the run.
Crash(r) ==
  /\ r \in Faulty /\ run[r].todo # {}
  /\ run' = [run EXCEPT ![r] = Waiting]
  /\ UNCHANGED <<status, attempts, deliveries, sends>>

-----------------------------------------------------------------------------
Step(r) ==
  \/ Find(r)
  \/ \E i \in Intents :
       Claim(r, i) \/ Send(r, i) \/ RecordSent(r, i) \/ RecordThrows(r, i) \/ RecordFailed(r, i)

Next ==
  \/ \E i \in Intents : Create(i)
  \/ \E r \in Runs : Step(r) \/ Crash(r)

Spec == Init /\ [][Next]_vars

\* The worker's timer fires for ever, a run of the API may never be asked for, and
\* a sound run goes on to its end, another one until it dies.
Fairness ==
  /\ \A r \in Ticks \ Faulty : WF_vars(Step(r))
  /\ \A r \in Services \ Faulty : WF_vars(Step(r) /\ run[r].todo # {})
  /\ \A r \in Faulty : WF_vars((Step(r) \/ Crash(r)) /\ run[r].todo # {})

FairSpec == Spec /\ Fairness

-----------------------------------------------------------------------------
\* No customer is told twice: however the runs of worker and API overlap and
\* crash, a provider takes the message of an intent at most once.
SentOnce == \A i \in Intents : sends[i] <= 1

\* A DELIVERED intent has a delivery, and a delivery is of a message that was sent
\* and carries the number of its attempt, though it is computed from a row read
\* before the claim.
DeliveriesAreExact ==
  /\ \A i \in Intents : status[i] = "DELIVERED" => \E d \in deliveries : d[1] = i
  /\ \A d \in deliveries : sends[d[1]] = 1 /\ d[2] = attempts[d[1]]

\* A run that died after its claim has left the intent to nobody.
Abandoned(i) ==
  /\ status[i] = "PROCESSING"
  /\ \A r \in Runs, pc \in {"claimed", "sent", "threw"} : ~Visiting(r, pc, i)

\* No e-mail waits for ever behind other rows or behind a run that failed: it is
\* sent or marked FAILED, unless the run that claimed it died.
EmailsEndUnlessAbandoned ==
  \A i \in Intents :
    status[i] = "PENDING" /\ i \in Emails ~> status[i] \in {"DELIVERED", "FAILED"} \/ Abandoned(i)

\* Every e-mail is sent or marked FAILED in the end (ADR-0014, section 12).
EmailsEnd ==
  \A i \in Intents :
    status[i] = "PENDING" /\ i \in Emails ~> status[i] \in {"DELIVERED", "FAILED"}

\* A failed e-mail is tried again (ADR-0014, sections 8 and 12).
FailedIsRetried ==
  \A i \in Intents : status[i] = "FAILED" /\ i \in Emails ~> status[i] # "FAILED"
=============================================================================
