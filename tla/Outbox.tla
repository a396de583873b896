------------------------------- MODULE Outbox -------------------------------
(***************************************************************************)
(* outbox_messages and the three that work on them: the worker's publisher *)
(* ticks, which a timer starts whether or not the last one has ended, and  *)
(* requeueFailedOutbox, run by a timer of the worker and by an admin route.*)
(* No statement of theirs shares a transaction with another.               *)
(***************************************************************************)
EXTENDS Naturals, FiniteSets

CONSTANTS
  MaxMessages, \* the messages are 1..MaxMessages, in the order of createdAt
  Publishers,  \* publisher ticks that may overlap
  Requeuers,   \* runs of requeueFailedOutbox that may overlap
  BatchSize,   \* messages taken by one tick
  MaxAttempts, \* the ceiling of requeueFailedOutbox
  Unsafe       \* the ticks whose process or database connection may fail

Messages == 1..MaxMessages

ASSUME OutboxAssumption ==
  /\ MaxMessages \in Nat /\ BatchSize \in Nat \ {0} /\ MaxAttempts \in Nat \ {0}
  /\ Unsafe \subseteq Publishers
  /\ IsFiniteSet(Publishers)

VARIABLES
  state,     \* outbox_messages.status, "none" before the row exists
  tries,     \* outbox_messages.attempts
  handled,   \* the messages whose handler has returned at least once
  tick,      \* the messages a tick has yet to visit, and how far it is with the first
  found      \* what a requeuer has found

outboxVars == <<state, tries, handled, tick, found>>

OutboxTypeOK ==
  /\ state \in [Messages -> {"none", "PENDING", "PUBLISHED", "FAILED"}]
  /\ tries \in [Messages -> Nat]
  /\ handled \subseteq Messages
  /\ tick \in [Publishers -> [pc : {"visit", "returned", "threw"}, todo : SUBSET Messages]]
  /\ found \in [Requeuers -> SUBSET Messages]

Idle == [pc |-> "visit", todo |-> {}]

OutboxInit ==
  /\ state = [m \in Messages |-> "none"]
  /\ tries = [m \in Messages |-> 0]
  /\ handled = {}
  /\ tick = [t \in Publishers |-> Idle]
  /\ found = [r \in Requeuers |-> {}]

\* The transaction of a checkout, an import or an upload inserts the row.
Enqueue(m) ==
  /\ state[m] = "none"
  /\ \A n \in Messages : n < m => state[n] # "none"
  /\ state' = [state EXCEPT ![m] = "PENDING"]
  /\ UNCHANGED <<tries, handled, tick, found>>

-----------------------------------------------------------------------------
(***************************************************************************)
(* publishPendingOutbox.                                                   *)
(***************************************************************************)
Pending == {m \in Messages : state[m] = "PENDING"}

\* Mutant: the limit is applied before the filter.
Due_LimitFirst == {m \in Pending : m <= BatchSize}

\* The oldest PENDING messages.
Due == {m \in Pending : Cardinality({n \in Pending : n < m}) < BatchSize}

Poll(t) ==
  /\ tick[t] = Idle /\ Due # {}
  /\ tick' = [tick EXCEPT ![t].todo = Due]
  /\ UNCHANGED <<state, tries, handled, found>>

\* Tick t is at message m, the oldest it has left.
Holds(t, pc, m) ==
  /\ tick[t].pc = pc
  /\ m \in tick[t].todo
  /\ \A n \in tick[t].todo : m <= n

Handle(t, m) ==
  /\ Holds(t, "visit", m)
  /\ \/ /\ tick' = [tick EXCEPT ![t].pc = "returned"]
        /\ handled' = handled \cup {m}
     \/ tick' = [tick EXCEPT ![t].pc = "threw"] /\ UNCHANGED handled
  /\ UNCHANGED <<state, tries, found>>

\* update ... where id: whatever the status has become meanwhile.
Mark(t, m, new) ==
  /\ state' = [state EXCEPT ![m] = new]
  /\ tries' = [tries EXCEPT ![m] = @ + 1]
  /\ tick' = [tick EXCEPT ![t] = [pc |-> "visit", todo |-> @.todo \ {m}]]
  /\ UNCHANGED <<handled, found>>

MarkPublished(t, m) == Holds(t, "returned", m) /\ Mark(t, m, "PUBLISHED")

\* Mutant: a failed message is marked like any other.
MarkFailed_AsPublished(t, m) == Holds(t, "threw", m) /\ Mark(t, m, "PUBLISHED")

MarkFailed(t, m) == Holds(t, "threw", m) /\ Mark(t, m, "FAILED")

\* The update inside the try fails, or commits and its answer is lost: the message
\* is treated as failed.
UpdateThrows(t, m) ==
  /\ t \in Unsafe /\ Holds(t, "returned", m)
  /\ tick' = [tick EXCEPT ![t].pc = "threw"]
  /\ \/ UNCHANGED <<state, tries>>
     \/ /\ state' = [state EXCEPT ![m] = "PUBLISHED"]
        /\ tries' = [tries EXCEPT ![m] = @ + 1]
  /\ UNCHANGED <<handled, found>>

\* The update inside the catch fails, or the process dies.
TickDies(t) ==
  /\ t \in Unsafe /\ tick[t].todo # {}
  /\ tick' = [tick EXCEPT ![t] = Idle]
  /\ UNCHANGED <<state, tries, handled, found>>

-----------------------------------------------------------------------------
(***************************************************************************)
(* requeueFailedOutbox: a search, then an update that tests again.         *)
(***************************************************************************)
\* Mutant: messages at the ceiling are requeued once more.
Retriable_OffByOne(m) == state[m] = "FAILED" /\ tries[m] <= MaxAttempts

Retriable(m) == state[m] = "FAILED" /\ tries[m] < MaxAttempts

RequeueFind(r) ==
  /\ found[r] = {}
  /\ \E m \in Messages : Retriable(m)
  /\ found' = [found EXCEPT ![r] = {m \in Messages : Retriable(m)}]
  /\ UNCHANGED <<state, tries, handled, tick>>

RequeueUpdate(r) ==
  /\ found[r] # {}
  /\ state' = [m \in Messages |->
                  IF m \in found[r] /\ Retriable(m) THEN "PENDING" ELSE state[m]]
  /\ found' = [found EXCEPT ![r] = {}]
  /\ UNCHANGED <<tries, handled, tick>>

-----------------------------------------------------------------------------
Publish(t) ==
  \/ Poll(t)
  \/ \E m \in Messages : Handle(t, m) \/ MarkPublished(t, m) \/ MarkFailed(t, m)

Fault(t) == TickDies(t) \/ \E m \in Messages : UpdateThrows(t, m)

Requeue(r) == RequeueFind(r) \/ RequeueUpdate(r)

OutboxNext ==
  \/ \E m \in Messages : Enqueue(m)
  \/ \E t \in Publishers : Publish(t) \/ Fault(t)
  \/ \E r \in Requeuers : Requeue(r)

OutboxSpec == OutboxInit /\ [][OutboxNext]_outboxVars

\* Both timers fire for ever, and a sound tick goes on to its end.
OutboxFairness ==
  /\ \A t \in Publishers \ Unsafe : WF_outboxVars(Publish(t))
  /\ \A r \in Requeuers : WF_outboxVars(Requeue(r))

OutboxFairSpec == OutboxSpec /\ OutboxFairness

-----------------------------------------------------------------------------
(***************************************************************************)
(* Properties.                                                             *)
(***************************************************************************)
\* No message is lost: it is PUBLISHED only once its handler has returned, in
\* spite of crashes, overlapping ticks and requeues.
PublishedIsHandled == \A m \in Messages : state[m] = "PUBLISHED" => m \in handled

\* The ceiling holds under overlap: attempts passes MaxAttempts only by what the
\* ticks count that took the message before, a faulty one perhaps twice because the
\* answer of its update was lost.
AttemptsBounded ==
  \A m \in Messages : tries[m] < MaxAttempts + Cardinality(Publishers) + Cardinality(Unsafe)

\* A message at the ceiling is never made PENDING again, though it was below it
\* when the requeuer looked (outbox-recovery.ts, "remain failed").
CeilingIsFinal == \A m \in Messages : state[m] = "PENDING" => tries[m] < MaxAttempts

\* Every message ends up published, or failed at the ceiling for an operator.
OutboxDrains ==
  \A m \in Messages :
    state[m] = "PENDING" ~>
      \/ state[m] = "PUBLISHED"
      \/ state[m] = "FAILED" /\ tries[m] >= MaxAttempts
=============================================================================
