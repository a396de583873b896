-------------------------- MODULE BackgroundProofs --------------------------
(***************************************************************************)
(* Proofs about what runs behind the requests: Outbox for any number of    *)
(* messages, ticks and requeuers, Notifications for any number of intents, *)
(* ticks and runs, Services for any environment files.                     *)
(***************************************************************************)
EXTENDS Outbox, Notifications, Services, FiniteSetTheorems, TLAPS

-----------------------------------------------------------------------------
(***************************************************************************)
(* Outbox.                                                                 *)
(***************************************************************************)
\* The ticks that have taken message m, and those of them that have not yet
\* given it up as failed and may lose the answer of their update.
Holders(m) == {t \in Publishers : m \in tick[t].todo}
Unthrown(m) == {t \in Unsafe : m \in tick[t].todo /\ ~Holds(t, "threw", m)}

\* What each holder may still add to the attempts of m is counted in advance.
Debt(m) == Cardinality(Holders(m)) + Cardinality(Unthrown(m))

ReturnedIsHandled ==
  \A t \in Publishers, m \in Messages : Holds(t, "returned", m) => m \in handled

DebtBounded ==
  \A m \in Messages : tries[m] + Debt(m) < MaxAttempts + Cardinality(Publishers) + Cardinality(Unsafe)

\* A row that is not there has no attempts.
UncreatedIsUntried == \A m \in Messages : state[m] = "none" => tries[m] = 0

OutboxInv ==
  /\ OutboxTypeOK
  /\ UncreatedIsUntried
  /\ ReturnedIsHandled
  /\ PublishedIsHandled
  /\ CeilingIsFinal
  /\ DebtBounded

LEMMA TicksFinite ==
  /\ IsFiniteSet(Publishers) /\ Cardinality(Publishers) \in Nat
  /\ Unsafe \in SUBSET Publishers /\ Cardinality(Unsafe) \in Nat
  BY OutboxAssumption, FS_CardinalityType, FS_Subset

LEMMA LimitsType == MaxAttempts \in Nat \ {0} /\ Messages \subseteq Nat
  BY OutboxAssumption DEF Messages

\* Sets of ticks, and how their cardinalities compare.
LEMMA TickSets ==
  ASSUME NEW A \in SUBSET Publishers
  PROVE  /\ Cardinality(A) \in Nat
         /\ Cardinality(A) <= Cardinality(Publishers)
         /\ \A B \in SUBSET A : Cardinality(B) <= Cardinality(A)
         /\ \A t \in A : Cardinality(A \ {t}) = Cardinality(A) - 1
<1>1. IsFiniteSet(A) /\ Cardinality(A) <= Cardinality(Publishers)
  BY TicksFinite, FS_Subset
<1>2. Cardinality(A) \in Nat
  BY <1>1, FS_CardinalityType
<1>3. \A B \in SUBSET A : Cardinality(B) <= Cardinality(A)
  BY <1>1, FS_Subset
<1>4. \A t \in A : Cardinality(A \ {t}) = Cardinality(A) - 1
  BY <1>1, FS_RemoveElement
<1> QED
  BY <1>1, <1>2, <1>3, <1>4

\* A tick visits one message at a time.
LEMMA OneTickVisit ==
  ASSUME OutboxTypeOK, NEW t \in Publishers, NEW m \in Messages, NEW n \in Messages,
         NEW place, NEW qc, Holds(t, place, m), Holds(t, qc, n)
  PROVE  m = n
  BY LimitsType DEF Holds, OutboxTypeOK

LEMMA InitIInv == OutboxInit => OutboxInv
<1> SUFFICES ASSUME OutboxInit PROVE OutboxInv
  OBVIOUS
<1>1. OutboxTypeOK
  BY DEF OutboxInit, OutboxTypeOK, Idle
<1>2. ReturnedIsHandled /\ PublishedIsHandled /\ CeilingIsFinal /\ UncreatedIsUntried
  BY DEF OutboxInit, UncreatedIsUntried, ReturnedIsHandled, PublishedIsHandled, CeilingIsFinal, Holds, Idle
<1>3. ASSUME NEW m \in Messages
      PROVE  tries[m] + Debt(m) < MaxAttempts + Cardinality(Publishers) + Cardinality(Unsafe)
  <2>1. Holders(m) = {} /\ Unthrown(m) = {}
    BY TicksFinite DEF OutboxInit, Holders, Unthrown, Idle
  <2>2. tries[m] + Debt(m) = 0
    BY <2>1, FS_EmptySet DEF OutboxInit, Debt
  <2> QED
    BY <2>2, LimitsType, TicksFinite
<1> QED
  BY <1>1, <1>2, <1>3 DEF OutboxInv, DebtBounded

-----------------------------------------------------------------------------
\* Every step keeps the types.
LEMMA NextType == OutboxTypeOK /\ [OutboxNext]_outboxVars => OutboxTypeOK'
<1> SUFFICES ASSUME OutboxTypeOK, [OutboxNext]_outboxVars PROVE OutboxTypeOK'
  OBVIOUS
<1> USE DEF OutboxTypeOK
<1>1. ASSUME NEW m \in Messages, Enqueue(m) PROVE OutboxTypeOK'
  BY <1>1 DEF Enqueue
<1>2. ASSUME NEW t \in Publishers, Poll(t) PROVE OutboxTypeOK'
  BY <1>2 DEF Poll, Due, Pending
<1>3. ASSUME NEW t \in Publishers, NEW m \in Messages, Handle(t, m) PROVE OutboxTypeOK'
  BY <1>3 DEF Handle
<1>4. ASSUME NEW t \in Publishers, NEW m \in Messages, NEW new \in {"PUBLISHED", "FAILED"},
             Mark(t, m, new)
      PROVE  OutboxTypeOK'
  BY <1>4 DEF Mark
<1>5. ASSUME NEW t \in Publishers, NEW m \in Messages, UpdateThrows(t, m) PROVE OutboxTypeOK'
  BY <1>5 DEF UpdateThrows
<1>6. ASSUME NEW t \in Publishers, TickDies(t) PROVE OutboxTypeOK'
  BY <1>6 DEF TickDies, Idle
<1>7. ASSUME NEW r \in Requeuers, RequeueFind(r) PROVE OutboxTypeOK'
  BY <1>7 DEF RequeueFind
<1>8. ASSUME NEW r \in Requeuers, RequeueUpdate(r) PROVE OutboxTypeOK'
  BY <1>8 DEF RequeueUpdate
<1>9. CASE UNCHANGED outboxVars
  BY <1>9 DEF outboxVars
<1> QED
  BY <1>1, <1>2, <1>3, <1>4, <1>5, <1>6, <1>7, <1>8, <1>9
     DEF OutboxNext, Publish, Fault, Requeue, MarkPublished, MarkFailed

\* Nothing is PUBLISHED before a handler returned, and a tick that is about to
\* publish has seen one return.
LEMMA NextHandled == OutboxInv /\ [OutboxNext]_outboxVars => ReturnedIsHandled' /\ PublishedIsHandled'
<1> SUFFICES ASSUME OutboxInv, [OutboxNext]_outboxVars PROVE ReturnedIsHandled' /\ PublishedIsHandled'
  OBVIOUS
<1> USE DEF OutboxInv, OutboxTypeOK, ReturnedIsHandled, PublishedIsHandled, Holds
<1>1. ASSUME NEW m \in Messages, Enqueue(m) PROVE ReturnedIsHandled' /\ PublishedIsHandled'
  BY <1>1 DEF Enqueue
<1>2. ASSUME NEW t \in Publishers, Poll(t) PROVE ReturnedIsHandled' /\ PublishedIsHandled'
  BY <1>2 DEF Poll, Idle
<1>3. ASSUME NEW t \in Publishers, NEW m \in Messages, Handle(t, m)
      PROVE  ReturnedIsHandled' /\ PublishedIsHandled'
  <2>1. PublishedIsHandled' /\ handled \subseteq handled'
    BY <1>3 DEF Handle
  <2>2. ASSUME NEW u \in Publishers, NEW n \in Messages, Holds(u, "returned", n)'
        PROVE  n \in handled'
    <3>1. CASE u = t
      <4>1. tick'[t].todo = tick[t].todo /\ tick'[t].pc \in {"returned", "threw"}
        BY <1>3 DEF Handle
      <4>2. n = m /\ tick'[t].pc = "returned"
        <5>1. m \in tick[t].todo /\ \A k \in tick[t].todo : m <= k
          BY <1>3 DEF Handle
        <5>2. n \in tick[t].todo /\ (\A k \in tick[t].todo : n <= k) /\ tick'[t].pc = "returned"
          BY <2>2, <3>1, <4>1
        <5>3. m <= n /\ n <= m
          BY <5>1, <5>2
        <5> QED
          BY <5>2, <5>3, LimitsType
      <4>3. tick' # [tick EXCEPT ![t].pc = "threw"]
        BY <4>2
      <4> QED
        BY <1>3, <4>2, <4>3 DEF Handle
    <3>2. CASE u # t
      <4>1. tick'[u] = tick[u]
        BY <1>3, <3>2 DEF Handle
      <4> QED
        BY <2>1, <2>2, <4>1
    <3> QED
      BY <3>1, <3>2
  <2> QED
    BY <2>1, <2>2
<1>4. ASSUME NEW t \in Publishers, NEW m \in Messages, MarkPublished(t, m)
      PROVE  ReturnedIsHandled' /\ PublishedIsHandled'
  BY <1>4 DEF MarkPublished, Mark
<1>5. ASSUME NEW t \in Publishers, NEW m \in Messages, MarkFailed(t, m)
      PROVE  ReturnedIsHandled' /\ PublishedIsHandled'
  BY <1>5 DEF MarkFailed, Mark
<1>6. ASSUME NEW t \in Publishers, NEW m \in Messages, UpdateThrows(t, m)
      PROVE  ReturnedIsHandled' /\ PublishedIsHandled'
  BY <1>6 DEF UpdateThrows
<1>7. ASSUME NEW t \in Publishers, TickDies(t) PROVE ReturnedIsHandled' /\ PublishedIsHandled'
  BY <1>7 DEF TickDies, Idle
<1>8. ASSUME NEW r \in Requeuers, Requeue(r) PROVE ReturnedIsHandled' /\ PublishedIsHandled'
  BY <1>8 DEF Requeue, RequeueFind, RequeueUpdate, Retriable
<1>9. CASE UNCHANGED outboxVars
  BY <1>9 DEF outboxVars
<1> QED
  BY <1>1, <1>2, <1>3, <1>4, <1>5, <1>6, <1>7, <1>8, <1>9 DEF OutboxNext, Publish, Fault

\* A step that counts an attempt leaves the message PUBLISHED or FAILED, and a
\* requeue tests the ceiling again.
LEMMA NextCeiling == OutboxInv /\ [OutboxNext]_outboxVars => CeilingIsFinal' /\ UncreatedIsUntried'
<1> SUFFICES ASSUME OutboxInv, [OutboxNext]_outboxVars PROVE CeilingIsFinal' /\ UncreatedIsUntried'
  OBVIOUS
<1> USE DEF OutboxInv, OutboxTypeOK, CeilingIsFinal, UncreatedIsUntried
<1>1. ASSUME NEW m \in Messages, Enqueue(m) PROVE CeilingIsFinal' /\ UncreatedIsUntried'
  BY <1>1, LimitsType DEF Enqueue
<1>2. ASSUME NEW t \in Publishers, NEW m \in Messages, MarkPublished(t, m) \/ MarkFailed(t, m)
      PROVE  CeilingIsFinal' /\ UncreatedIsUntried'
  BY <1>2 DEF MarkPublished, MarkFailed, Mark
<1>3. ASSUME NEW t \in Publishers, NEW m \in Messages, UpdateThrows(t, m) PROVE CeilingIsFinal' /\ UncreatedIsUntried'
  BY <1>3 DEF UpdateThrows
<1>4. ASSUME NEW r \in Requeuers, RequeueUpdate(r) PROVE CeilingIsFinal' /\ UncreatedIsUntried'
  BY <1>4 DEF RequeueUpdate, Retriable
<1>5. CASE UNCHANGED <<state, tries>>
  BY <1>5
<1> QED
  BY <1>1, <1>2, <1>3, <1>4, <1>5
     DEF OutboxNext, Publish, Fault, Requeue, Poll, Handle, TickDies, RequeueFind, outboxVars

-----------------------------------------------------------------------------
\* The debt of a message covers every attempt still to be counted.

\* A message's debt is bounded by the number of ticks, before and after a step.
LEMMA DebtType ==
  ASSUME NEW m \in Messages
  PROVE  /\ Debt(m) \in Nat /\ Debt(m) <= Cardinality(Publishers) + Cardinality(Unsafe)
         /\ Debt(m)' \in Nat /\ Debt(m)' <= Cardinality(Publishers) + Cardinality(Unsafe)
<1>1. /\ Holders(m) \in SUBSET Publishers /\ Unthrown(m) \in SUBSET Unsafe
      /\ Holders(m)' \in SUBSET Publishers /\ Unthrown(m)' \in SUBSET Unsafe
  BY DEF Holders, Unthrown
<1>2. \A A \in SUBSET Publishers : Cardinality(A) \in Nat /\ Cardinality(A) <= Cardinality(Publishers)
  BY TickSets
<1>3. \A A \in SUBSET Unsafe : Cardinality(A) \in Nat /\ Cardinality(A) <= Cardinality(Unsafe)
  BY TickSets, TicksFinite
<1> QED
  BY <1>1, <1>2, <1>3, TicksFinite DEF Debt

\* A tick that lets go of messages, or gives one up, owes no more than before.
LEMMA DebtShrinks ==
  ASSUME NEW m \in Messages,
         Holders(m)' \subseteq Holders(m), Unthrown(m)' \subseteq Unthrown(m)
  PROVE  Debt(m)' <= Debt(m)
<1>1. /\ Holders(m) \in SUBSET Publishers /\ Unthrown(m) \in SUBSET Publishers
      /\ Holders(m)' \in SUBSET Publishers /\ Unthrown(m)' \in SUBSET Publishers
  BY TicksFinite DEF Unthrown, Holders
<1>2. /\ Cardinality(Holders(m)') <= Cardinality(Holders(m))
      /\ Cardinality(Unthrown(m)') <= Cardinality(Unthrown(m))
  BY <1>1, TickSets
<1>3. /\ Cardinality(Holders(m)) \in Nat /\ Cardinality(Unthrown(m)) \in Nat
      /\ Cardinality(Holders(m)') \in Nat /\ Cardinality(Unthrown(m)') \in Nat
  BY <1>1, TickSets
<1> QED
  BY <1>2, <1>3 DEF Debt

\* It owes one less when a tick leaves either set.
LEMMA DebtPaid ==
  ASSUME NEW m \in Messages, NEW t,
         Holders(m)' \subseteq Holders(m), Unthrown(m)' \subseteq Unthrown(m),
         \/ t \in Holders(m) /\ t \notin Holders(m)'
         \/ t \in Unthrown(m) /\ t \notin Unthrown(m)'
  PROVE  Debt(m)' <= Debt(m) - 1
<1>1. /\ Unthrown(m) \in SUBSET Publishers /\ Unthrown(m)' \in SUBSET Publishers
      /\ Holders(m) \in SUBSET Publishers /\ Holders(m)' \in SUBSET Publishers
  BY TicksFinite DEF Unthrown, Holders
<1>2. /\ Cardinality(Holders(m)) \in Nat /\ Cardinality(Unthrown(m)) \in Nat
      /\ Cardinality(Holders(m)') \in Nat /\ Cardinality(Unthrown(m)') \in Nat
  BY <1>1, TickSets
<1>3. /\ Cardinality(Holders(m)') <= Cardinality(Holders(m))
      /\ Cardinality(Unthrown(m)') <= Cardinality(Unthrown(m))
  BY <1>1, TickSets
<1>4. CASE t \in Holders(m) /\ t \notin Holders(m)'
  <2>1. Cardinality(Holders(m) \ {t}) = Cardinality(Holders(m)) - 1
    BY <1>1, <1>4, TickSets
  <2>2. Holders(m)' \in SUBSET (Holders(m) \ {t}) /\ Holders(m) \ {t} \in SUBSET Publishers
    BY <1>1, <1>4
  <2>3. Cardinality(Holders(m)') <= Cardinality(Holders(m) \ {t})
    BY <2>2, TickSets
  <2> QED
    BY <1>2, <1>3, <2>1, <2>3 DEF Debt
<1>5. CASE t \in Unthrown(m) /\ t \notin Unthrown(m)'
  <2>1. Cardinality(Unthrown(m) \ {t}) = Cardinality(Unthrown(m)) - 1
    BY <1>1, <1>5, TickSets
  <2>2. Unthrown(m)' \in SUBSET (Unthrown(m) \ {t}) /\ Unthrown(m) \ {t} \in SUBSET Publishers
    BY <1>1, <1>5
  <2>3. Cardinality(Unthrown(m)') <= Cardinality(Unthrown(m) \ {t})
    BY <2>2, TickSets
  <2> QED
    BY <1>2, <1>3, <2>1, <2>3 DEF Debt
<1> QED
  BY <1>4, <1>5

LEMMA NextDebt == OutboxInv /\ [OutboxNext]_outboxVars => DebtBounded'
<1> SUFFICES ASSUME OutboxInv, [OutboxNext]_outboxVars, NEW n \in Messages
             PROVE  tries'[n] + Debt(n)' < MaxAttempts + Cardinality(Publishers) + Cardinality(Unsafe)
  BY DEF DebtBounded
<1>a. tries[n] \in Nat /\ tries'[n] \in Nat
  BY NextType DEF OutboxInv, OutboxTypeOK
<1>b. tries[n] + Debt(n) < MaxAttempts + Cardinality(Publishers) + Cardinality(Unsafe)
  BY DEF OutboxInv, DebtBounded
<1>c. Debt(n) \in Nat /\ Debt(n)' \in Nat /\ Debt(n)' <= Cardinality(Publishers) + Cardinality(Unsafe)
  BY DebtType
<1>1. CASE tries'[n] = tries[n] /\ Debt(n)' <= Debt(n)
  BY <1>1, <1>a, <1>b, <1>c, LimitsType, TicksFinite
<1>2. CASE tries'[n] <= tries[n] + 1 /\ Debt(n)' <= Debt(n) - 1
  BY <1>2, <1>a, <1>b, <1>c, LimitsType, TicksFinite
<1>3. CASE UNCHANGED <<tries, tick>>
  <2>1. Debt(n)' = Debt(n)
    BY <1>3 DEF Debt, Holders, Unthrown, Holds
  <2> QED
    BY <1>3, <2>1, <1>b
<1>4. ASSUME NEW t \in Publishers, Poll(t)
      PROVE  tries'[n] + Debt(n)' < MaxAttempts + Cardinality(Publishers) + Cardinality(Unsafe)
  <2>1. CASE n \in Due
    <3>1. tries'[n] < MaxAttempts
      BY <1>4, <2>1 DEF Poll, Due, Pending, OutboxInv, CeilingIsFinal
    <3> QED
      BY <3>1, <1>a, <1>c, LimitsType, TicksFinite
  <2>2. CASE n \notin Due
    <3>1. Holders(n)' \subseteq Holders(n) /\ Unthrown(n)' \subseteq Unthrown(n)
      BY <1>4, <2>2, TicksFinite DEF Poll, Holders, Unthrown, Holds, OutboxInv, OutboxTypeOK
    <3>2. tries'[n] = tries[n]
      BY <1>4 DEF Poll
    <3> QED
      BY <1>1, <3>1, <3>2, DebtShrinks
  <2> QED
    BY <2>1, <2>2
<1>5. ASSUME NEW t \in Publishers, NEW m \in Messages, Handle(t, m)
      PROVE  tries'[n] + Debt(n)' < MaxAttempts + Cardinality(Publishers) + Cardinality(Unsafe)
  <2>1. Holders(n)' \subseteq Holders(n) /\ Unthrown(n)' \subseteq Unthrown(n)
    BY <1>5, TicksFinite, SMTT(30) DEF Handle, Holders, Unthrown, Holds, OutboxInv, OutboxTypeOK
  <2>2. tries'[n] = tries[n]
    BY <1>5 DEF Handle
  <2> QED
    BY <1>1, <2>1, <2>2, DebtShrinks
<1>6. ASSUME NEW t \in Publishers, NEW m \in Messages, NEW new, NEW place,
             Holds(t, place, m), Mark(t, m, new)
      PROVE  tries'[n] + Debt(n)' < MaxAttempts + Cardinality(Publishers) + Cardinality(Unsafe)
  <2>1. Holders(n)' \subseteq Holders(n)
    BY <1>6 DEF Mark, Holders, OutboxInv, OutboxTypeOK
  <2>2. ASSUME NEW u \in Unthrown(n)' PROVE u \in Unthrown(n)
    <3>1. CASE u # t
      BY <1>6, <2>2, <3>1 DEF Mark, Unthrown, Holds, OutboxInv, OutboxTypeOK
    <3>2. CASE u = t
      <4>1. n \in tick[t].todo /\ n # m
        BY <1>6, <2>2, <3>2 DEF Mark, Unthrown, OutboxInv, OutboxTypeOK
      <4>2. ~Holds(t, "threw", n)
        BY <1>6, <4>1, OneTickVisit DEF OutboxInv
      <4> QED
        BY <3>2, <4>1, <4>2 DEF Unthrown
    <3> QED
      BY <3>1, <3>2
  <2>3. CASE n # m
    <3>1. tries'[n] = tries[n]
      BY <1>6, <2>3 DEF Mark, OutboxInv, OutboxTypeOK
    <3> QED
      BY <1>1, <2>1, <2>2, <3>1, DebtShrinks
  <2>4. CASE n = m
    <3>1. tries'[n] <= tries[n] + 1
      BY <1>6, <2>4 DEF Mark, OutboxInv, OutboxTypeOK
    <3>2. t \in Holders(n) /\ t \notin Holders(n)'
      BY <1>6, <2>4 DEF Mark, Holds, Holders, OutboxInv, OutboxTypeOK
    <3> QED
      BY <1>2, <2>1, <2>2, <3>1, <3>2, DebtPaid
  <2> QED
    BY <2>3, <2>4
<1>7. ASSUME NEW t \in Publishers, NEW m \in Messages, UpdateThrows(t, m)
      PROVE  tries'[n] + Debt(n)' < MaxAttempts + Cardinality(Publishers) + Cardinality(Unsafe)
  <2>1. Holders(n)' \subseteq Holders(n) /\ Unthrown(n)' \subseteq Unthrown(n)
    BY <1>7, TicksFinite DEF UpdateThrows, Holders, Unthrown, Holds, OutboxInv, OutboxTypeOK
  <2>2. CASE n # m
    <3>1. tries'[n] = tries[n]
      BY <1>7, <2>2 DEF UpdateThrows, OutboxInv, OutboxTypeOK
    <3> QED
      BY <1>1, <2>1, <3>1, DebtShrinks
  <2>3. CASE n = m
    <3>1. tries'[n] <= tries[n] + 1
      BY <1>7, <2>3, <1>a DEF UpdateThrows, OutboxInv, OutboxTypeOK
    <3>2. t \in Unthrown(n) /\ t \notin Unthrown(n)'
      BY <1>7, <2>3, TicksFinite DEF UpdateThrows, Holds, Unthrown, OutboxInv, OutboxTypeOK
    <3> QED
      BY <1>2, <2>1, <3>1, <3>2, DebtPaid
  <2> QED
    BY <2>2, <2>3
<1>8. ASSUME NEW t \in Publishers, TickDies(t)
      PROVE  tries'[n] + Debt(n)' < MaxAttempts + Cardinality(Publishers) + Cardinality(Unsafe)
  <2>1. Holders(n)' \subseteq Holders(n) /\ Unthrown(n)' \subseteq Unthrown(n)
    BY <1>8, TicksFinite DEF TickDies, Idle, Holders, Unthrown, Holds, OutboxInv, OutboxTypeOK
  <2>2. tries'[n] = tries[n]
    BY <1>8 DEF TickDies
  <2> QED
    BY <1>1, <2>1, <2>2, DebtShrinks
<1>9. CASE \E m \in Messages : Enqueue(m)
  BY <1>3, <1>9 DEF Enqueue
<1>10. CASE \E r \in Requeuers : Requeue(r)
  BY <1>3, <1>10 DEF Requeue, RequeueFind, RequeueUpdate
<1>11. CASE UNCHANGED outboxVars
  BY <1>3, <1>11 DEF outboxVars
<1>12. CASE \E t \in Publishers : Publish(t)
  BY <1>4, <1>5, <1>6, <1>12 DEF Publish, MarkPublished, MarkFailed
<1>13. CASE \E t \in Publishers : Fault(t)
  BY <1>7, <1>8, <1>13 DEF Fault
<1> QED
  BY <1>9, <1>10, <1>11, <1>12, <1>13 DEF OutboxNext

-----------------------------------------------------------------------------
LEMMA NextIInv == OutboxInv /\ [OutboxNext]_outboxVars => OutboxInv'
  BY NextType, NextHandled, NextCeiling, NextDebt DEF OutboxInv

THEOREM OutboxInvariance == OutboxSpec => []OutboxInv
  BY InitIInv, NextIInv, PTL DEF OutboxSpec

\* The rows, the ticks and the requeuers keep their types.
THEOREM OutboxTypes == OutboxSpec => []OutboxTypeOK
  BY OutboxInvariance, PTL DEF OutboxInv

\* No message is lost, for any overlap and any crashes: PUBLISHED only after its
\* handler has returned.
THEOREM NothingLost == OutboxSpec => []PublishedIsHandled
  BY OutboxInvariance, PTL DEF OutboxInv

\* A message that has reached the ceiling is never requeued.
THEOREM CeilingHolds == OutboxSpec => []CeilingIsFinal
  BY OutboxInvariance, PTL DEF OutboxInv

LEMMA DebtImpliesBound == OutboxInv => AttemptsBounded
<1> SUFFICES ASSUME OutboxInv, NEW m \in Messages
             PROVE  tries[m] < MaxAttempts + Cardinality(Publishers) + Cardinality(Unsafe)
  BY DEF AttemptsBounded
<1>1. tries[m] \in Nat /\ tries[m] + Debt(m) < MaxAttempts + Cardinality(Publishers) + Cardinality(Unsafe)
  BY DEF OutboxInv, OutboxTypeOK, DebtBounded
<1> QED
  BY <1>1, DebtType, LimitsType, TicksFinite

\* The number of attempts is bounded by the ceiling and the number of overlapping
\* ticks alone.
THEOREM BoundedAttempts == OutboxSpec => []AttemptsBounded
  BY OutboxInvariance, DebtImpliesBound, PTL

-----------------------------------------------------------------------------
(***************************************************************************)
(* Notifications.                                                          *)
(***************************************************************************)
\* The run that has claimed intent i and is not through with it.
Holder(r, i) == \E place \in {"claimed", "sent", "threw"} : Visiting(r, place, i)
Untried(i) == status[i] \in {"none", "PENDING"}
Undelivered(i) == \A d \in deliveries : d[1] # i

\* No intent goes back to PENDING, so its one attempt is told by its status ...
UntriedIsUntouched ==
  \A i \in Intents : Untried(i) => attempts[i] = 0 /\ sends[i] = 0 /\ Undelivered(i)
TriedOnce == \A i \in Intents : ~Untried(i) => attempts[i] = 1
\* ... and a run read the row before that attempt.
SeenUntried == \A r \in Runs : \A i \in run[r].todo : run[r].seen[i] = 0

\* The claim lets one run through, and what that run has still to do is not done yet.
OneHolder == \A r, s \in Runs, i \in Intents : Holder(r, i) /\ Holder(s, i) => r = s
HeldIsTried == \A r \in Runs, i \in Intents : Holder(r, i) => ~Untried(i)
ClaimedIsUnsent ==
  \A r \in Runs, i \in Intents : Visiting(r, "claimed", i) => sends[i] = 0 /\ Undelivered(i)
SentIsUndelivered ==
  \A r \in Runs, i \in Intents : Visiting(r, "sent", i) => sends[i] = 1 /\ Undelivered(i)

Attempts == UntriedIsUntouched /\ TriedOnce /\ SeenUntried
HoldersOK == OneHolder /\ HeldIsTried /\ ClaimedIsUnsent /\ SentIsUndelivered
NotifyInv == TypeOK /\ Attempts /\ HoldersOK /\ SentOnce /\ DeliveriesAreExact

\* A run visits one row at a time.
LEMMA OneRunVisit ==
  ASSUME TypeOK, NEW r \in Runs, NEW i \in Intents, NEW k \in Intents, NEW p, NEW q,
         Visiting(r, p, i), Visiting(r, q, k)
  PROVE  i = k /\ p = q
  BY DEF Visiting, TypeOK, Intents

\* What a row and a run's place look like after one run moved to place, or left its row.
LEMMA Moved ==
  ASSUME TypeOK, NEW r \in Runs, NEW i \in Intents, NEW place \in {"claimed", "sent", "threw"},
         NEW p, Visiting(r, p, i), Goto(r, place)
  PROVE  /\ run' \in [Runs -> [pc : {"visit", "claimed", "sent", "threw"},
                               todo : SUBSET Intents, seen : [Intents -> Nat]]]
         /\ \A s \in Runs : run'[s].todo = run[s].todo /\ run'[s].seen = run[s].seen
         /\ \A s \in Runs, k \in Intents, q \in {"claimed", "sent", "threw"} :
              Visiting(s, q, k)' <=> IF s = r THEN q = place /\ k = i ELSE Visiting(s, q, k)
<1>1. run[r] \in [pc : {"visit", "claimed", "sent", "threw"},
                  todo : SUBSET Intents, seen : [Intents -> Nat]]
  BY DEF TypeOK
<1>2. /\ run'[r].pc = place /\ run'[r].todo = run[r].todo /\ run'[r].seen = run[r].seen
      /\ \A s \in Runs \ {r} : run'[s] = run[s]
  BY <1>1 DEF Goto, TypeOK
<1>3. run' \in [Runs -> [pc : {"visit", "claimed", "sent", "threw"},
                         todo : SUBSET Intents, seen : [Intents -> Nat]]]
  BY ZenonT(40) DEF Goto, TypeOK
<1>4. ASSUME NEW s \in Runs, NEW k \in Intents, NEW q \in {"claimed", "sent", "threw"}
      PROVE  Visiting(s, q, k)' <=> IF s = r THEN q = place /\ k = i ELSE Visiting(s, q, k)
  <2>1. CASE s = r
    <3>1. run[r].todo \subseteq Intents /\ i \in run[r].todo /\ \A j \in run[r].todo : i <= j
      BY DEF Visiting, TypeOK
    <3> QED
      BY <1>2, <2>1, <3>1 DEF Visiting, Intents
  <2>2. CASE s # r
    BY <1>2, <2>2 DEF Visiting
  <2> QED
    BY <2>1, <2>2
<1> QED
  BY <1>2, <1>3, <1>4

LEMMA Left ==
  ASSUME TypeOK, NEW r \in Runs, NEW i \in Intents, Leave(r, i)
  PROVE  /\ run' \in [Runs -> [pc : {"visit", "claimed", "sent", "threw"},
                               todo : SUBSET Intents, seen : [Intents -> Nat]]]
         /\ \A s \in Runs : run'[s].todo \subseteq run[s].todo /\ run'[s].seen = run[s].seen
         /\ \A s \in Runs, k \in Intents, q \in {"claimed", "sent", "threw"} :
              Visiting(s, q, k)' <=> s # r /\ Visiting(s, q, k)
<1>1. run[r] \in [pc : {"visit", "claimed", "sent", "threw"},
                  todo : SUBSET Intents, seen : [Intents -> Nat]]
  BY DEF TypeOK
<1>2. /\ run'[r].pc = "visit" /\ run'[r].todo = run[r].todo \ {i} /\ run'[r].seen = run[r].seen
      /\ \A s \in Runs \ {r} : run'[s] = run[s]
  BY <1>1 DEF Leave, TypeOK
<1>3. run' \in [Runs -> [pc : {"visit", "claimed", "sent", "threw"},
                         todo : SUBSET Intents, seen : [Intents -> Nat]]]
  BY ZenonT(40) DEF Leave, TypeOK
<1>4. ASSUME NEW s \in Runs, NEW k \in Intents, NEW q \in {"claimed", "sent", "threw"}
      PROVE  Visiting(s, q, k)' <=> s # r /\ Visiting(s, q, k)
  BY <1>2 DEF Visiting
<1> QED
  BY <1>2, <1>3, <1>4

LEMMA InitInv == Init => NotifyInv
<1> SUFFICES ASSUME Init PROVE NotifyInv
  OBVIOUS
<1>1. TypeOK
  BY DEF Init, TypeOK, Waiting
<1>2. \A r \in Runs : run[r].todo = {}
  BY DEF Init, Waiting
<1>3. \A i \in Intents : Untried(i) /\ Undelivered(i) /\ attempts[i] = 0 /\ sends[i] = 0
  BY DEF Init, Untried, Undelivered
<1>4. \A r \in Runs, i \in Intents, place \in {"claimed", "sent", "threw"} : ~Visiting(r, place, i)
  BY <1>2 DEF Visiting
<1>5. Attempts
  BY <1>2, <1>3 DEF Attempts, UntriedIsUntouched, TriedOnce, SeenUntried
<1>6. HoldersOK
  BY <1>4 DEF HoldersOK, Holder, OneHolder, HeldIsTried, ClaimedIsUnsent, SentIsUndelivered
<1>7. SentOnce /\ DeliveriesAreExact
  BY <1>3 DEF Init, SentOnce, DeliveriesAreExact
<1> QED
  BY <1>1, <1>5, <1>6, <1>7 DEF NotifyInv

LEMMA CreateInv == ASSUME NotifyInv, NEW i \in Intents, Create(i) PROVE NotifyInv'
<1> USE DEF NotifyInv
<1>1. TypeOK'
  BY DEF Create, TypeOK
<1>2. \A k \in Intents : (Untried(k)' <=> Untried(k)) /\ (Undelivered(k)' <=> Undelivered(k))
  BY DEF Create, TypeOK, Untried, Undelivered
<1>3. \A r \in Runs, k \in Intents, place \in {"claimed", "sent", "threw"} :
        Visiting(r, place, k)' <=> Visiting(r, place, k)
  BY DEF Create, Visiting
<1>4. Attempts'
  BY <1>2 DEF Create, Attempts, UntriedIsUntouched, TriedOnce, SeenUntried
<1>5. HoldersOK'
  BY <1>2, <1>3 DEF Create, HoldersOK, Holder, OneHolder, HeldIsTried, ClaimedIsUnsent, SentIsUndelivered
<1>6. SentOnce' /\ DeliveriesAreExact'
  BY DEF Create, SentOnce, DeliveriesAreExact, TypeOK
<1> QED
  BY <1>1, <1>4, <1>5, <1>6

LEMMA FindInv == ASSUME NotifyInv, NEW r \in Runs, Find(r) PROVE NotifyInv'
<1> USE DEF NotifyInv
<1>1. TypeOK'
  BY DEF Find, TypeOK, Batch, Eligible
<1>2. \A s \in Runs : /\ s = r => run'[s] = [pc |-> "visit", todo |-> Batch(r), seen |-> attempts]
                      /\ s # r => run'[s] = run[s]
  BY DEF Find, TypeOK
<1>3. \A s \in Runs, k \in Intents, place \in {"claimed", "sent", "threw"} :
        Visiting(s, place, k)' => Visiting(s, place, k)
  BY <1>2 DEF Visiting
<1>4. \A k \in Intents : (Untried(k)' <=> Untried(k)) /\ (Undelivered(k)' <=> Undelivered(k))
  BY DEF Find, Untried, Undelivered
<1>5. Attempts'
  <2>1. UntriedIsUntouched' /\ TriedOnce'
    BY <1>4 DEF Find, Attempts, UntriedIsUntouched, TriedOnce
  <2>2. \A k \in Batch(r) : attempts[k] = 0
    BY DEF Batch, Eligible, Attempts, UntriedIsUntouched, Untried
  <2>3. SeenUntried'
    BY <1>2, <2>2 DEF Attempts, SeenUntried
  <2> QED
    BY <2>1, <2>3 DEF Attempts
<1>6. HoldersOK'
  BY <1>3, <1>4 DEF Find, HoldersOK, Holder, OneHolder, HeldIsTried, ClaimedIsUnsent, SentIsUndelivered
<1>7. SentOnce' /\ DeliveriesAreExact'
  BY DEF Find, SentOnce, DeliveriesAreExact
<1> QED
  BY <1>1, <1>5, <1>6, <1>7

LEMMA ClaimInv == ASSUME NotifyInv, NEW r \in Runs, NEW i \in Intents, Claim(r, i) PROVE NotifyInv'
<1> USE DEF NotifyInv
<1>0. Visiting(r, "visit", i) /\ deliveries' = deliveries /\ sends' = sends
  BY DEF Claim
<1>1. CASE status[i] = "PENDING"
  <2>1. /\ status' = [status EXCEPT ![i] = "PROCESSING"]
        /\ attempts' = [attempts EXCEPT ![i] = @ + 1] /\ Goto(r, "claimed")
    BY <1>1 DEF Claim
  <2>2. /\ run' \in [Runs -> [pc : {"visit", "claimed", "sent", "threw"},
                              todo : SUBSET Intents, seen : [Intents -> Nat]]]
        /\ \A s \in Runs : run'[s].todo = run[s].todo /\ run'[s].seen = run[s].seen
        /\ \A s \in Runs, k \in Intents, q \in {"claimed", "sent", "threw"} :
             Visiting(s, q, k)' <=> IF s = r THEN q = "claimed" /\ k = i ELSE Visiting(s, q, k)
    BY <1>0, <2>1, Moved
  <2>3. TypeOK'
    BY <1>0, <2>1, <2>2 DEF TypeOK
  <2>4. /\ Untried(i) /\ ~Untried(i)' /\ attempts'[i] = attempts[i] + 1
        /\ \A k \in Intents \ {i} : (Untried(k)' <=> Untried(k)) /\ attempts'[k] = attempts[k]
        /\ \A k \in Intents : Undelivered(k)' <=> Undelivered(k)
    BY <1>0, <1>1, <2>1 DEF TypeOK, Untried, Undelivered
  <2>5. attempts[i] = 0 /\ sends[i] = 0 /\ Undelivered(i)
    BY <2>4 DEF Attempts, UntriedIsUntouched
  <2>6. Attempts'
    BY <1>0, <2>2, <2>4, <2>5 DEF Attempts, UntriedIsUntouched, TriedOnce, SeenUntried
  <2>7. \A s \in Runs : ~Holder(s, i)
    BY <2>4 DEF HoldersOK, HeldIsTried
  <2>8. \A s \in Runs, k \in Intents :
          Holder(s, k)' => IF s = r THEN k = i ELSE Holder(s, k)
    BY <2>2 DEF Holder
  <2>9. HoldersOK'
    <3>1. OneHolder'
      BY <2>7, <2>8 DEF HoldersOK, OneHolder
    <3>2. HeldIsTried'
      BY <2>4, <2>8 DEF HoldersOK, HeldIsTried
    <3>3. ClaimedIsUnsent' /\ SentIsUndelivered'
      BY <1>0, <2>2, <2>4, <2>5 DEF HoldersOK, ClaimedIsUnsent, SentIsUndelivered
    <3> QED
      BY <3>1, <3>2, <3>3 DEF HoldersOK
  <2>10. SentOnce' /\ DeliveriesAreExact'
    BY <1>0, <1>1, <2>1, <2>4, <2>5 DEF SentOnce, DeliveriesAreExact, Undelivered, TypeOK
  <2> QED
    BY <2>3, <2>6, <2>9, <2>10
<1>2. CASE status[i] # "PENDING"
  <2>1. Leave(r, i) /\ status' = status /\ attempts' = attempts
    BY <1>2 DEF Claim
  <2>2. /\ run' \in [Runs -> [pc : {"visit", "claimed", "sent", "threw"},
                              todo : SUBSET Intents, seen : [Intents -> Nat]]]
        /\ \A s \in Runs : run'[s].todo \subseteq run[s].todo /\ run'[s].seen = run[s].seen
        /\ \A s \in Runs, k \in Intents, q \in {"claimed", "sent", "threw"} :
             Visiting(s, q, k)' <=> s # r /\ Visiting(s, q, k)
    BY <2>1, Left
  <2>3. TypeOK'
    BY <1>0, <2>1, <2>2 DEF TypeOK
  <2>4. \A k \in Intents : (Untried(k)' <=> Untried(k)) /\ (Undelivered(k)' <=> Undelivered(k))
    BY <1>0, <2>1 DEF Untried, Undelivered
  <2>5. Attempts'
    BY <1>0, <2>1, <2>2, <2>4 DEF Attempts, UntriedIsUntouched, TriedOnce, SeenUntried
  <2>6. \A s \in Runs, k \in Intents : Holder(s, k)' => Holder(s, k)
    BY <2>2 DEF Holder
  <2>7. HoldersOK'
    BY <1>0, <2>2, <2>4, <2>6 DEF HoldersOK, OneHolder, HeldIsTried, ClaimedIsUnsent, SentIsUndelivered
  <2>8. SentOnce' /\ DeliveriesAreExact'
    BY <1>0, <2>1 DEF SentOnce, DeliveriesAreExact
  <2> QED
    BY <2>3, <2>5, <2>7, <2>8
<1> QED
  BY <1>1, <1>2

LEMMA SendInv == ASSUME NotifyInv, NEW r \in Runs, NEW i \in Intents, Send(r, i) PROVE NotifyInv'
<1> USE DEF NotifyInv
<1>0. /\ Visiting(r, "claimed", i)
      /\ status' = status /\ attempts' = attempts /\ deliveries' = deliveries
  BY DEF Send
<1>1. PICK place \in {"sent", "threw"} :
        Goto(r, place) /\ sends' = IF place = "sent" THEN [sends EXCEPT ![i] = @ + 1] ELSE sends
  BY DEF Send
<1>2. /\ run' \in [Runs -> [pc : {"visit", "claimed", "sent", "threw"},
                            todo : SUBSET Intents, seen : [Intents -> Nat]]]
      /\ \A s \in Runs : run'[s].todo = run[s].todo /\ run'[s].seen = run[s].seen
      /\ \A s \in Runs, k \in Intents, q \in {"claimed", "sent", "threw"} :
           Visiting(s, q, k)' <=> IF s = r THEN q = place /\ k = i ELSE Visiting(s, q, k)
  BY <1>0, <1>1, Moved
<1>3. sends[i] = 0 /\ Undelivered(i) /\ ~Untried(i) /\ Holder(r, i)
  BY <1>0 DEF Holder, HoldersOK, ClaimedIsUnsent, HeldIsTried
<1>4. /\ sends' \in [Intents -> Nat]
      /\ place = "sent" => sends'[i] = 1
      /\ place = "threw" => sends'[i] = 0
      /\ \A k \in Intents \ {i} : sends'[k] = sends[k]
  BY <1>1, <1>3 DEF TypeOK
<1>5. TypeOK'
  BY <1>0, <1>2, <1>4 DEF TypeOK
<1>6. \A k \in Intents : (Untried(k)' <=> Untried(k)) /\ (Undelivered(k)' <=> Undelivered(k))
  BY <1>0 DEF Untried, Undelivered
<1>7. Attempts'
  <2>1. UntriedIsUntouched'
    BY <1>0, <1>3, <1>4, <1>6 DEF Attempts, UntriedIsUntouched
  <2>2. TriedOnce' /\ SeenUntried'
    BY <1>0, <1>2, <1>6 DEF Attempts, TriedOnce, SeenUntried
  <2> QED
    BY <2>1, <2>2 DEF Attempts
<1>8. \A s \in Runs, k \in Intents : Holder(s, k)' => Holder(s, k)
  BY <1>2, <1>3 DEF Holder
<1>9. \A s \in Runs \ {r}, q \in {"claimed", "sent", "threw"} : ~Visiting(s, q, i)
  BY <1>3 DEF Holder, HoldersOK, OneHolder
<1>10. HoldersOK'
  <2>1. OneHolder' /\ HeldIsTried'
    BY <1>6, <1>8 DEF HoldersOK, OneHolder, HeldIsTried
  <2>2. ClaimedIsUnsent' /\ SentIsUndelivered'
    BY <1>2, <1>3, <1>4, <1>6, <1>9 DEF HoldersOK, ClaimedIsUnsent, SentIsUndelivered
  <2> QED
    BY <2>1, <2>2 DEF HoldersOK
<1>11. SentOnce' /\ DeliveriesAreExact'
  BY <1>0, <1>3, <1>4 DEF SentOnce, DeliveriesAreExact, Undelivered, TypeOK
<1> QED
  BY <1>5, <1>7, <1>10, <1>11

\* The delivery a run records: of the one attempt of a message it has sent.
LEMMA Recorded ==
  ASSUME NotifyInv, NEW r \in Runs, NEW i \in Intents, Visiting(r, "sent", i),
         deliveries' = deliveries \cup {<<i, run[r].seen[i] + 1>>},
         status' = [status EXCEPT ![i] = "DELIVERED"], attempts' = attempts, sends' = sends
  PROVE  /\ status' \in [Intents -> {"none", "PENDING", "PROCESSING", "DELIVERED", "FAILED"}]
         /\ deliveries' \subseteq Intents \X (Nat \ {0})
         /\ SentOnce' /\ DeliveriesAreExact'
         /\ \A k \in Intents : Untried(k)' <=> Untried(k)
         /\ \A k \in Intents \ {i} : Undelivered(k)' <=> Undelivered(k)
<1> USE DEF NotifyInv
<1>1. run[r].seen[i] = 0 /\ sends[i] = 1 /\ ~Untried(i) /\ attempts[i] = 1
  BY DEF Visiting, Attempts, SeenUntried, TriedOnce, HoldersOK, Holder, HeldIsTried, SentIsUndelivered
<1>2. deliveries' = deliveries \cup {<<i, 1>>}
  BY <1>1
<1>3. SentOnce' /\ DeliveriesAreExact'
  <2>1. ASSUME NEW k \in Intents, status'[k] = "DELIVERED" PROVE \E d \in deliveries' : d[1] = k
    <3>1. CASE k = i
      <4>1. <<i, 1>> \in deliveries' /\ <<i, 1>>[1] = i
        BY <1>2
      <4> QED
        BY <3>1, <4>1
    <3>2. CASE k # i
      BY <1>2, <2>1, <3>2 DEF DeliveriesAreExact, TypeOK
    <3> QED
      BY <3>1, <3>2
  <2>2. \A d \in deliveries' : sends[d[1]] = 1 /\ d[2] = attempts[d[1]]
    BY <1>1, <1>2 DEF DeliveriesAreExact
  <2> QED
    BY <2>1, <2>2 DEF SentOnce, DeliveriesAreExact
<1>4. \A k \in Intents : Untried(k)' <=> Untried(k)
  BY <1>1 DEF Untried, TypeOK
<1>5. \A k \in Intents \ {i} : Undelivered(k)' <=> Undelivered(k)
  BY <1>2 DEF Undelivered
<1> QED
  BY <1>2, <1>3, <1>4, <1>5 DEF TypeOK

LEMMA RecordSentInv ==
  ASSUME NotifyInv, NEW r \in Runs, NEW i \in Intents, RecordSent(r, i) PROVE NotifyInv'
<1> USE DEF NotifyInv
<1>0. /\ Visiting(r, "sent", i) /\ Leave(r, i) /\ attempts' = attempts /\ sends' = sends
      /\ deliveries' = deliveries \cup {<<i, run[r].seen[i] + 1>>}
      /\ status' = [status EXCEPT ![i] = "DELIVERED"]
  BY DEF RecordSent
<1>1. /\ status' \in [Intents -> {"none", "PENDING", "PROCESSING", "DELIVERED", "FAILED"}]
      /\ deliveries' \subseteq Intents \X (Nat \ {0})
      /\ SentOnce' /\ DeliveriesAreExact'
      /\ \A k \in Intents : Untried(k)' <=> Untried(k)
      /\ \A k \in Intents \ {i} : Undelivered(k)' <=> Undelivered(k)
  BY <1>0, Recorded
<1>2. /\ run' \in [Runs -> [pc : {"visit", "claimed", "sent", "threw"},
                            todo : SUBSET Intents, seen : [Intents -> Nat]]]
      /\ \A s \in Runs : run'[s].todo \subseteq run[s].todo /\ run'[s].seen = run[s].seen
      /\ \A s \in Runs, k \in Intents, q \in {"claimed", "sent", "threw"} :
           Visiting(s, q, k)' <=> s # r /\ Visiting(s, q, k)
  BY <1>0, Left
<1>3. TypeOK'
  BY <1>0, <1>1, <1>2 DEF TypeOK
<1>4. Holder(r, i) /\ ~Untried(i)
  BY <1>0 DEF Holder, HoldersOK, HeldIsTried
<1>5. Attempts'
  BY <1>0, <1>1, <1>2, <1>4 DEF Attempts, UntriedIsUntouched, TriedOnce, SeenUntried
<1>6. \A s \in Runs, k \in Intents : Holder(s, k)' => s # r /\ Holder(s, k)
  BY <1>2 DEF Holder
<1>7. \A s \in Runs \ {r}, q \in {"claimed", "sent", "threw"} : ~Visiting(s, q, i)
  BY <1>4 DEF Holder, HoldersOK, OneHolder
<1>8. HoldersOK'
  <2>1. OneHolder' /\ HeldIsTried'
    BY <1>1, <1>6 DEF HoldersOK, OneHolder, HeldIsTried
  <2>2. ClaimedIsUnsent' /\ SentIsUndelivered'
    BY <1>0, <1>1, <1>2, <1>7 DEF HoldersOK, ClaimedIsUnsent, SentIsUndelivered
  <2> QED
    BY <2>1, <2>2 DEF HoldersOK
<1> QED
  BY <1>1, <1>3, <1>5, <1>8

LEMMA RecordThrowsInv ==
  ASSUME NotifyInv, NEW r \in Runs, NEW i \in Intents, RecordThrows(r, i) PROVE NotifyInv'
<1> USE DEF NotifyInv
<1>0. /\ Visiting(r, "sent", i) /\ Goto(r, "threw") /\ attempts' = attempts /\ sends' = sends
      /\ \/ status' = status /\ deliveries' = deliveries
         \/ /\ deliveries' = deliveries \cup {<<i, run[r].seen[i] + 1>>}
            /\ status' = [status EXCEPT ![i] = "DELIVERED"]
  BY DEF RecordThrows
<1>1. /\ status' \in [Intents -> {"none", "PENDING", "PROCESSING", "DELIVERED", "FAILED"}]
      /\ deliveries' \subseteq Intents \X (Nat \ {0})
      /\ SentOnce' /\ DeliveriesAreExact'
      /\ \A k \in Intents : Untried(k)' <=> Untried(k)
      /\ \A k \in Intents \ {i} : Undelivered(k)' <=> Undelivered(k)
  <2>1. CASE status' = status /\ deliveries' = deliveries
    BY <1>0, <2>1 DEF TypeOK, SentOnce, DeliveriesAreExact, Untried, Undelivered
  <2>2. CASE /\ deliveries' = deliveries \cup {<<i, run[r].seen[i] + 1>>}
             /\ status' = [status EXCEPT ![i] = "DELIVERED"]
    BY <1>0, <2>2, Recorded
  <2> QED
    BY <1>0, <2>1, <2>2
<1>2. /\ run' \in [Runs -> [pc : {"visit", "claimed", "sent", "threw"},
                            todo : SUBSET Intents, seen : [Intents -> Nat]]]
      /\ \A s \in Runs : run'[s].todo = run[s].todo /\ run'[s].seen = run[s].seen
      /\ \A s \in Runs, k \in Intents, q \in {"claimed", "sent", "threw"} :
           Visiting(s, q, k)' <=> IF s = r THEN q = "threw" /\ k = i ELSE Visiting(s, q, k)
  BY <1>0, Moved
<1>3. TypeOK'
  BY <1>0, <1>1, <1>2 DEF TypeOK
<1>4. Holder(r, i) /\ ~Untried(i)
  BY <1>0 DEF Holder, HoldersOK, HeldIsTried
<1>5. Attempts'
  BY <1>0, <1>1, <1>2, <1>4 DEF Attempts, UntriedIsUntouched, TriedOnce, SeenUntried
<1>6. \A s \in Runs, k \in Intents : Holder(s, k)' => Holder(s, k)
  BY <1>2, <1>4 DEF Holder
<1>7. \A s \in Runs \ {r}, q \in {"claimed", "sent", "threw"} : ~Visiting(s, q, i)
  BY <1>4 DEF Holder, HoldersOK, OneHolder
<1>8. HoldersOK'
  <2>1. OneHolder' /\ HeldIsTried'
    BY <1>1, <1>6 DEF HoldersOK, OneHolder, HeldIsTried
  <2>2. ClaimedIsUnsent' /\ SentIsUndelivered'
    BY <1>0, <1>1, <1>2, <1>7 DEF HoldersOK, ClaimedIsUnsent, SentIsUndelivered
  <2> QED
    BY <2>1, <2>2 DEF HoldersOK
<1> QED
  BY <1>1, <1>3, <1>5, <1>8

LEMMA RecordFailedInv ==
  ASSUME NotifyInv, NEW r \in Runs, NEW i \in Intents, RecordFailed(r, i) PROVE NotifyInv'
<1> USE DEF NotifyInv
<1>0. /\ Visiting(r, "threw", i) /\ Leave(r, i) /\ status' = [status EXCEPT ![i] = "FAILED"]
      /\ attempts' = attempts /\ sends' = sends /\ deliveries' = deliveries
  BY DEF RecordFailed
<1>1. ~Untried(i)
  BY <1>0 DEF HoldersOK, Holder, HeldIsTried
<1>2. /\ run' \in [Runs -> [pc : {"visit", "claimed", "sent", "threw"},
                            todo : SUBSET Intents, seen : [Intents -> Nat]]]
      /\ \A s \in Runs : run'[s].todo \subseteq run[s].todo /\ run'[s].seen = run[s].seen
      /\ \A s \in Runs, k \in Intents, q \in {"claimed", "sent", "threw"} :
           Visiting(s, q, k)' <=> s # r /\ Visiting(s, q, k)
  BY <1>0, Left
<1>3. TypeOK'
  BY <1>0, <1>2 DEF TypeOK
<1>4. \A k \in Intents : (Untried(k)' <=> Untried(k)) /\ (Undelivered(k)' <=> Undelivered(k))
  BY <1>0, <1>1 DEF Untried, Undelivered, TypeOK
<1>5. Attempts'
  BY <1>0, <1>2, <1>4, SMTT(30) DEF Attempts, UntriedIsUntouched, TriedOnce, SeenUntried
<1>6. \A s \in Runs, k \in Intents : Holder(s, k)' => Holder(s, k)
  BY <1>2 DEF Holder
<1>7. HoldersOK'
  BY <1>0, <1>2, <1>4, <1>6 DEF HoldersOK, OneHolder, HeldIsTried, ClaimedIsUnsent, SentIsUndelivered
<1>8. SentOnce' /\ DeliveriesAreExact'
  BY <1>0 DEF SentOnce, DeliveriesAreExact, TypeOK
<1> QED
  BY <1>3, <1>5, <1>7, <1>8

LEMMA CrashInv == ASSUME NotifyInv, NEW r \in Runs, Crash(r) PROVE NotifyInv'
<1> USE DEF NotifyInv
<1>1. TypeOK'
  BY DEF Crash, TypeOK, Waiting
<1>2. \A s \in Runs : (s = r => run'[s] = Waiting) /\ (s # r => run'[s] = run[s])
  BY DEF Crash, TypeOK
<1>3. \A s \in Runs, k \in Intents, place \in {"claimed", "sent", "threw"} :
        Visiting(s, place, k)' => Visiting(s, place, k)
  BY <1>2 DEF Visiting, Waiting
<1>4. \A k \in Intents : (Untried(k)' <=> Untried(k)) /\ (Undelivered(k)' <=> Undelivered(k))
  BY DEF Crash, Untried, Undelivered
<1>5. Attempts'
  BY <1>2, <1>4 DEF Crash, Attempts, UntriedIsUntouched, TriedOnce, SeenUntried, Waiting
<1>6. HoldersOK'
  BY <1>3, <1>4 DEF Crash, HoldersOK, Holder, OneHolder, HeldIsTried, ClaimedIsUnsent, SentIsUndelivered
<1>7. SentOnce' /\ DeliveriesAreExact'
  BY DEF Crash, SentOnce, DeliveriesAreExact
<1> QED
  BY <1>1, <1>5, <1>6, <1>7

LEMMA NextInv == NotifyInv /\ [Next]_vars => NotifyInv'
<1> SUFFICES ASSUME NotifyInv, [Next]_vars PROVE NotifyInv'
  OBVIOUS
<1>1. CASE \E i \in Intents : Create(i)
  BY <1>1, CreateInv
<1>2. CASE \E r \in Runs : Find(r) \/ Crash(r)
  BY <1>2, FindInv, CrashInv
<1>3. ASSUME NEW r \in Runs, NEW i \in Intents,
             \/ Claim(r, i) \/ Send(r, i) \/ RecordSent(r, i)
             \/ RecordThrows(r, i) \/ RecordFailed(r, i)
      PROVE  NotifyInv'
  BY <1>3, ClaimInv, SendInv, RecordSentInv, RecordThrowsInv, RecordFailedInv
<1>4. CASE UNCHANGED vars
  BY <1>4 DEF vars, NotifyInv, TypeOK, Attempts, HoldersOK, UntriedIsUntouched, TriedOnce, SeenUntried,
     OneHolder, HeldIsTried, ClaimedIsUnsent, SentIsUndelivered, Holder, Visiting, Untried,
     Undelivered, SentOnce, DeliveriesAreExact
<1> QED
  BY <1>1, <1>2, <1>3, <1>4 DEF Next, Step

-----------------------------------------------------------------------------
LEMMA Invariant == Spec => []NotifyInv
  BY InitInv, NextInv, PTL DEF Spec

\* The tables and runs keep their types (Notifications.TypeOK).
THEOREM NotifyTypes == Spec => []TypeOK
<1>1. NotifyInv => TypeOK
  BY DEF NotifyInv
<1> QED
  BY Invariant, <1>1, PTL

\* No provider takes a message twice, for any number of overlapping runs that crash at any
\* place: the conditional claim of commerce-jobs' processNotificationIntents lets one through.
THEOREM NeverSentTwice == Spec => []SentOnce
<1>1. NotifyInv => SentOnce
  BY DEF NotifyInv
<1> QED
  BY Invariant, <1>1, PTL

\* A delivery is of a message that was sent and carries the number of its attempt, which the run
\* computes from a row it read before its claim.
THEOREM ExactDeliveries == Spec => []DeliveriesAreExact
<1>1. NotifyInv => DeliveriesAreExact
  BY DEF NotifyInv
<1> QED
  BY Invariant, <1>1, PTL

-----------------------------------------------------------------------------
(***************************************************************************)
(* Services.                                                               *)
(***************************************************************************)
\* The API and the AI service are in no hurry: they leave the database with nothing under way,
\* and a process has an exit code when it has ended and not before.
Orderly ==
  /\ service # "worker" => pc # "stopping"
  /\ pc = "disconnecting" => service = "api" /\ busy = 0
  /\ pc # "exited" => code = "running"
  /\ pc \in {"off", "redis", "database"} => seeds = 0
  /\ pc = "seeding" => seeds < Seeds
ServicesInv == ServicesTypeOK /\ Orderly /\ CleanExitIsWhole

LEMMA ServicesStart ==
  ASSUME MaxBusy \in Nat, Seeds \in Nat \ {0}, ServicesInit
  PROVE  ServicesInv
<1>1. busy \in 0..MaxBusy /\ seeds \in 0..Seeds /\ seeds < Seeds
  BY DEF ServicesInit
<1>2. FALSE \in BOOLEAN
  OBVIOUS
<1> QED
  BY <1>1, <1>2, Zenon
  DEF ServicesInit, ServicesInv, ServicesTypeOK, Booting, Draining, Orderly, CleanExitIsWhole

\* An exit is whole when nothing was under way.
LEMMA ExitCuts ==
  ASSUME NEW c, busy \in Nat, Exit(c)
  PROVE  pc' = "exited" /\ code' = c /\ cut' \in BOOLEAN /\ (busy = 0 => ~cut')
<1>1. cut' = (busy > 0)
  BY Zenon DEF Exit
<1>2. (busy = 0 => ~(busy > 0)) /\ (busy > 0) \in BOOLEAN
  OBVIOUS
<1>3. cut' \in BOOLEAN /\ (busy = 0 => ~cut')
  BY <1>1, <1>2, Zenon
<1> QED
  BY <1>3 DEF Exit

LEMMA ServicesStep ==
  ASSUME MaxBusy \in Nat, Seeds \in Nat \ {0}, ServicesInv, [ServicesNext]_serviceVars
  PROVE  ServicesInv'
<1> USE DEF ServicesInv, ServicesTypeOK, Booting, Draining, Orderly, CleanExitIsWhole, Goes, Kept
<1>0. busy \in Nat
  OBVIOUS
<1>1. CASE Load
  BY <1>0, <1>1, ExitCuts DEF Load
<1>2. CASE ConnectRedis
  BY <1>2 DEF ConnectRedis
<1>3. CASE CheckDatabase
  BY <1>3 DEF CheckDatabase
<1>4. CASE Seed
  BY <1>0, <1>4, ExitCuts DEF Seed
<1>5. CASE Listen \/ ListenFails
  <2>1. (service = "worker") \in BOOLEAN
    OBVIOUS
  <2>2. CASE Listen
    <3>1. ready' \in BOOLEAN
      BY <2>1, <2>2, Zenon DEF Listen
    <3> QED
      BY <2>2, <3>1, Zenon DEF Listen
  <2>3. CASE ListenFails
    BY <1>0, <2>3, ExitCuts DEF ListenFails
  <2> QED
    BY <1>5, <2>2, <2>3
<1>6. CASE Arrive \/ Tick \/ Answer
  BY <1>6 DEF Arrive, Tick, Answer
<1>7. CASE Signal
  BY <1>0, <1>7, ExitCuts DEF Signal
<1>8. CASE Close \/ Disconnect \/ LeaveDatabase
  BY <1>0, <1>8, ExitCuts DEF Close, Disconnect, LeaveDatabase
<1>9. CASE StopOps \/ ForceExit
  <2>1. CASE StopOps
    <3>1. ready' \in BOOLEAN
      BY <2>1, Zenon DEF StopOps
    <3>2. service = "worker" /\ pc' = "exited" /\ cut' \in BOOLEAN /\ code' = "clean"
      BY <1>0, <2>1, ExitCuts DEF StopOps
    <3> QED
      BY <2>1, <3>1, <3>2, Zenon DEF StopOps
  <2>2. CASE ForceExit
    <3>1. pc' = "exited" /\ cut' \in BOOLEAN /\ code' = "failed"
      BY <1>0, <2>2, ExitCuts DEF ForceExit
    <3> QED
      BY <2>2, <3>1, Zenon DEF ForceExit
  <2> QED
    BY <1>9, <2>1, <2>2
<1>10. CASE Outage
  <2>1. database' \in BOOLEAN /\ redis' \in BOOLEAN
    BY <1>10, Zenon DEF Outage
  <2> QED
    BY <1>10, <2>1, Zenon DEF Outage
<1>11. CASE UNCHANGED serviceVars
  BY <1>11 DEF serviceVars
<1> QED
  BY <1>1, <1>2, <1>3, <1>4, <1>5, <1>6, <1>7, <1>8, <1>9, <1>10, <1>11
  DEF ServicesNext, Boot, Shutdown

LEMMA ServicesInvariance ==
  ASSUME MaxBusy \in Nat, Seeds \in Nat \ {0}
  PROVE  ServicesSpec => []ServicesInv
<1>1. ServicesInv /\ [ServicesNext]_serviceVars => ServicesInv'
  BY ServicesStep
<1> QED
  BY <1>1, ServicesStart, PTL DEF ServicesSpec

\* A process keeps its state in its types, however often the database and Redis go and come back.
THEOREM ServicesTypes ==
  ASSUME MaxBusy \in Nat, Seeds \in Nat \ {0}
  PROVE  ServicesSpec => []ServicesTypeOK
<1>1. ServicesInv => ServicesTypeOK
  BY DEF ServicesInv
<1> QED
  BY <1>1, ServicesInvariance, PTL

\* The API and the AI service never end with code 0 while a request is under way, whenever the
\* signal comes and whatever fails on the way out.
THEOREM WholeExits ==
  ASSUME MaxBusy \in Nat, Seeds \in Nat \ {0}
  PROVE  ServicesSpec => []CleanExitIsWhole
<1>1. ServicesInv => CleanExitIsWhole
  BY DEF ServicesInv
<1> QED
  BY <1>1, ServicesInvariance, PTL

-----------------------------------------------------------------------------
\* Normalising the names of the store's credentials leaves the other settings alone.
LEMMA NormalizedKeeps ==
  ASSUME NEW f \in EnvFile
  PROVE  /\ Normalized(f).NODE_ENV = f.NODE_ENV
         /\ Normalized(f).SESSION_SECRET = f.SESSION_SECRET
         /\ Normalized(f).SERVICE_JWT_SECRET = f.SERVICE_JWT_SECRET
         /\ Normalized(f).COOKIE_SECURE = f.COOKIE_SECURE
         /\ Normalized(f).PAYMENTS_ENABLED = f.PAYMENTS_ENABLED
         /\ Normalized(f).PAYMENT_PROVIDER = f.PAYMENT_PROVIDER
         /\ Normalized(f).ESCROW = f.ESCROW
         /\ Normalized(f).ESCROW_ALLOW_TEST_DOUBLE = f.ESCROW_ALLOW_TEST_DOUBLE
  BY DEF Normalized, EnvFile

LEMMA AcceptedFits ==
  ASSUME file \in EnvFile
  PROVE  ServicesFitTogether
<1> SUFFICES ASSUME Protected(file), Accepts("api", file)
             PROVE  /\ SecureCookies(file) /\ SessionSecret(file) = "long"
                    /\ \A s \in Processes : Accepts(s, file) => ServiceSecret(file) = "long"
                    /\ file.PAYMENTS_ENABLED = "yes" /\ file.PAYMENT_PROVIDER = "escrow"
                         => Charge(file) = "live"
  BY DEF ServicesFitTogether
<1>1. Protected(Normalized(file))
  BY NormalizedKeeps DEF Protected
<1>2. ApiGuards(Normalized(file))
  BY DEF Accepts
<1>3. /\ file.SESSION_SECRET = "long" /\ file.SERVICE_JWT_SECRET = "long"
      /\ file.COOKIE_SECURE = "yes"
      /\ file.PAYMENTS_ENABLED = "yes" /\ file.PAYMENT_PROVIDER = "escrow" => file.ESCROW = "set"
  BY <1>1, <1>2, NormalizedKeeps DEF ApiGuards, PaymentGuards
<1> QED
  BY <1>3 DEF SecureCookies, SessionSecret, ServiceSecret, OrDefault, Charge

\* Whatever the environment file says, within the words each setting may have: what a protected API
\* accepts is complete for the three processes.
THEOREM FilesFitTogether ==
  ASSUME Files \subseteq EnvFile
  PROVE  ServicesSpec => []ServicesFitTogether
<1>1. ServicesInit => file \in EnvFile
  BY DEF ServicesInit
<1>2. file \in EnvFile /\ [ServicesNext]_serviceVars => (file \in EnvFile)'
  <2>1. [ServicesNext]_serviceVars => UNCHANGED file
    BY DEF ServicesNext, serviceVars, Boot, Shutdown, Load, ConnectRedis, CheckDatabase, Seed,
           Listen, ListenFails, Arrive, Tick, Answer, Signal, Close, Disconnect, LeaveDatabase,
           StopOps, ForceExit, Outage, Kept
  <2> QED
    BY <2>1
<1>3. file \in EnvFile => ServicesFitTogether
  BY AcceptedFits
<1> QED
  BY <1>1, <1>2, <1>3, PTL DEF ServicesSpec

=============================================================================
