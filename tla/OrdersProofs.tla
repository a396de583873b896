----------------------------- MODULE OrdersProofs -----------------------------
(***************************************************************************)
(* Proofs about Orders, for any number of lines, webhook events, requests, *)
(* ticks, workers and administrators.                                      *)
(***************************************************************************)
EXTENDS Orders, SequenceTheorems, FiniteSetTheorems, TLAPS

Orders == Settled \cup {"PENDING_PAYMENT", "CANCELLED"}
Line == [status : {"HELD", "COMMITTED", "RELEASED", "EXPIRED"}, moves : SUBSET Kinds]
Fulfillment == [line : Lines, status : FulfillmentStatus]
Steps == {"idle", "apply", "txn", "order", "lock", "primary", "balance", "commit", "settle", "find",
          "status", "write", "close", "call", "mark", "ready", "count", "complete", "over"}
Place == [pc : Steps, at : Lines, todo : SUBSET Lines, snap : SUBSET Kinds,
          verdict : {"none", "SALE", "PAID", "RECONCILIATION_HOLD", "INITIATED", "FAILED"}]

\* The types of the rows alone.
TablesOK ==
  /\ order \in Orders
  /\ payment \in PaymentStatus /\ attempt \in PaymentStatus
  /\ line \in [Lines -> Line]
  /\ fulfillments \in Seq(Fulfillment)
  /\ txns \subseteq {Txn[e] : e \in Events}
  /\ receipts \in [Events -> {"none", "stored", "processed"}]

\* What somebody at this place has found in the tables, and what stays true of them.
PlaceOK(place) ==
  /\ place.pc \in {"ready", "count", "complete"} => fulfillments # <<>>
  /\ place.pc = "mark" => place.verdict \in {"INITIATED", "FAILED"}
  /\ place.pc = "settle" => txns # {}
  /\ place.pc = "commit" => place.verdict \in {"SALE", "PAID", "RECONCILIATION_HOLD"}
  /\ place.pc = "commit" /\ place.verdict = "PAID" => "sale" \in line[Primary].moves
PlacesOK == \A p \in Procs : PlaceOK(tx[p])

\* A line is COMMITTED by a sale, and items are queued only after a capture.
Committed == \A l \in Lines : line[l].status = "COMMITTED" => "sale" \in line[l].moves
QueuedIsCaptured == fulfillments # <<>> => txns # {}

RowsOK ==
  /\ Committed /\ QueuedIsCaptured
  /\ PaidMeansCaptured /\ ProcessedMeansCaptured /\ OneFulfillmentPerItem /\ FulfilledIsSold

IInv == TypeOK /\ RowsOK /\ PlacesOK

\* Captures, queued items and the movements of the primary line are never taken back.
Grown ==
  /\ txns # {} => txns' # {}
  /\ fulfillments # <<>> => fulfillments' # <<>>
  /\ line[Primary].moves \subseteq line'[Primary].moves

Moved(p, place) == tx' = [tx EXCEPT ![p] = place]

-----------------------------------------------------------------------------
LEMMA Types ==
  TypeOK <=> /\ TablesOK /\ charged \subseteq Workers
             /\ tx \in [Procs -> Place] /\ locked \in Procs \cup {NoProc}
  BY DEF TypeOK, TablesOK, Orders, Line, Fulfillment, Place, Steps

LEMMA TypesNext ==
  TypeOK' <=> /\ TablesOK' /\ charged' \subseteq Workers
              /\ tx' \in [Procs -> Place] /\ locked' \in Procs \cup {NoProc}
  BY DEF TypeOK, TablesOK, Orders, Line, Fulfillment, Place, Steps

LEMMA SameTables == UNCHANGED tables => (TablesOK' <=> TablesOK) /\ (RowsOK' <=> RowsOK) /\ Grown
  BY DEF tables, TablesOK, RowsOK, Grown, Committed, QueuedIsCaptured, PaidMeansCaptured,
         ProcessedMeansCaptured, OneFulfillmentPerItem, FulfilledIsSold

\* One process moves and writes rows.
LEMMA WriteInv ==
  ASSUME IInv, NEW p \in Procs, NEW place \in Place, Moved(p, place), PlaceOK(place)',
         TablesOK', RowsOK', Grown, charged' \subseteq Workers, locked' \in Procs \cup {NoProc}
  PROVE  IInv'
<1>1. tx \in [Procs -> Place] /\ PlacesOK
  BY Types DEF IInv
<1>2. tx' \in [Procs -> Place] /\ tx'[p] = place /\ \A q \in Procs \ {p} : tx'[q] = tx[q]
  BY <1>1 DEF Moved
<1>3. \A q \in Procs \ {p} : PlaceOK(tx[q])'
  BY <1>1, <1>2 DEF PlacesOK, PlaceOK, Grown
<1>4. PlacesOK'
  BY <1>2, <1>3 DEF PlacesOK, PlaceOK
<1> QED
  BY <1>2, <1>4, TypesNext DEF IInv

\* One process moves.
LEMMA ReadInv ==
  ASSUME IInv, NEW p \in Procs, NEW place \in Place, Moved(p, place), PlaceOK(place),
         UNCHANGED tables, charged' \subseteq Workers, locked' \in Procs \cup {NoProc}
  PROVE  IInv'
<1>1. TablesOK' /\ RowsOK' /\ Grown
  BY SameTables, Types DEF IInv
<1>2. PlaceOK(place)'
  BY DEF PlaceOK, tables
<1> QED
  BY <1>1, <1>2, WriteInv

\* The places the actions lead to.
LEMMA Going ==
  ASSUME TypeOK, NEW p \in Procs, NEW pc \in Steps, Goto(p, pc)
  PROVE  \E place \in Place : /\ Moved(p, place) /\ place.pc = pc
                              /\ place.verdict = tx[p].verdict
<1>1. tx \in [Procs -> Place]
  BY Types
<1> DEFINE place == [tx[p] EXCEPT !.pc = pc]
<1>2. place \in Place /\ place.pc = pc /\ place.verdict = tx[p].verdict
  BY <1>1 DEF Place
<1>3. Moved(p, place)
  BY DEF Goto, Moved
<1> QED
  BY <1>2, <1>3

LEMMA Ending ==
  ASSUME NEW p, End(p)
  PROVE  \E place \in Place : Moved(p, place) /\ place.pc \in {"idle", "over"}
<1>1. Idle \in Place /\ [Idle EXCEPT !.pc = "over"] \in Place
  BY OrdersAssumption DEF Idle, Place, Steps
<1>2. Idle.pc = "idle" /\ [Idle EXCEPT !.pc = "over"].pc = "over"
  BY DEF Idle
<1> QED
  BY <1>1, <1>2 DEF End, Moved

\* A step that goes somewhere where nothing is known, and writes nothing.
LEMMA GoesInv ==
  ASSUME IInv, NEW p \in Procs, UNCHANGED tables,
         charged' \subseteq Workers, locked' \in Procs \cup {NoProc},
         End(p) \/ \E pc \in Steps \ {"ready", "count", "complete", "settle", "commit", "mark"} : Goto(p, pc)
  PROVE  IInv'
<1>1. TypeOK
  BY DEF IInv
<1>2. CASE End(p)
  <2>1. PICK place \in Place : Moved(p, place) /\ place.pc \in {"idle", "over"}
    BY <1>2, Ending
  <2>2. PlaceOK(place)
    BY <2>1 DEF PlaceOK
  <2> QED
    BY <2>1, <2>2, ReadInv
<1>3. ASSUME NEW pc \in Steps \ {"ready", "count", "complete", "settle", "commit", "mark"}, Goto(p, pc)
      PROVE  IInv'
  <2>1. PICK place \in Place : Moved(p, place) /\ place.pc = pc
    BY <1>1, <1>3, Going
  <2>2. PlaceOK(place)
    BY <2>1 DEF PlaceOK
  <2> QED
    BY <2>1, <2>2, ReadInv
<1> QED
  BY <1>2, <1>3

LEMMA FailInv ==
  ASSUME IInv, NEW p \in Procs, Fail(p)
  PROVE  IInv'
<1>1. charged' \subseteq Workers /\ locked' \in Procs \cup {NoProc}
  BY Types DEF IInv, Fail, Unlock
<1> QED
  BY <1>1, GoesInv DEF Fail

LEMMA InitInv == Init => IInv
<1> SUFFICES ASSUME Init PROVE IInv
  OBVIOUS
<1>1. <<>> \in Seq(Fulfillment) /\ Len(<<>>) = 0
  BY EmptySeq
<1>2. Idle \in Place /\ Idle.pc = "idle"
  BY OrdersAssumption DEF Idle, Place, Steps
<1>3. TablesOK
  BY <1>1 DEF Init, TablesOK, Orders, PaymentStatus, Line
<1>4. TypeOK
  BY <1>2, <1>3, Types DEF Init
<1>5. DOMAIN fulfillments = {}
  BY <1>1, LenProperties DEF Init
<1>6. RowsOK
  BY <1>5, OrdersAssumption
     DEF Init, RowsOK, Committed, QueuedIsCaptured, PaidMeansCaptured, Settled, Paid,
         ProcessedMeansCaptured, OneFulfillmentPerItem, FulfilledIsSold
<1>7. PlacesOK
  BY <1>2 DEF Init, PlacesOK, PlaceOK
<1> QED
  BY <1>4, <1>6, <1>7 DEF IInv

-----------------------------------------------------------------------------
(***************************************************************************)
(* The worker and the webhooks.                                            *)
(***************************************************************************)
LEMMA InitiateInv ==
  ASSUME IInv, NEW w \in Workers, Initiate(w)
  PROVE  IInv'
<1>1. /\ TypeOK /\ w \in Procs /\ TablesOK /\ RowsOK /\ charged \subseteq Workers
      /\ tx \in [Procs -> Place] /\ locked \in Procs \cup {NoProc} /\ PlaceOK(tx[w])
  BY Types DEF IInv, Procs, PlacesOK
<1>2. CASE InitiateRead(w)
  BY <1>1, <1>2, GoesInv DEF InitiateRead, Steps
<1>3. CASE InitiateCall(w)
  <2>1. charged' \subseteq Workers /\ locked' \in Procs \cup {NoProc} /\ UNCHANGED tables
    BY <1>1, <1>3 DEF InitiateCall
  <2>2. CASE End(w)
    BY <1>1, <2>1, <2>2, GoesInv
  <2>3. ASSUME NEW answer \in {"INITIATED", "FAILED"},
               tx' = [tx EXCEPT ![w].pc = "mark", ![w].verdict = answer]
        PROVE  IInv'
    <3> DEFINE place == [tx[w] EXCEPT !.pc = "mark", !.verdict = answer]
    <3>1. place \in Place /\ place.pc = "mark" /\ place.verdict = answer
      BY <1>1 DEF Place, Steps
    <3>2. Moved(w, place)
      BY <2>3 DEF Moved
    <3> HIDE DEF place
    <3>3. PlaceOK(place)
      BY <3>1 DEF PlaceOK
    <3> QED
      BY <1>1, <2>1, <3>1, <3>2, <3>3, ReadInv
  <2> QED
    BY <1>3, <2>2, <2>3 DEF InitiateCall
<1>4. CASE InitiateMark(w)
  <2>1. PICK place \in Place : Moved(w, place) /\ place.pc \in {"idle", "over"}
    BY <1>4, Ending DEF InitiateMark
  <2>2. attempt' \in PaymentStatus /\ payment' \in PaymentStatus
    BY <1>1, <1>4 DEF InitiateMark, At, PlaceOK, PaymentStatus
  <2>3. TablesOK' /\ RowsOK' /\ Grown
    BY <1>1, <1>4, <2>2
       DEF InitiateMark, TablesOK, RowsOK, Grown, Committed, QueuedIsCaptured, PaidMeansCaptured,
           ProcessedMeansCaptured, OneFulfillmentPerItem, FulfilledIsSold
  <2>4. PlaceOK(place)'
    BY <2>1 DEF PlaceOK
  <2> QED
    BY <1>1, <1>4, <2>1, <2>3, <2>4, WriteInv DEF InitiateMark
<1> QED
  BY <1>2, <1>3, <1>4 DEF Initiate

\* The receipt of an event changes, and only a captured one is marked processed.
LEMMA ReceiptWritten ==
  ASSUME IInv, NEW e \in Events, NEW status \in {"stored", "processed"},
         receipts' = [receipts EXCEPT ![e] = status],
         status = "processed" /\ Kind[e] = "paid" => txns # {},
         UNCHANGED <<order, payment, attempt, line, fulfillments, txns>>
  PROVE  TablesOK' /\ RowsOK' /\ Grown
<1>1. TablesOK /\ RowsOK
  BY Types DEF IInv
<1>2. TablesOK'
  BY <1>1 DEF TablesOK
<1>3. ProcessedMeansCaptured'
  BY <1>1 DEF RowsOK, ProcessedMeansCaptured, TablesOK
<1> QED
  BY <1>1, <1>2, <1>3
     DEF RowsOK, Grown, Committed, QueuedIsCaptured, PaidMeansCaptured, OneFulfillmentPerItem,
         FulfilledIsSold

LEMMA ReceiveInv ==
  ASSUME IInv, NEW e \in Events, Receive(e)
  PROVE  IInv'
<1>1. TypeOK /\ e \in Procs /\ charged \subseteq Workers /\ locked \in Procs \cup {NoProc}
  BY Types DEF IInv, Procs
<1>2. PICK place \in Place : Moved(e, place) /\ place.pc = "apply"
  BY <1>1, Going DEF Receive, Steps
<1>3. TablesOK' /\ RowsOK' /\ Grown
  BY ReceiptWritten DEF Receive
<1>4. PlaceOK(place)'
  BY <1>2 DEF PlaceOK
<1> QED
  BY <1>1, <1>2, <1>3, <1>4, WriteInv DEF Receive

LEMMA ApplyInv ==
  ASSUME IInv, NEW e \in Events, Apply(e)
  PROVE  IInv'
<1>1. e \in Procs /\ charged \subseteq Workers /\ locked \in Procs \cup {NoProc}
  BY Types DEF IInv, Procs
<1>2. CASE Kind[e] = "failed" /\ Process(e) /\ End(e)
  <2>1. PICK place \in Place : Moved(e, place) /\ place.pc \in {"idle", "over"}
    BY <1>2, Ending
  <2>2. TablesOK' /\ RowsOK' /\ Grown
    BY <1>2, ReceiptWritten DEF Apply, Process
  <2>3. PlaceOK(place)'
    BY <2>1 DEF PlaceOK
  <2> QED
    BY <1>1, <2>1, <2>2, <2>3, WriteInv DEF Apply
<1>3. CASE End(e) /\ UNCHANGED receipts
  BY <1>1, <1>3, GoesInv DEF Apply, tables
<1>4. CASE Goto(e, "txn") /\ UNCHANGED receipts
  BY <1>1, <1>4, GoesInv DEF Apply, tables, Steps
<1> QED
  BY <1>2, <1>3, <1>4 DEF Apply

\* To "settle", which nobody reaches before a capture.
LEMMA Settling ==
  ASSUME IInv, NEW e \in Events, Goto(e, "settle"), UNCHANGED <<tables, charged, locked>>, txns # {}
  PROVE  IInv'
<1>1. TypeOK /\ e \in Procs /\ charged \subseteq Workers /\ locked \in Procs \cup {NoProc}
  BY Types DEF IInv, Procs
<1>2. PICK place \in Place : Moved(e, place) /\ place.pc = "settle"
  BY <1>1, Going DEF Steps
<1>3. PlaceOK(place)
  BY <1>2 DEF PlaceOK
<1> QED
  BY <1>1, <1>2, <1>3, ReadInv

LEMMA ReadsInv ==
  ASSUME IInv, NEW e \in Events, ReadTxn(e) \/ ReadOrder(e) \/ TakeLocks(e)
  PROVE  IInv'
<1>1. /\ e \in Procs /\ charged \subseteq Workers /\ locked \in Procs \cup {NoProc} /\ RowsOK
  BY Types DEF IInv, Procs
<1>2. CASE ReadTxn(e)
  <2>1. CASE Txn[e] \in txns
    BY <1>2, <2>1, Settling DEF ReadTxn
  <2>2. CASE Txn[e] \notin txns
    BY <1>1, <1>2, <2>2, GoesInv DEF ReadTxn, Steps
  <2> QED
    BY <2>1, <2>2
<1>3. CASE ReadOrder(e)
  <2>1. CASE order \in Settled /\ Goto(e, "settle") /\ UNCHANGED <<tables, charged, locked>>
    BY <1>1, <2>1, Settling DEF RowsOK, PaidMeansCaptured
  <2>2. CASE Goto(e, "lock") /\ UNCHANGED <<tables, charged, locked>>
    BY <1>1, <2>2, GoesInv DEF Steps
  <2>3. CASE Fail(e)
    BY <1>1, <2>3, FailInv
  <2> QED
    BY <1>3, <2>1, <2>2, <2>3 DEF ReadOrder
<1>4. CASE TakeLocks(e)
  BY <1>1, <1>4, GoesInv DEF TakeLocks, Steps
<1> QED
  BY <1>2, <1>3, <1>4

\* Ready to commit, with what is to become of the primary line.
LEMMA ReadStockInv ==
  ASSUME IInv, NEW e \in Events, ReadPrimary(e) \/ ReadBalance(e)
  PROVE  IInv'
<1>1. /\ e \in Procs /\ charged \subseteq Workers /\ locked \in Procs \cup {NoProc}
      /\ tx \in [Procs -> Place] /\ RowsOK /\ line \in [Lines -> Line] /\ Primary \in Lines
  BY Types, OrdersAssumption DEF IInv, Procs, TablesOK
<1>2. CASE ReadPrimary(e) /\ Goto(e, "balance")
  BY <1>1, <1>2, GoesInv DEF ReadPrimary, Steps
<1>3. ASSUME NEW verdict \in {"PAID", "RECONCILIATION_HOLD"},
             verdict = "PAID" => line[Primary].status = "COMMITTED",
             tx' = [tx EXCEPT ![e].pc = "commit", ![e].verdict = verdict],
             UNCHANGED <<tables, charged, locked>>
      PROVE  IInv'
  <2> DEFINE place == [tx[e] EXCEPT !.pc = "commit", !.verdict = verdict]
  <2>1. place \in Place /\ place.pc = "commit" /\ place.verdict = verdict
    BY <1>1 DEF Place, Steps
  <2>2. Moved(e, place)
    BY <1>3 DEF Moved
  <2> HIDE DEF place
  <2>3. PlaceOK(place)
    BY <1>1, <1>3, <2>1 DEF PlaceOK, RowsOK, Committed
  <2> QED
    BY <1>1, <1>3, <2>1, <2>2, <2>3, ReadInv
<1>4. CASE ReadBalance(e)
  <2> DEFINE moves == line[Primary].moves
  <2> DEFINE place == [tx[e] EXCEPT !.pc = "commit", !.verdict = "SALE", !.snap = moves]
  <2>1. moves \in SUBSET Kinds
    BY <1>1 DEF Line
  <2>2. Moved(e, place)
    BY <1>4 DEF ReadBalance, Moved
  <2> HIDE DEF moves
  <2>3. place \in Place /\ place.pc = "commit" /\ place.verdict = "SALE"
    BY <1>1, <2>1 DEF Place, Steps
  <2> HIDE DEF place
  <2>4. PlaceOK(place)
    BY <2>3 DEF PlaceOK
  <2> QED
    BY <1>1, <1>4, <2>2, <2>3, <2>4, ReadInv DEF ReadBalance
<1> QED
  BY <1>2, <1>3, <1>4 DEF ReadPrimary

LEMMA Sequence ==
  ASSUME NEW S, NEW n \in Nat, NEW f \in [1..n -> S]
  PROVE  f \in Seq(S) /\ Len(f) = n
<1>1. f \in Seq(S)
  BY SeqDef
<1> QED
  BY <1>1, LenProperties

\* The items a confirmation queues are those that were missing, each once: a sequence as long as
\* the set it runs through repeats nothing.
LEMMA QueuedOnce ==
  ASSUME IInv, NEW new \in [1..Cardinality(Missing) -> Missing],
         \A l \in Missing : \E i \in DOMAIN new : new[i] = l,
         fulfillments' = fulfillments \o [i \in DOMAIN new |-> Enqueued(new[i])]
  PROVE  /\ fulfillments' \in Seq(Fulfillment) /\ OneFulfillmentPerItem'
         /\ fulfillments # <<>> => fulfillments' # <<>>
<1> DEFINE n == Cardinality(Missing)
<1> DEFINE rows == [i \in DOMAIN new |-> Enqueued(new[i])]
<1>1. Missing \subseteq Lines /\ IsFiniteSet(Missing) /\ n \in Nat
  <2>1. Missing \subseteq Lines /\ IsFiniteSet(Lines)
    BY OrdersAssumption DEF Missing
  <2> QED
    BY <2>1, FS_Subset, FS_CardinalityType
<1>2. IsFiniteSet(1..n) /\ Cardinality(1..n) = n
  BY <1>1, FS_Interval
<1>3. \A i, j \in 1..n : new[i] = new[j] => i = j
  <2>1. new \in Surjection(1..n, Missing)
    BY DEF Surjection
  <2>2. new \in Injection(1..n, Missing)
    <3> HIDE DEF n
    <3>1. Cardinality(Missing) = Cardinality(1..n)
      BY <1>2 DEF n
    <3> QED
      BY <1>2, <2>1, <3>1, FS_Surjection
  <2> QED
    BY <2>2 DEF Injection, IsInjective
<1>4. fulfillments \in Seq(Fulfillment)
  BY Types DEF IInv, TablesOK
<1>5. rows \in [1..n -> Fulfillment] /\ \A i \in 1..n : rows[i].line = new[i]
  BY <1>1 DEF Enqueued, Fulfillment, FulfillmentStatus
<1> HIDE DEF rows
<1>6. rows \in Seq(Fulfillment) /\ Len(rows) = n
  <2> HIDE DEF n
  <2> QED
    BY <1>1, <1>5, Sequence
<1> DEFINE m == Len(fulfillments)
<1>8. m \in Nat /\ DOMAIN fulfillments = 1..m
  BY <1>4, LenProperties
<1>9. /\ fulfillments' \in Seq(Fulfillment) /\ Len(fulfillments') = m + n
      /\ \A i \in 1..(m + n) : fulfillments'[i] = IF i <= m THEN fulfillments[i] ELSE rows[i - m]
  BY <1>4, <1>6, ConcatProperties DEF rows
<1>10. DOMAIN fulfillments' = 1..(m + n)
  BY <1>9, LenProperties
<1> HIDE DEF m, n
<1>11. OneFulfillmentPerItem'
  <2> SUFFICES ASSUME NEW i \in 1..(m + n), NEW j \in 1..(m + n),
                      fulfillments'[i].line = fulfillments'[j].line
               PROVE  i = j
    BY <1>10 DEF OneFulfillmentPerItem
  <2>1. ASSUME NEW k \in 1..m, NEW x \in 1..(m + n), ~(x <= m)
        PROVE  fulfillments'[k].line # fulfillments'[x].line
    <3>1. x - m \in 1..n /\ k \in 1..(m + n) /\ k <= m
      BY <1>1, <1>8, <2>1
    <3>2. fulfillments'[x].line = new[x - m] /\ fulfillments'[k] = fulfillments[k]
      BY <1>5, <1>9, <2>1, <3>1
    <3>3. new[x - m] \in Missing
      BY <3>1 DEF n
    <3> QED
      BY <1>8, <3>2, <3>3 DEF Missing
  <2>2. CASE i <= m /\ j <= m
    <3>1. i \in 1..m /\ j \in 1..m /\ fulfillments'[i] = fulfillments[i]
          /\ fulfillments'[j] = fulfillments[j]
      BY <1>8, <1>9, <2>2
    <3> QED
      BY <1>8, <3>1 DEF IInv, RowsOK, OneFulfillmentPerItem
  <2>3. CASE ~(i <= m) /\ ~(j <= m)
    <3>1. i - m \in 1..n /\ j - m \in 1..n
      BY <1>1, <1>8, <2>3
    <3>2. new[i - m] = new[j - m]
      BY <1>5, <1>9, <2>3, <3>1
    <3>3. i - m = j - m
      BY <1>3, <3>1, <3>2 DEF n
    <3> QED
      BY <1>1, <1>8, <3>3
  <2>4. CASE i <= m /\ ~(j <= m)
    <3>1. i \in 1..m
      BY <1>8, <2>4
    <3> QED
      BY <2>1, <2>4, <3>1
  <2>5. CASE ~(i <= m) /\ j <= m
    <3>1. j \in 1..m
      BY <1>8, <2>5
    <3> QED
      BY <2>1, <2>5, <3>1
  <2> QED
    BY <2>2, <2>3, <2>4, <2>5
<1>12. fulfillments # <<>> => fulfillments' # <<>>
  <2>1. fulfillments # <<>> => m \in Nat \ {0}
    BY <1>4, EmptySeq DEF m
  <2>2. m \in Nat \ {0} => m + n # 0
    BY <1>1 DEF n
  <2> QED
    BY <1>9, <2>1, <2>2, EmptySeq
<1> QED
  BY <1>9, <1>11, <1>12

\* The commit of a confirmation.  An item is queued for a sale, or for a line that was sold before.
LEMMA CommitInv ==
  ASSUME IInv, NEW e \in Events, Commit(e)
  PROVE  IInv'
<1>1. /\ TypeOK /\ TablesOK /\ RowsOK /\ e \in Procs /\ charged \subseteq Workers
      /\ tx \in [Procs -> Place] /\ PlaceOK(tx[e]) /\ Primary \in Lines
  BY Types, OrdersAssumption DEF IInv, Procs, PlacesOK
<1>2. line \in [Lines -> Line]
  BY <1>1 DEF TablesOK
<1>3. /\ line' \in [Lines -> Line] /\ Committed'
      /\ line[Primary].moves \subseteq line'[Primary].moves
      /\ tx[e].verdict = "SALE" => "sale" \in line'[Primary].moves
  <2>1. CASE CommitSale(e)
    <3> DEFINE sold == [status |-> "COMMITTED", moves |-> line[Primary].moves \cup {"sale"}]
    <3>1. sold \in Line /\ sold.moves = line[Primary].moves \cup {"sale"}
      BY <1>1, <1>2 DEF Line, Kinds
    <3>2. line' = [line EXCEPT ![Primary] = sold]
      BY <2>1 DEF CommitSale
    <3> HIDE DEF sold
    <3>3. line'[Primary] = sold /\ \A l \in Lines \ {Primary} : line'[l] = line[l]
      BY <1>1, <1>2, <3>2
    <3> QED
      BY <1>1, <1>2, <3>1, <3>2, <3>3 DEF RowsOK, Committed
  <2>2. CASE tx[e].verdict # "SALE" /\ UNCHANGED line
    BY <1>1, <1>2, <2>2 DEF RowsOK, Committed
  <2> QED
    BY <2>1, <2>2 DEF Commit
<1>4. /\ fulfillments' \in Seq(Fulfillment) /\ OneFulfillmentPerItem'
      /\ fulfillments # <<>> => fulfillments' # <<>>
      /\ fulfillments' # fulfillments => tx[e].verdict # "RECONCILIATION_HOLD"
      /\ order' \in {"RECONCILIATION_HOLD", "PROCESSING"}
  <2>1. CASE tx[e].verdict = "RECONCILIATION_HOLD"
    BY <1>1, <2>1 DEF Commit, TablesOK, RowsOK, OneFulfillmentPerItem
  <2>2. CASE tx[e].verdict # "RECONCILIATION_HOLD"
    BY <2>2, QueuedOnce DEF Commit
  <2> QED
    BY <2>1, <2>2
<1>5. txns' = txns \cup {Txn[e]} /\ txns' # {}
  BY DEF Commit
<1>6. PICK place \in Place : Moved(e, place) /\ place.pc = "settle"
  BY <1>1, Going DEF Commit, Steps
<1>7. TablesOK'
  BY <1>1, <1>3, <1>4, <1>5
     DEF Commit, TablesOK, Orders, Settled, Paid, PaymentStatus
<1>8. Grown
  BY <1>3, <1>4, <1>5 DEF Grown
<1>9. FulfilledIsSold'
  <2> SUFFICES ASSUME fulfillments' # <<>> PROVE "sale" \in line'[Primary].moves
    BY DEF FulfilledIsSold
  <2>1. CASE fulfillments # <<>>
    BY <1>1, <1>3, <2>1 DEF RowsOK, FulfilledIsSold
  <2>2. CASE fulfillments = <<>>
    <3>1. tx[e].verdict \in {"SALE", "PAID"}
      BY <1>1, <1>4, <2>2 DEF Commit, At, PlaceOK
    <3> QED
      BY <1>1, <1>3, <3>1 DEF Commit, At, PlaceOK
  <2> QED
    BY <2>1, <2>2
<1>10. RowsOK'
  <2>1. QueuedIsCaptured' /\ PaidMeansCaptured' /\ ProcessedMeansCaptured'
    BY <1>4, <1>5 DEF Commit, QueuedIsCaptured, PaidMeansCaptured, ProcessedMeansCaptured
  <2> QED
    BY <1>3, <1>4, <1>9, <2>1 DEF RowsOK
<1>11. PlaceOK(place)'
  BY <1>5, <1>6 DEF PlaceOK
<1> QED
  BY <1>1, <1>6, <1>7, <1>8, <1>10, <1>11, WriteInv DEF Commit

LEMMA ConfirmInv ==
  ASSUME IInv, NEW e \in Events, Confirm(e)
  PROVE  IInv'
<1>1. /\ e \in Procs /\ RowsOK /\ tx \in [Procs -> Place] /\ PlaceOK(tx[e])
      /\ charged \subseteq Workers /\ locked \in Procs \cup {NoProc}
  BY Types DEF IInv, Procs, PlacesOK
<1>2. CASE CommitRejected(e)
  BY <1>1, <1>2, FailInv DEF CommitRejected
<1>3. CASE Settle(e)
  <2>1. txns # {}
    BY <1>1, <1>3 DEF Settle, At, PlaceOK
  <2>2. PICK place \in Place : Moved(e, place) /\ place.pc \in {"idle", "over"}
    BY <1>3, Ending DEF Settle
  <2>3. TablesOK' /\ RowsOK' /\ Grown
    BY <1>3, <2>1, ReceiptWritten DEF Settle, Process
  <2>4. PlaceOK(place)'
    BY <2>2 DEF PlaceOK
  <2> QED
    BY <1>1, <1>3, <2>2, <2>3, <2>4, WriteInv DEF Settle
<1> QED
  BY <1>2, <1>3, ApplyInv, ReadsInv, ReadStockInv, CommitInv DEF Confirm

-----------------------------------------------------------------------------
(***************************************************************************)
(* Cancels and ticks, administrators.                                      *)
(***************************************************************************)
LEMMA GiveBackInv ==
  ASSUME IInv, NEW p \in Procs, GiveBack(p)
  PROVE  IInv'
<1> DEFINE l == tx[p].at
<1> DEFINE given == [status |-> GivenBack(p), moves |-> line[l].moves \cup {MoveOf(p)}]
<1>1. /\ TypeOK /\ TablesOK /\ RowsOK /\ charged \subseteq Workers
      /\ tx \in [Procs -> Place] /\ locked \in Procs \cup {NoProc}
      /\ line \in [Lines -> Line] /\ Primary \in Lines
  BY Types, OrdersAssumption DEF IInv, TablesOK
<1>2. l \in Lines
  BY <1>1 DEF Place
<1>3. given \in Line /\ given.status # "COMMITTED" /\ line[l].moves \subseteq given.moves
  BY <1>1, <1>2 DEF Line, Kinds, GivenBack, MoveOf
<1>4. line' = [line EXCEPT ![l] = given]
  BY DEF GiveBack
<1>5. PICK place \in Place : Moved(p, place) /\ place.pc \in {"find", "close"}
  <2>1. Onward(p) \in {"find", "close"} /\ Onward(p) \in Steps
    BY DEF Onward, Steps
  <2> QED
    BY <1>1, <2>1, Going DEF GiveBack
<1> HIDE DEF given, l
<1>6. /\ line' \in [Lines -> Line] /\ line'[l] = given /\ \A x \in Lines \ {l} : line'[x] = line[x]
  BY <1>1, <1>2, <1>3, <1>4
<1>7. \A x \in Lines : line[x].moves \subseteq line'[x].moves
  BY <1>3, <1>6
<1>8. Committed'
  BY <1>1, <1>3, <1>6, <1>7 DEF Committed, RowsOK
<1>9. TablesOK' /\ Grown
  BY <1>1, <1>6, <1>7 DEF TablesOK, Grown, GiveBack
<1>10. RowsOK'
  BY <1>1, <1>7, <1>8
     DEF GiveBack, RowsOK, QueuedIsCaptured, PaidMeansCaptured, ProcessedMeansCaptured,
         OneFulfillmentPerItem, FulfilledIsSold
<1>11. PlaceOK(place)'
  BY <1>5 DEF PlaceOK
<1> QED
  BY <1>1, <1>5, <1>9, <1>10, <1>11, WriteInv DEF GiveBack

\* A step that notes lines or movements on the way to give some back.
LEMMA NotesInv ==
  ASSUME IInv, NEW p \in Procs, NEW place \in Place, Moved(p, place),
         place.pc \in {"status", "close", "write"}, UNCHANGED <<tables, charged, locked>>
  PROVE  IInv'
<1>1. charged \subseteq Workers /\ locked \in Procs \cup {NoProc}
  BY Types DEF IInv
<1>2. PlaceOK(place)
  BY DEF PlaceOK
<1> QED
  BY <1>1, <1>2, ReadInv

LEMMA ReleaseStepInv ==
  ASSUME IInv, NEW p \in Procs, ReleaseStep(p)
  PROVE  IInv'
<1>1. /\ charged \subseteq Workers /\ locked \in Procs \cup {NoProc}
      /\ tx \in [Procs -> Place] /\ line \in [Lines -> Line]
  BY Types DEF IInv, TablesOK
<1>2. ASSUME NEW l \in Lines, NextLine(p, l) PROVE IInv'
  <2> DEFINE todo == tx[p].todo \ {l}
  <2>1. todo \in SUBSET Lines
    BY <1>1 DEF Place
  <2> DEFINE place == [tx[p] EXCEPT !.pc = "status", !.at = l, !.todo = todo]
  <2>2. Moved(p, place)
    BY <1>2 DEF NextLine, Moved
  <2> HIDE DEF todo
  <2>3. place \in Place /\ place.pc = "status"
    BY <1>1, <2>1 DEF Place, Steps
  <2> HIDE DEF place
  <2> QED
    BY <1>2, <2>2, <2>3, NotesInv DEF NextLine
<1>3. CASE ReadStatus(p)
  <2>1. Onward(p) \in {"find", "close"}
    BY DEF Onward
  <2> QED
    BY <1>1, <1>3, <2>1, GoesInv DEF ReadStatus, Steps
<1>4. CASE ReadRow(p)
  <2>1. Onward(p) \in {"find", "close"}
    BY DEF Onward
  <2>2. CASE Goto(p, Onward(p))
    BY <1>1, <1>4, <2>1, <2>2, GoesInv DEF ReadRow, Steps
  <2>3. CASE tx' = [tx EXCEPT ![p].pc = "write", ![p].snap = line[tx[p].at].moves]
    <3> DEFINE moves == line[tx[p].at].moves
    <3>1. moves \in SUBSET Kinds
      BY <1>1 DEF Place, Line
    <3> DEFINE place == [tx[p] EXCEPT !.pc = "write", !.snap = moves]
    <3>2. Moved(p, place)
      BY <2>3 DEF Moved
    <3> HIDE DEF moves
    <3>3. place \in Place /\ place.pc = "write"
      BY <1>1, <3>1 DEF Place, Steps
    <3> HIDE DEF place
    <3> QED
      BY <1>4, <3>2, <3>3, NotesInv DEF ReadRow
  <2> QED
    BY <1>4, <2>2, <2>3 DEF ReadRow
<1>5. CASE GiveBackRejected(p)
  BY <1>5, FailInv DEF GiveBackRejected
<1> QED
  BY <1>2, <1>3, <1>4, <1>5, GiveBackInv DEF ReleaseStep

\* What a cancel and a tick find, and the end of each.
LEMMA FindInv ==
  ASSUME IInv, NEW p \in Cancels \cup Ticks,
         CancelRead(p) \/ CancelFind(p) \/ TickFind(p) \/ EndTick(p)
  PROVE  IInv'
<1>1. /\ p \in Procs /\ charged \subseteq Workers /\ locked \in Procs \cup {NoProc}
      /\ tx \in [Procs -> Place] /\ Primary \in Lines
  BY Types, OrdersAssumption DEF IInv, Procs
<1>2. CASE CancelRead(p)
  <2>1. CASE tx' = [tx EXCEPT ![p].pc = "status", ![p].at = Primary]
    <3> DEFINE place == [tx[p] EXCEPT !.pc = "status", !.at = Primary]
    <3>1. Moved(p, place)
      BY <2>1 DEF Moved
    <3>2. place \in Place /\ place.pc = "status"
      BY <1>1 DEF Place, Steps
    <3> HIDE DEF place
    <3> QED
      BY <1>1, <1>2, <3>1, <3>2, NotesInv DEF CancelRead
  <2>2. CASE End(p)
    BY <1>1, <1>2, <2>2, GoesInv DEF CancelRead
  <2> QED
    BY <1>2, <2>1, <2>2 DEF CancelRead
<1>3. CASE CancelFind(p) \/ TickFind(p)
  <2>1. PICK found \in SUBSET HeldLines : tx' = [tx EXCEPT ![p].pc = "close", ![p].todo = found]
    BY <1>3 DEF CancelFind, TickFind
  <2>2. found \in SUBSET Lines
    BY DEF HeldLines
  <2> DEFINE place == [tx[p] EXCEPT !.pc = "close", !.todo = found]
  <2>3. Moved(p, place)
    BY <2>1 DEF Moved
  <2>4. place \in Place /\ place.pc = "close"
    BY <1>1, <2>2 DEF Place, Steps
  <2> HIDE DEF place
  <2> QED
    BY <1>1, <1>3, <2>3, <2>4, NotesInv DEF CancelFind, TickFind
<1>4. CASE EndTick(p)
  BY <1>1, <1>4, GoesInv DEF EndTick
<1> QED
  BY <1>2, <1>3, <1>4

\* The order's status: a cancel's, or that of items whose capture is on record.
LEMMA OrderWritten ==
  ASSUME IInv, NEW p \in Procs, NEW status \in {"CANCELLED", "FULFILLING", "COMPLETED"},
         order' = status, End(p), status # "CANCELLED" => txns # {},
         UNCHANGED <<payment, attempt, line, fulfillments, txns, receipts, charged, locked>>
  PROVE  IInv'
<1>1. /\ TablesOK /\ RowsOK /\ charged \subseteq Workers /\ locked \in Procs \cup {NoProc}
  BY Types DEF IInv
<1>2. PICK place \in Place : Moved(p, place) /\ place.pc \in {"idle", "over"}
  BY Ending
<1>3. TablesOK' /\ Grown
  BY <1>1 DEF TablesOK, Orders, Settled, Paid, Grown
<1>4. RowsOK'
  BY <1>1
     DEF RowsOK, Committed, QueuedIsCaptured, PaidMeansCaptured, Settled, Paid,
         ProcessedMeansCaptured, OneFulfillmentPerItem, FulfilledIsSold
<1>5. PlaceOK(place)'
  BY <1>2 DEF PlaceOK
<1> QED
  BY <1>1, <1>2, <1>3, <1>4, <1>5, WriteInv

LEMMA MarkRowInv ==
  ASSUME IInv, NEW a \in Procs, NEW i \in DOMAIN fulfillments,
         NEW status \in FulfillmentStatus, NEW next \in {"ready", "count"}, MarkRow(a, i, status, next)
  PROVE  IInv'
<1>1. /\ TypeOK /\ TablesOK /\ RowsOK /\ charged \subseteq Workers /\ locked \in Procs \cup {NoProc}
      /\ fulfillments \in Seq(Fulfillment)
  BY Types DEF IInv, TablesOK
<1> DEFINE row == [fulfillments[i] EXCEPT !.status = status]
<1>2. DOMAIN fulfillments = 1..Len(fulfillments) /\ Len(fulfillments) \in Nat
  BY <1>1, LenProperties
<1>3. fulfillments[i] \in Fulfillment
  BY <1>1, <1>2, ElementOfSeq
<1>4. row \in Fulfillment /\ row.line = fulfillments[i].line
  BY <1>3 DEF Fulfillment
<1>5. fulfillments' = [fulfillments EXCEPT ![i] = row]
  BY DEF MarkRow
<1> HIDE DEF row
<1>6. /\ fulfillments' \in Seq(Fulfillment) /\ Len(fulfillments') = Len(fulfillments)
  BY <1>1, <1>2, <1>4, <1>5, ExceptSeq
<1>7. /\ DOMAIN fulfillments' = DOMAIN fulfillments
      /\ \A j \in DOMAIN fulfillments : fulfillments'[j].line = fulfillments[j].line
  BY <1>4, <1>5
<1>8. fulfillments # <<>> /\ fulfillments' # <<>>
  BY <1>2, <1>6, EmptySeq
<1>9. PICK place \in Place : Moved(a, place) /\ place.pc = next
  BY <1>1, Going DEF MarkRow, Steps
<1>10. TablesOK' /\ Grown
  BY <1>1, <1>6, <1>8 DEF MarkRow, TablesOK, Grown
<1>11. RowsOK'
  BY <1>1, <1>7, <1>8
     DEF MarkRow, RowsOK, Committed, QueuedIsCaptured, PaidMeansCaptured, ProcessedMeansCaptured,
         OneFulfillmentPerItem, FulfilledIsSold
<1>12. PlaceOK(place)'
  BY <1>8, <1>9 DEF PlaceOK
<1> QED
  BY <1>1, <1>9, <1>10, <1>11, <1>12, WriteInv DEF MarkRow

LEMMA AdminInv ==
  ASSUME IInv, NEW a \in Admins, Admin(a)
  PROVE  IInv'
<1>1. /\ TypeOK /\ a \in Procs /\ RowsOK /\ tx \in [Procs -> Place] /\ PlaceOK(tx[a])
      /\ charged \subseteq Workers /\ locked \in Procs \cup {NoProc}
  BY Types DEF IInv, Procs, PlacesOK
<1>2. ASSUME NEW i \in DOMAIN fulfillments, MarkReady(a, i) \/ MarkDelivered(a, i) PROVE IInv'
  BY <1>1, <1>2, MarkRowInv DEF MarkReady, MarkDelivered, FulfillmentStatus
<1>3. CASE ReadyOrder(a) \/ CompleteOrder(a)
  <2>1. txns # {}
    BY <1>1, <1>3 DEF ReadyOrder, CompleteOrder, SetOrder, At, PlaceOK, RowsOK, QueuedIsCaptured
  <2> QED
    BY <1>1, <1>3, <2>1, OrderWritten DEF ReadyOrder, CompleteOrder, SetOrder
<1>4. CASE CountPending(a)
  <2>1. CASE Goto(a, "complete")
    <3>1. PICK place \in Place : Moved(a, place) /\ place.pc = "complete"
      BY <1>1, <2>1, Going DEF Steps
    <3>2. PlaceOK(place)
      BY <1>1, <1>4, <3>1 DEF CountPending, At, PlaceOK
    <3> QED
      BY <1>1, <1>4, <3>1, <3>2, ReadInv DEF CountPending
  <2>2. CASE End(a)
    BY <1>1, <1>4, <2>2, GoesInv DEF CountPending
  <2> QED
    BY <1>4, <2>1, <2>2 DEF CountPending
<1> QED
  BY <1>2, <1>3, <1>4 DEF Admin

LEMMA NextInv == IInv /\ [Next]_vars => IInv'
<1> SUFFICES ASSUME IInv, [Next]_vars PROVE IInv'
  OBVIOUS
<1>1. ASSUME NEW w \in Workers, Initiate(w) PROVE IInv'
  BY <1>1, InitiateInv
<1>2. ASSUME NEW e \in Events, Receive(e) \/ Confirm(e) PROVE IInv'
  BY <1>2, ReceiveInv, ConfirmInv
<1>3. ASSUME NEW c \in Cancels, CancelRead(c) \/ Cancel(c) PROVE IInv'
  <2>1. c \in Procs
    BY DEF Procs
  <2>2. CASE CloseOrder(c)
    BY <2>1, <2>2, OrderWritten DEF CloseOrder
  <2> QED
    BY <1>3, <2>1, <2>2, FindInv, ReleaseStepInv DEF Cancel
<1>4. ASSUME NEW t \in Ticks, Tick(t) PROVE IInv'
  <2>1. t \in Procs
    BY DEF Procs
  <2> QED
    BY <1>4, <2>1, FindInv, ReleaseStepInv DEF Tick
<1>5. ASSUME NEW a \in Admins, Admin(a) PROVE IInv'
  BY <1>5, AdminInv
<1>6. ASSUME NEW p \in Procs, Abort(p) PROVE IInv'
  BY <1>6, FailInv DEF Abort
<1>7. CASE UNCHANGED vars
  <2>1. TypeOK' /\ RowsOK'
    BY <1>7, SameTables, Types, TypesNext DEF vars, IInv
  <2>2. PlacesOK'
    BY <1>7 DEF vars, tables, IInv, PlacesOK, PlaceOK
  <2> QED
    BY <2>1, <2>2 DEF IInv
<1> QED
  BY <1>1, <1>2, <1>3, <1>4, <1>5, <1>6, <1>7 DEF Next

LEMMA Invariant == Spec => []IInv
  BY InitInv, NextInv, PTL DEF Spec

-----------------------------------------------------------------------------
(***************************************************************************)
(* The properties.                                                         *)
(***************************************************************************)
\* The rows and the places of requests, handlers and jobs keep their types.
THEOREM TypeCorrect == Spec => []TypeOK
<1>1. IInv => TypeOK
  BY DEF IInv
<1> QED
  BY <1>1, Invariant, PTL

\* An order is worked on only after a capture, and a capture ends its waiting: the writes of
\* confirmPaymentForOrder, and what markReady and markDelivered may still set afterwards.
THEOREM PaidIsCaptured == Spec => []PaidMeansCaptured
<1>1. IInv => PaidMeansCaptured
  BY DEF IInv, RowsOK
<1> QED
  BY <1>1, Invariant, PTL

\* A receipt of a payment is marked processed only with a capture on record (applyEscrowReceipt).
THEOREM ProcessedIsCaptured == Spec => []ProcessedMeansCaptured
<1>1. IInv => ProcessedMeansCaptured
  BY DEF IInv, RowsOK
<1> QED
  BY <1>1, Invariant, PTL

\* However many confirmations of an order overlap, each item is queued for delivery once.
THEOREM QueuedAtMostOnce == Spec => []OneFulfillmentPerItem
<1>1. IInv => OneFulfillmentPerItem
  BY DEF IInv, RowsOK
<1> QED
  BY <1>1, Invariant, PTL

\* Items are queued only if the primary line was sold, by this confirmation or an earlier one.
THEOREM QueuedIsSold == Spec => []FulfilledIsSold
<1>1. IInv => FulfilledIsSold
  BY DEF IInv, RowsOK
<1> QED
  BY <1>1, Invariant, PTL
===============================================================================
