-------------------------- MODULE InventoryProofs --------------------------
(***************************************************************************)
(* Proofs about Inventory for any number of requests, job ticks, stocks    *)
(* and keys.                                                               *)
(***************************************************************************)
EXTENDS Inventory, FiniteSetTheorems, TLAPS

\* What a transaction knows while it runs: whom it works for, and, once it has
\* read the balance, that the row it read admits the operation.
TxOK(p) ==
  /\ tx[p].pc = "status" => tx[p].op \in Finishers
  /\ tx[p].pc = "match" => tx[p].op = "reserve"
  /\ Open(p) => tx[p].key \in Keys /\ tx[p].op # "none"
  /\ Open(p) /\ tx[p].op \in Finishers => tx[p].res \in Ids
  /\ tx[p].pc \in {"key", "match", "balance", "write"} =>
       /\ tx[p].stock \in Stocks
       /\ tx[p].op # "adjust" => tx[p].qty \in Nat
  /\ tx[p].pc = "write" =>
       /\ tx[p].snap = NoRow => tx[p].op = "adjust"
       /\ Admits(p, IF tx[p].snap = NoRow THEN Zero ELSE tx[p].snap)

\* The copy of the row is no newer than the row, and equal while versions are.
Fence(p) ==
  tx[p].pc = "write" /\ tx[p].snap # NoRow =>
    /\ balance[tx[p].stock] # NoRow
    /\ tx[p].snap.version <= balance[tx[p].stock].version
    /\ Fresh(p) => balance[tx[p].stock] = tx[p].snap

RowsOK == \A s \in Stocks : balance[s] # NoRow => CheckOK(balance[s])

IInv ==
  /\ TypeOK
  /\ \A p \in Procs : TxOK(p)
  /\ \A p \in Procs : Fence(p)
  /\ RowsOK
  /\ \A j \in Jobs : batch[j] \subseteq Ids

\* Transactions start as transaction records.
LEMMA StartedType ==
  ASSUME NEW pc \in {"idle", "status", "key"}, NEW op \in AllOps \cup {"none"},
         NEW s \in Stocks \cup {NoStock}, NEW qty \in Int,
         NEW ref \in Refs \cup {NoRef}, NEW key \in Keys \cup {NoKey}, NEW r \in Nat
  PROVE  Started(pc, op, s, qty, ref, key, r) \in Tx
  BY DEF Started, Tx

LEMMA IdleType == IdleTx \in Tx
  BY StartedType DEF IdleTx

LEMMA InitIInv == Init => IInv
<1> SUFFICES ASSUME Init PROVE IInv
  OBVIOUS
<1>1. TypeOK
  BY ConstantsAssumption, IdleType DEF Init, TypeOK, Row
<1>2. \A p \in Procs : tx[p].pc = "idle"
  BY DEF Init, IdleTx, Started
<1>3. RowsOK
  BY ConstantsAssumption DEF Init, RowsOK, CheckOK
<1> QED
  BY <1>1, <1>2, <1>3 DEF Init, IInv, TxOK, Fence, Open

\* A step of one process that leaves the tables alone preserves the invariant
\* if the record it leaves behind is a sound one.
LEMMA LocalStep ==
  ASSUME IInv, NEW p \in Procs, NEW t \in Tx,
         tx' = [tx EXCEPT ![p] = t],
         UNCHANGED <<balance, movements, reservations>>,
         batch' \in [Jobs -> SUBSET (Nat \ {0})],
         \A j \in Jobs : batch'[j] \subseteq Ids,
         TxOK(p)', Fence(p)'
  PROVE  IInv'
<1>1. TypeOK'
  BY DEF IInv, TypeOK
<1>2. ASSUME NEW q \in Procs, q # p PROVE TxOK(q)' /\ Fence(q)'
  <2>1. tx'[q] = tx[q]
    BY <1>2 DEF IInv, TypeOK
  <2>2. TxOK(q) /\ Fence(q)
    BY DEF IInv
  <2> QED
    BY <2>1, <2>2 DEF TxOK, Fence, Open, Ids, Admits, Fresh
<1>3. RowsOK'
  BY DEF IInv, RowsOK
<1> QED
  BY <1>1, <1>2, <1>3 DEF IInv, Ids

\* The two ways of building an idempotency key.
LEMMA KeyTypes ==
  /\ \A k \in ClientKeys : OwnKey(k) \in Keys
  /\ \A r \in Nat \ {0}, kind \in {"cancel", "rollback", "expire", "sale"} :
       ResKey(kind, r) \in Keys
  BY DEF OwnKey, ResKey, Keys

LEMMA CallAdjustIInv ==
  ASSUME IInv, NEW p \in Requests, NEW s \in Stocks, NEW d \in Deltas,
         NEW k \in ClientKeys, CallAdjust(p, s, d, k)
  PROVE  IInv'
<1> DEFINE t == Started("key", "adjust", s, d, NoRef, OwnKey(k), 0)
<1>1. t \in Tx
  BY ConstantsAssumption, KeyTypes, StartedType DEF AllOps
<1>2. tx' = [tx EXCEPT ![p] = t] /\ tx'[p] = t
  BY DEF CallAdjust, IInv, TypeOK, Procs
<1>3. TxOK(p)' /\ Fence(p)'
  BY <1>2, KeyTypes DEF TxOK, Fence, Open, Started, Finishers, Releases
<1> QED
  BY <1>1, <1>2, <1>3, LocalStep DEF CallAdjust, IInv, TypeOK, Procs

LEMMA CallReserveIInv ==
  ASSUME IInv, NEW p \in Requests, NEW s \in Stocks, NEW n \in Quantities,
         NEW c \in Refs \cup {NoRef}, NEW k \in ClientKeys,
         CallReserve(p, s, n, c, k)
  PROVE  IInv'
<1> DEFINE t == Started("key", "reserve", s, n, c, OwnKey(k), 0)
<1>1. t \in Tx
  BY ConstantsAssumption, KeyTypes, StartedType DEF AllOps
<1>2. tx' = [tx EXCEPT ![p] = t] /\ tx'[p] = t
  BY DEF CallReserve, IInv, TypeOK, Procs
<1>3. TxOK(p)' /\ Fence(p)'
  BY <1>2, KeyTypes, ConstantsAssumption
  DEF TxOK, Fence, Open, Started, Finishers, Releases
<1> QED
  BY <1>1, <1>2, <1>3, LocalStep DEF CallReserve, IInv, TypeOK, Procs

LEMMA CallFinishIInv ==
  ASSUME IInv, NEW p \in Requests, NEW op \in Finishers, NEW r \in Ids,
         NEW key \in Keys, CallFinish(p, op, r, key)
  PROVE  IInv'
<1> DEFINE t == Started("status", op, NoStock, 0, NoRef, key, r)
<1>1. t \in Tx
  <2>1. r \in Nat /\ op \in AllOps
    BY DEF IInv, TypeOK, Ids, AllOps, Finishers, Releases
  <2>2. /\ op \in AllOps \cup {"none"} /\ key \in Keys \cup {NoKey}
        /\ NoStock \in Stocks \cup {NoStock} /\ NoRef \in Refs \cup {NoRef} /\ 0 \in Int
    BY <2>1
  <2> QED
    BY <2>1, <2>2, StartedType
<1>2. tx' = [tx EXCEPT ![p] = t] /\ tx'[p] = t
  BY DEF CallFinish, IInv, TypeOK, Procs
<1>3. TxOK(p)' /\ Fence(p)'
  BY <1>2 DEF TxOK, Fence, Open, Started, Finishers, Releases, Ids, CallFinish
<1> QED
  BY <1>1, <1>2, <1>3, LocalStep DEF CallFinish, IInv, TypeOK, Procs

LEMMA FindExpiredIInv ==
  ASSUME IInv, NEW j \in Jobs, NEW B \in SUBSET HeldIds, FindExpired(j, B)
  PROVE  IInv'
<1>1. B \subseteq Ids /\ Ids \subseteq Nat \ {0}
  BY DEF HeldIds, IInv, TypeOK, Ids
<1>2. batch' \in [Jobs -> SUBSET (Nat \ {0})] /\ \A i \in Jobs : batch'[i] \subseteq Ids
  BY <1>1 DEF FindExpired, IInv, TypeOK
<1>3. \A p \in Procs : TxOK(p)' /\ Fence(p)'
  BY DEF FindExpired, IInv, TxOK, Fence, Open, Ids, Admits, Fresh
<1> QED
  BY <1>2, <1>3 DEF FindExpired, IInv, TypeOK, RowsOK, Ids

LEMMA NextExpiredIInv ==
  ASSUME IInv, NEW j \in Jobs, NEW r \in batch[j], NextExpired(j, r)
  PROVE  IInv'
<1> DEFINE t == Started("status", "expire", NoStock, 0, NoRef, ResKey("expire", r), r)
<1>1. r \in Ids /\ r \in Nat \ {0}
  BY DEF IInv, TypeOK, Ids
<1>2. t \in Tx
  <2>1. /\ "expire" \in AllOps \cup {"none"} /\ ResKey("expire", r) \in Keys \cup {NoKey}
        /\ NoStock \in Stocks \cup {NoStock} /\ NoRef \in Refs \cup {NoRef} /\ 0 \in Int
    BY <1>1, KeyTypes DEF AllOps
  <2> QED
    BY <1>1, <2>1, StartedType
<1>3. tx' = [tx EXCEPT ![j] = t] /\ tx'[j] = t
  BY DEF NextExpired, IInv, TypeOK, Procs
<1>4. TxOK(j)' /\ Fence(j)'
  BY <1>1, <1>3, KeyTypes DEF TxOK, Fence, Open, Started, Ids, NextExpired, Finishers
<1>5. batch' \in [Jobs -> SUBSET (Nat \ {0})] /\ \A i \in Jobs : batch'[i] \subseteq Ids
  BY DEF NextExpired, IInv, TypeOK
<1> QED
  BY <1>2, <1>3, <1>4, <1>5, LocalStep DEF NextExpired, Procs

\* A transaction that fails, in a request or in the loop of the job.
LEMMA FailIInv ==
  ASSUME IInv, NEW p \in Procs, Fail(p), UNCHANGED <<balance, movements, reservations>>
  PROVE  IInv'
<1>1. tx' = [tx EXCEPT ![p] = IdleTx] /\ tx'[p] = IdleTx
  BY DEF Fail, IInv, TypeOK
<1>2. TxOK(p)' /\ Fence(p)'
  BY <1>1 DEF TxOK, Fence, Open, IdleTx, Started
<1>3. batch' \in [Jobs -> SUBSET (Nat \ {0})] /\ \A i \in Jobs : batch'[i] \subseteq Ids
  BY DEF Fail, IInv, TypeOK
<1> QED
  BY <1>1, <1>2, <1>3, IdleType, LocalStep

LEMMA AckIInv ==
  ASSUME IInv, NEW p \in Procs, Ack(p),
         UNCHANGED <<balance, movements, reservations, batch>>
  PROVE  IInv'
<1> DEFINE t == [tx[p] EXCEPT !.pc = "acked", !.snap = NoRow]
<1>1. tx[p] \in Tx
  BY DEF IInv, TypeOK
<1>2. t \in Tx
  BY <1>1 DEF Tx
<1>3. tx' = [tx EXCEPT ![p] = t] /\ tx'[p] = t
  BY DEF Ack, IInv, TypeOK
<1>4. tx'[p].pc = "acked"
  BY <1>1, <1>3, ZenonT(40) DEF Tx
<1>5. TxOK(p)' /\ Fence(p)'
  BY <1>4 DEF TxOK, Fence, Open
<1> QED
  BY <1>2, <1>3, <1>5, LocalStep DEF IInv, TypeOK

LEMMA ReadStatusIInv ==
  ASSUME IInv, NEW p \in Procs, ReadStatus(p)
  PROVE  IInv'
<1>1. UNCHANGED <<balance, movements, reservations>>
  BY DEF ReadStatus
<1> DEFINE row == reservations[tx[p].res]
           pc  == IF tx[p].op \in Releases \cup {"commit"} THEN "key" ELSE "balance"
<1>2. CASE /\ tx' = [tx EXCEPT ![p].pc = pc, ![p].stock = row.stock, ![p].qty = row.qty]
           /\ UNCHANGED batch
  <2> DEFINE t == [tx[p] EXCEPT !.pc = pc, !.stock = row.stock, !.qty = row.qty]
  <2>1. tx[p] \in Tx /\ TxOK(p) /\ tx[p].pc = "status" /\ tx[p].op \in Finishers
    BY DEF IInv, TypeOK, ReadStatus, TxOK
  <2>2. row.stock \in Stocks /\ row.qty \in Nat
    <3>1. tx[p].res \in Ids
      BY <2>1 DEF TxOK, Open
    <3>2. row \in Reservation
      BY <3>1 DEF IInv, TypeOK, Ids
    <3> QED
      BY <3>2 DEF Reservation
  <2>3. /\ t \in Tx /\ t.pc = pc /\ t.stock = row.stock /\ t.qty = row.qty
        /\ t.op = tx[p].op /\ t.key = tx[p].key /\ t.res = tx[p].res
    <3>1. pc \in {"key", "balance"} /\ row.stock \in Stocks \cup {NoStock} /\ row.qty \in Int
      BY <2>2
    <3> HIDE DEF pc, row
    <3> QED
      BY <2>1, <3>1 DEF Tx
  <2>4. tx' = [tx EXCEPT ![p] = t] /\ tx'[p] = t
    BY <1>2 DEF IInv, TypeOK
  <2> HIDE DEF t
  <2>5. TxOK(p)' /\ Fence(p)'
    BY <1>1, <2>1, <2>2, <2>3, <2>4 DEF TxOK, Fence, Open, Ids
  <2> QED
    BY <1>1, <1>2, <2>3, <2>4, <2>5, LocalStep DEF IInv, TypeOK
<1>3. CASE Ack(p) /\ UNCHANGED batch
  BY <1>1, <1>3, AckIInv
<1>4. CASE Fail(p)
  BY <1>1, <1>4, FailIInv
<1> QED
  BY <1>2, <1>3, <1>4 DEF ReadStatus

\* Moving on to the next statement, in a transaction that has its arguments.
LEMMA GotoIInv ==
  ASSUME IInv, NEW p \in Procs, NEW pc \in {"match", "balance"},
         tx[p].pc \in {"key", "match"}, pc = "match" => tx[p].op = "reserve",
         Goto(p, pc), UNCHANGED <<balance, movements, reservations, batch>>
  PROVE  IInv'
<1> DEFINE t == [tx[p] EXCEPT !.pc = pc]
<1>1. tx[p] \in Tx /\ TxOK(p)
  BY DEF IInv, TypeOK
<1>2. /\ t \in Tx /\ t.pc = pc /\ t.stock = tx[p].stock /\ t.qty = tx[p].qty
      /\ t.op = tx[p].op /\ t.key = tx[p].key /\ t.res = tx[p].res
  BY <1>1 DEF Tx
<1>3. tx' = [tx EXCEPT ![p] = t] /\ tx'[p] = t
  BY DEF Goto, IInv, TypeOK
<1> HIDE DEF t
<1>4. TxOK(p)' /\ Fence(p)'
  BY <1>1, <1>2, <1>3 DEF TxOK, Fence, Open, Ids
<1> QED
  BY <1>2, <1>3, <1>4, LocalStep DEF IInv, TypeOK

LEMMA FindMovementIInv ==
  ASSUME IInv, NEW p \in Procs, FindMovement(p)
  PROVE  IInv'
  BY AckIInv, GotoIInv DEF FindMovement

LEMMA MatchHeldIInv ==
  ASSUME IInv, NEW p \in Procs, MatchHeld(p)
  PROVE  IInv'
<1>1. CASE Matching(p) = {} /\ Goto(p, "balance")
  BY <1>1, GotoIInv DEF MatchHeld
<1>2. ASSUME NEW r \in Matching(p), tx' = [tx EXCEPT ![p].pc = "acked", ![p].res = r]
      PROVE  IInv'
  <2> DEFINE t == [tx[p] EXCEPT !.pc = "acked", !.res = r]
  <2>1. tx[p] \in Tx /\ r \in Nat
    BY DEF IInv, TypeOK, Matching, HeldIds, Ids
  <2>2. t \in Tx /\ t.pc = "acked"
    BY <2>1 DEF Tx
  <2>3. tx' = [tx EXCEPT ![p] = t] /\ tx'[p] = t
    BY <1>2 DEF IInv, TypeOK
  <2> HIDE DEF t
  <2>4. TxOK(p)' /\ Fence(p)'
    BY <2>2, <2>3 DEF TxOK, Fence, Open
  <2> QED
    BY <2>2, <2>3, <2>4, LocalStep DEF MatchHeld, IInv, TypeOK
<1> QED
  BY <1>1, <1>2 DEF MatchHeld

LEMMA ReadBalanceIInv ==
  ASSUME IInv, NEW p \in Procs, ReadBalance(p)
  PROVE  IInv'
<1> DEFINE found == balance[tx[p].stock]
           row   == IF found = NoRow /\ tx[p].op = "adjust" THEN Zero ELSE found
           t     == [tx[p] EXCEPT !.pc = "write", !.snap = found]
<1>1. CASE ~(row # NoRow /\ Admits(p, row))
  BY <1>1, FailIInv DEF ReadBalance
<1>2. CASE row # NoRow /\ Admits(p, row)
  <2>1. tx[p] \in Tx /\ TxOK(p) /\ tx[p].pc = "balance"
    BY DEF IInv, TypeOK, ReadBalance
  <2>2. found \in Row \cup {NoRow}
    BY <2>1 DEF IInv, TypeOK, TxOK
  <2>3. /\ t \in Tx /\ t.pc = "write" /\ t.stock = tx[p].stock /\ t.qty = tx[p].qty
        /\ t.op = tx[p].op /\ t.key = tx[p].key /\ t.res = tx[p].res /\ t.snap = found
    BY <2>1, <2>2 DEF Tx
  <2>4. tx' = [tx EXCEPT ![p] = t] /\ tx'[p] = t
    BY <1>2 DEF ReadBalance, IInv, TypeOK
  <2> HIDE DEF t
  <2>5. TxOK(p)'
    BY <1>2, <2>1, <2>3, <2>4 DEF TxOK, Open, Ids, Admits, Finishers, Releases, ReadBalance
  <2>6. Fence(p)'
    BY <2>2, <2>3, <2>4 DEF Fence, Fresh, ReadBalance, Row
  <2> QED
    BY <1>2, <2>3, <2>4, <2>5, <2>6, LocalStep DEF ReadBalance, IInv, TypeOK
<1> QED
  BY <1>1, <1>2

-----------------------------------------------------------------------------
(***************************************************************************)
(* The writes.                                                             *)
(***************************************************************************)
\* What the writer's transaction record holds.
LEMMA WriterTypes ==
  ASSUME IInv, NEW p \in Procs, tx[p].pc = "write"
  PROVE  /\ tx[p].stock \in Stocks /\ tx[p].qty \in Int /\ tx[p].key \in Keys
         /\ tx[p].op \in AllOps /\ tx[p].snap \in Row \cup {NoRow}
         /\ balance[tx[p].stock] \in Row \cup {NoRow}
         /\ tx[p].op # "adjust" => tx[p].qty \in Nat
         /\ tx[p].op \in Finishers => tx[p].res \in Ids
<1>1. tx[p] \in Tx /\ TxOK(p)
  BY DEF IInv, TypeOK
<1>2. tx[p].stock \in Stocks
  BY <1>1 DEF TxOK
<1> QED
  BY <1>1, <1>2 DEF Tx, TxOK, Open, IInv, TypeOK

LEMMA NewRowType ==
  ASSUME IInv, NEW p \in Procs, tx[p].pc = "write"
  PROVE  /\ NewRow(p).onHand \in Int /\ NewRow(p).reserved \in Int
         /\ NewRow(p).version \in Nat
         /\ NewRow(p).version = (IF balance[tx[p].stock] = NoRow THEN 1
                                 ELSE balance[tx[p].stock].version + 1)
<1> DEFINE old == IF balance[tx[p].stock] = NoRow THEN Zero ELSE balance[tx[p].stock]
           was == IF tx[p].snap = NoRow THEN Zero ELSE tx[p].snap
<1>1. old \in Row /\ was \in Row /\ tx[p].qty \in Int
  BY WriterTypes DEF Row, Zero
<1>2. old.version = (IF balance[tx[p].stock] = NoRow THEN 0 ELSE balance[tx[p].stock].version)
  BY DEF Zero
<1> HIDE DEF old, was
<1>3. /\ old.onHand \in Nat /\ old.reserved \in Nat /\ old.version \in Nat
      /\ was.onHand \in Nat
  BY <1>1 DEF Row
<1> USE DEF old, was
<1>4. NewRow(p).version = old.version + 1
  BY DEF NewRow
<1>5. NewRow(p).onHand \in {was.onHand + tx[p].qty, old.onHand - tx[p].qty, old.onHand}
  BY DEF NewRow
<1>6. NewRow(p).reserved \in {old.reserved, old.reserved + tx[p].qty, old.reserved - tx[p].qty}
  BY DEF NewRow
<1> HIDE DEF old, was
<1> QED
  BY <1>1, <1>2, <1>3, <1>4, <1>5, <1>6

LEMMA NewRowRow ==
  ASSUME IInv, NEW p \in Procs, tx[p].pc = "write", CheckOK(NewRow(p))
  PROVE  NewRow(p) \in Row
<1>1. /\ NewRow(p).onHand \in Nat /\ NewRow(p).reserved \in Nat /\ NewRow(p).version \in Nat
  BY NewRowType DEF CheckOK
<1>2. NewRow(p) = [onHand |-> NewRow(p).onHand, reserved |-> NewRow(p).reserved,
                   version |-> NewRow(p).version]
  BY DEF NewRow
<1> QED
  BY <1>1, <1>2 DEF Row

LEMMA MovementType ==
  ASSUME IInv, NEW p \in Procs, tx[p].pc = "write"
  PROVE  MovementOf(p) \in Movement
<1> DEFINE n == IF tx[p].qty < 0 THEN -tx[p].qty ELSE tx[p].qty
           ty == MovementOf(p).type
<1>1. n \in Nat /\ tx[p].key \in Keys /\ tx[p].stock \in Stocks
  BY WriterTypes
<1>2. ty \in {"RECEIPT", "ADJUSTMENT", "RESERVATION", "RELEASE", "SALE"}
  BY DEF MovementOf
<1>3. MovementOf(p) = [key |-> tx[p].key, stock |-> tx[p].stock, qty |-> n, type |-> ty]
  BY DEF MovementOf
<1> HIDE DEF n, ty
<1> QED
  BY <1>1, <1>2, <1>3 DEF Movement

\* Committing a movement preserves the invariant: the row moves to a version
\* nobody has read.
LEMMA PostIInv ==
  ASSUME IInv, NEW p \in Procs, tx[p].pc = "write", CanWrite(p), Post(p),
         NEW t \in Tx, t.pc = "acked", tx' = [tx EXCEPT ![p] = t],
         reservations' \in Seq(Reservation), Ids \subseteq Ids', UNCHANGED batch
  PROVE  IInv'
<1> DEFINE s == tx[p].stock
<1>1. s \in Stocks /\ CheckOK(NewRow(p)) /\ NewRow(p) \in Row /\ NewRow(p) # NoRow
  BY WriterTypes, NewRowRow, ConstantsAssumption DEF CanWrite
<1>2. /\ balance' = [balance EXCEPT ![s] = NewRow(p)] /\ balance'[s] = NewRow(p)
      /\ \A u \in Stocks \ {s} : balance'[u] = balance[u]
  BY <1>1 DEF Post, IInv, TypeOK
<1>3. TypeOK'
  BY <1>1, <1>2, MovementType DEF IInv, TypeOK, Post
<1>4. tx'[p].pc = "acked" /\ \A q \in Procs \ {p} : tx'[q] = tx[q]
  BY DEF IInv, TypeOK
<1>5. ASSUME NEW q \in Procs PROVE TxOK(q)'
  <2>1. CASE q = p
    BY <1>4, <2>1 DEF TxOK, Open
  <2>2. CASE q # p
    <3>1. tx'[q] = tx[q] /\ TxOK(q)
      BY <1>4, <2>2 DEF IInv
    <3> QED
      BY <3>1 DEF TxOK, Open, Admits
  <2> QED
    BY <2>1, <2>2
<1>6. ASSUME NEW q \in Procs PROVE Fence(q)'
  <2>1. CASE q = p
    BY <1>4, <2>1 DEF Fence
  <2>2. CASE q # p
    <3>1. tx'[q] = tx[q] /\ Fence(q)
      BY <1>4, <2>2 DEF IInv
    <3>2. CASE tx[q].pc = "write" /\ tx[q].snap # NoRow
      <4>1. tx[q].stock \in Stocks /\ tx[q].snap \in Row
        BY <3>2, WriterTypes
      <4>2. CASE tx[q].stock # s
        BY <1>2, <3>1, <4>1, <4>2 DEF Fence, Fresh
      <4>3. CASE tx[q].stock = s
        <5>1. balance[s] # NoRow /\ balance[s] \in Row /\ tx[q].snap.version <= balance[s].version
          BY <1>1, <3>1, <3>2, <4>3 DEF Fence, IInv, TypeOK
        <5>2. NewRow(p).version = balance[s].version + 1
          BY <5>1, NewRowType
        <5>3. tx[q].snap.version \in Nat /\ balance[s].version \in Nat
          BY <4>1, <5>1 DEF Row
        <5>4. tx[q].snap.version < balance'[s].version
          BY <1>2, <5>1, <5>2, <5>3
        <5> QED
          BY <1>1, <1>2, <3>1, <4>3, <5>1, <5>2, <5>3, <5>4 DEF Fence, Fresh
      <4> QED
        BY <4>2, <4>3
    <3> QED
      BY <3>1, <3>2 DEF Fence
  <2> QED
    BY <2>1, <2>2
<1>7. RowsOK'
  <2> SUFFICES ASSUME NEW u \in Stocks, balance'[u] # NoRow PROVE CheckOK(balance'[u])
    BY DEF RowsOK
  <2> QED
    BY <1>1, <1>2 DEF IInv, RowsOK
<1> QED
  BY <1>3, <1>5, <1>6, <1>7 DEF IInv

\* The record an acknowledged writer leaves.
LEMMA AckedWriter ==
  ASSUME IInv, NEW p \in Procs, tx[p].pc = "write"
  PROVE  /\ [tx[p] EXCEPT !.pc = "acked", !.snap = NoRow] \in Tx
         /\ [tx[p] EXCEPT !.pc = "acked", !.snap = NoRow].pc = "acked"
<1>1. tx[p] \in Tx
  BY DEF IInv, TypeOK
<1> QED
  BY <1>1 DEF Tx

LEMMA WriteAdjustIInv ==
  ASSUME IInv, NEW p \in Procs, WriteAdjust(p)
  PROVE  IInv'
<1> DEFINE t == [tx[p] EXCEPT !.pc = "acked", !.snap = NoRow]
<1>1. t \in Tx /\ t.pc = "acked"
  BY AckedWriter DEF WriteAdjust
<1>2. tx' = [tx EXCEPT ![p] = t]
  BY DEF WriteAdjust, Ack, IInv, TypeOK
<1>3. reservations' \in Seq(Reservation) /\ Ids \subseteq Ids'
  BY DEF WriteAdjust, IInv, TypeOK, Ids
<1> HIDE DEF t
<1> QED
  BY <1>1, <1>2, <1>3, PostIInv DEF WriteAdjust

LEMMA WriteReserveIInv ==
  ASSUME IInv, NEW p \in Procs, WriteReserve(p)
  PROVE  IInv'
<1> DEFINE new == [stock |-> tx[p].stock, qty |-> tx[p].qty, ref |-> tx[p].ref, status |-> "HELD"]
           n   == Len(reservations) + 1
           t   == [tx[p] EXCEPT !.pc = "acked", !.snap = NoRow, !.res = n]
<1>1. reservations \in Seq(Reservation) /\ n \in Nat /\ tx[p] \in Tx
  BY DEF IInv, TypeOK
<1>2. t \in Tx /\ t.pc = "acked"
  <2> HIDE DEF n
  <2> QED
    BY <1>1 DEF Tx
<1>3. tx' = [tx EXCEPT ![p] = t]
  BY DEF WriteReserve, IInv, TypeOK
<1>4. new \in Reservation
  <2>1. tx[p].stock \in Stocks /\ tx[p].qty \in Nat
    BY WriterTypes DEF WriteReserve
  <2>2. tx[p].ref \in Refs \cup {NoRef}
    BY <1>1 DEF Tx
  <2> QED
    BY <2>1, <2>2 DEF Reservation
<1>5. reservations' \in Seq(Reservation) /\ Ids \subseteq Ids'
  <2> HIDE DEF new
  <2>1. reservations' = Append(reservations, new)
    BY DEF WriteReserve, new
  <2> QED
    BY <1>1, <1>4, <2>1 DEF Ids
<1> HIDE DEF t
<1> QED
  BY <1>2, <1>3, <1>5, PostIInv DEF WriteReserve

LEMMA WriteFinishIInv ==
  ASSUME IInv, NEW p \in Procs, WriteFinish(p)
  PROVE  IInv'
<1> DEFINE t  == [tx[p] EXCEPT !.pc = "acked", !.snap = NoRow]
           r  == tx[p].res
           st == FinalStatus(tx[p].op)
<1>1. t \in Tx /\ t.pc = "acked"
  BY AckedWriter DEF WriteFinish
<1>2. tx' = [tx EXCEPT ![p] = t]
  BY DEF WriteFinish, Ack, IInv, TypeOK
<1>3. reservations' = [reservations EXCEPT ![r].status = st] /\ r \in Ids
  BY WriterTypes DEF WriteFinish
<1>4. st \in {"HELD", "COMMITTED", "RELEASED", "EXPIRED"}
  BY DEF FinalStatus
<1>5. reservations' \in Seq(Reservation) /\ Ids \subseteq Ids'
  <2> HIDE DEF st
  <2>1. reservations \in Seq(Reservation) /\ reservations[r] \in Reservation
    BY <1>3 DEF IInv, TypeOK, Ids
  <2>2. [reservations[r] EXCEPT !.status = st] \in Reservation
    BY <1>4, <2>1 DEF Reservation
  <2> QED
    BY <1>3, <2>1, <2>2 DEF Ids
<1> HIDE DEF t
<1> QED
  BY <1>1, <1>2, <1>5, PostIInv DEF WriteFinish

LEMMA WriteIInv ==
  ASSUME IInv, NEW p \in Procs, Write(p)
  PROVE  IInv'
<1>1. CASE AdjustDuplicate(p)
  BY <1>1, AckIInv DEF AdjustDuplicate
<1>2. CASE WriteRejected(p)
  BY <1>2, FailIInv DEF WriteRejected
<1> QED
  BY <1>1, <1>2, WriteAdjustIInv, WriteReserveIInv, WriteFinishIInv DEF Write

LEMMA CallIInv ==
  ASSUME IInv, NEW p \in Requests, Call(p)
  PROVE  IInv'
<1>1. ASSUME NEW r \in Ids, NEW op \in Releases, CallFinish(p, op, r, ResKey(op, r))
      PROVE  IInv'
  <2>1. r \in Nat \ {0} /\ op \in Finishers
    BY DEF IInv, TypeOK, Ids, Finishers
  <2>2. ResKey(op, r) \in Keys
    BY <2>1, KeyTypes DEF Releases
  <2> QED
    BY <1>1, <2>1, <2>2, CallFinishIInv
<1>2. ASSUME NEW r \in Ids, NEW k \in ClientKeys, CallFinish(p, "commit", r, OwnKey(k))
      PROVE  IInv'
  BY <1>2, KeyTypes, CallFinishIInv DEF Finishers
<1>3. ASSUME NEW r \in Ids, CallFinish(p, "sale", r, ResKey("sale", r))
      PROVE  IInv'
  <2>1. r \in Nat \ {0}
    BY DEF IInv, TypeOK, Ids
  <2>2. ResKey("sale", r) \in Keys /\ "sale" \in Finishers
    BY <2>1, KeyTypes DEF Finishers
  <2> QED
    BY <1>3, <2>2, CallFinishIInv
<1> QED
  BY <1>1, <1>2, <1>3, CallAdjustIInv, CallReserveIInv DEF Call

\* The invariant is inductive.
LEMMA NextIInv == IInv /\ [Next]_vars => IInv'
<1> SUFFICES ASSUME IInv, [Next]_vars PROVE IInv'
  OBVIOUS
<1>1. ASSUME NEW p \in Requests, Call(p) PROVE IInv'
  BY <1>1, CallIInv
<1>2. ASSUME NEW j \in Jobs, Tick(j) PROVE IInv'
  BY <1>2, FindExpiredIInv, NextExpiredIInv DEF Tick
<1>3. ASSUME NEW p \in Procs, Read(p) PROVE IInv'
  BY <1>3, ReadStatusIInv, FindMovementIInv, MatchHeldIInv, ReadBalanceIInv DEF Read
<1>4. ASSUME NEW p \in Procs, Write(p) PROVE IInv'
  BY <1>4, WriteIInv
<1>5. ASSUME NEW p \in Procs, Crash(p) PROVE IInv'
  BY <1>5, FailIInv DEF Crash
<1>6. CASE UNCHANGED vars
  BY <1>6 DEF vars, IInv, TypeOK, TxOK, Fence, RowsOK, Open, Ids, Admits, Fresh
<1> QED
  BY <1>1, <1>2, <1>3, <1>4, <1>5, <1>6 DEF Next

THEOREM Invariance == Spec => []IInv
  BY InitIInv, NextIInv, PTL DEF Spec

\* The tables and the transactions in progress always have their types; so
\* on_hand and reserved are never negative (the schema's CHECK).
THEOREM TypeCorrect == Spec => []TypeOK
<1>1. IInv => TypeOK
  BY DEF IInv
<1> QED
  BY <1>1, Invariance, PTL

\* Optimistic locking works: a version that still matches means the row is the
\* one the transaction read (updateMany where version = balance.version).
THEOREM Fencing == Spec => []SnapshotFence
<1>1. IInv => SnapshotFence
  BY DEF IInv, Fence, SnapshotFence
<1> QED
  BY <1>1, Invariance, PTL

\* The check reserve and adjust make of the row they read is enough: when their
\* update matches, the CHECK constraints hold of what it writes.
THEOREM NoOverReservation == Spec => []AdmissionSuffices
<1>1. IInv => AdmissionSuffices
  <2> SUFFICES ASSUME IInv, NEW p \in Procs, tx[p].pc = "write",
                      tx[p].op \in {"adjust", "reserve"}, Locked(p)
               PROVE  CheckOK(NewRow(p))
    BY DEF AdmissionSuffices
  <2> DEFINE s == tx[p].stock
  <2>1. /\ s \in Stocks /\ tx[p].qty \in Int
        /\ tx[p].op = "reserve" => tx[p].qty \in Nat
        /\ balance[s] \in Row \cup {NoRow}
    BY WriterTypes
  <2>2. CASE tx[p].snap = NoRow
    <3>1. balance[s] = NoRow /\ tx[p].op = "adjust" /\ Admits(p, Zero)
      BY <2>2 DEF Locked, IInv, TxOK
    <3>2. NewRow(p) = [onHand |-> 0 + tx[p].qty, reserved |-> 0, version |-> 1]
      BY <2>2, <3>1 DEF NewRow, Zero
    <3> QED
      BY <2>1, <3>1, <3>2 DEF CheckOK, Admits, Zero
  <2>3. CASE tx[p].snap # NoRow
    <3>1. balance[s] = tx[p].snap /\ balance[s] # NoRow /\ Admits(p, balance[s])
      BY <2>3 DEF Locked, IInv, Fence, TxOK
    <3>2. CheckOK(balance[s])
      BY <2>1, <3>1 DEF IInv, RowsOK
    <3>3. balance[s].onHand \in Nat /\ balance[s].reserved \in Nat
      BY <2>1, <3>1 DEF Row
    <3>4. CASE tx[p].op = "adjust"
      <4>1. NewRow(p).onHand = balance[s].onHand + tx[p].qty /\ NewRow(p).reserved = balance[s].reserved
        BY <3>1, <3>4 DEF NewRow
      <4> QED
        BY <2>1, <3>1, <3>2, <3>3, <3>4, <4>1 DEF CheckOK, Admits
    <3>5. CASE tx[p].op = "reserve"
      <4>1. NewRow(p).onHand = balance[s].onHand /\ NewRow(p).reserved = balance[s].reserved + tx[p].qty
        BY <3>1, <3>5 DEF NewRow
      <4> QED
        BY <2>1, <3>1, <3>2, <3>3, <3>5, <4>1 DEF CheckOK, Admits
    <3> QED
      BY <3>4, <3>5
  <2> QED
    BY <2>2, <2>3
<1> QED
  BY <1>1, Invariance, PTL

-----------------------------------------------------------------------------
(***************************************************************************)
(* The journal.                                                            *)
(***************************************************************************)
\* A step either leaves balances and movements alone or posts one movement.
LEMMA PostOrKeep ==
  ASSUME IInv, [Next]_vars
  PROVE  \/ UNCHANGED <<balance, movements>>
         \/ \E p \in Procs : tx[p].pc = "write" /\ CanWrite(p) /\ Post(p)
<1>1. ASSUME NEW p \in Requests, Call(p) PROVE UNCHANGED <<balance, movements>>
  BY <1>1 DEF Call, CallAdjust, CallReserve, CallFinish
<1>2. ASSUME NEW j \in Jobs, Tick(j) PROVE UNCHANGED <<balance, movements>>
  BY <1>2 DEF Tick, FindExpired, NextExpired
<1>3. ASSUME NEW p \in Procs, Read(p) PROVE UNCHANGED <<balance, movements>>
  BY <1>3 DEF Read, ReadStatus, FindMovement, MatchHeld, ReadBalance
<1>4. ASSUME NEW p \in Procs, Write(p)
      PROVE  \/ UNCHANGED <<balance, movements>>
             \/ tx[p].pc = "write" /\ CanWrite(p) /\ Post(p)
  BY <1>4 DEF Write, WriteAdjust, AdjustDuplicate, WriteReserve, WriteFinish, WriteRejected
<1>5. ASSUME NEW p \in Procs, Crash(p) PROVE UNCHANGED <<balance, movements>>
  BY <1>5 DEF Crash
<1>6. CASE UNCHANGED vars
  BY <1>6 DEF vars
<1> QED
  BY <1>1, <1>2, <1>3, <1>4, <1>5, <1>6 DEF Next

\* A movement about to be posted is not in the journal yet.
LEMMA NewMovement ==
  ASSUME NEW p \in Procs, CanWrite(p)
  PROVE  MovementOf(p) \notin movements
  BY DEF CanWrite, Recorded, MovementOf

Counted ==
  \A s \in Stocks :
    /\ IsFiniteSet(MovementsOf(s))
    /\ Cardinality(MovementsOf(s)) = IF balance[s] = NoRow THEN 0 ELSE balance[s].version

LEMMA CountedInit == Init => Counted
<1> SUFFICES ASSUME Init, NEW s \in Stocks
             PROVE  /\ IsFiniteSet(MovementsOf(s))
                    /\ Cardinality(MovementsOf(s)) =
                         IF balance[s] = NoRow THEN 0 ELSE balance[s].version
  BY DEF Counted
<1>1. MovementsOf(s) = {}
  BY DEF Init, MovementsOf
<1>2. balance[s] # NoRow => balance[s].version = 0
  BY DEF Init
<1> QED
  BY <1>1, <1>2, FS_EmptySet

LEMMA CountedStep == IInv /\ Counted /\ [Next]_vars => Counted'
<1> SUFFICES ASSUME IInv, Counted, [Next]_vars, NEW s \in Stocks
             PROVE  /\ IsFiniteSet(MovementsOf(s)')
                    /\ Cardinality(MovementsOf(s)') =
                         IF balance'[s] = NoRow THEN 0 ELSE balance'[s].version
  BY DEF Counted
<1>1. CASE UNCHANGED <<balance, movements>>
  BY <1>1 DEF Counted, MovementsOf
<1>2. ASSUME NEW p \in Procs, tx[p].pc = "write", CanWrite(p), Post(p)
      PROVE  /\ IsFiniteSet(MovementsOf(s)')
             /\ Cardinality(MovementsOf(s)') =
                  IF balance'[s] = NoRow THEN 0 ELSE balance'[s].version
  <2>1. movements' = movements \cup {MovementOf(p)} /\ MovementOf(p).stock = tx[p].stock
    BY <1>2 DEF Post, MovementOf
  <2>2. balance' = [balance EXCEPT ![tx[p].stock] = NewRow(p)]
    BY <1>2 DEF Post
  <2>3. balance \in [Stocks -> Row \cup {NoRow}]
    BY DEF IInv, TypeOK
  <2>4. CASE tx[p].stock # s
    <3>1. MovementsOf(s)' = MovementsOf(s)
      BY <2>1, <2>4 DEF MovementsOf
    <3>2. balance'[s] = balance[s]
      BY <2>2, <2>3, <2>4
    <3> QED
      BY <3>1, <3>2 DEF Counted
  <2>5. CASE tx[p].stock = s
    <3>1. MovementsOf(s)' = MovementsOf(s) \cup {MovementOf(p)}
      BY <2>1, <2>5 DEF MovementsOf
    <3>2. MovementOf(p) \notin MovementsOf(s)
      BY <1>2, NewMovement DEF MovementsOf
    <3>3. /\ IsFiniteSet(MovementsOf(s)')
          /\ Cardinality(MovementsOf(s)') = Cardinality(MovementsOf(s)) + 1
      BY <3>1, <3>2, FS_AddElement DEF Counted
    <3>4. balance'[s] = NewRow(p)
      BY <2>2, <2>3, <2>5
    <3>5. NewRow(p) \in Row /\ NewRow(p) # NoRow
      BY <1>2, NewRowRow, ConstantsAssumption DEF CanWrite
    <3>6. NewRow(p).version = IF balance[s] = NoRow THEN 1 ELSE balance[s].version + 1
      BY <1>2, <2>5, NewRowType
    <3>7. Cardinality(MovementsOf(s)) = IF balance[s] = NoRow THEN 0 ELSE balance[s].version
      BY DEF Counted
    <3> QED
      BY <3>3, <3>4, <3>5, <3>6, <3>7
  <2> QED
    BY <2>4, <2>5
<1> QED
  BY <1>1, <1>2, PostOrKeep

\* The version of a row counts the movements of its journal: no update without
\* its journal entry, no entry without its update.
THEOREM VersionIsJournalLength == Spec => []VersionCountsMovements
<1>1. Counted => VersionCountsMovements
  BY DEF Counted, VersionCountsMovements
<1> QED
  BY <1>1, CountedInit, CountedStep, Invariance, PTL DEF Spec

-----------------------------------------------------------------------------
(***************************************************************************)
(* The refinement of the serial ledger.                                    *)
(***************************************************************************)
RowBefore(p) == IF balance[tx[p].stock] = NoRow THEN Zero ELSE balance[tx[p].stock]

\* What a post adds to the row is what its movement says.
LEMMA PostMovesRow ==
  ASSUME IInv, NEW p \in Procs, tx[p].pc = "write", CanWrite(p)
  PROVE  /\ NewRow(p).onHand = RowBefore(p).onHand
              + Ledger!OnHandDelta(MovementOf(p).type, MovementOf(p).qty)
         /\ NewRow(p).reserved = RowBefore(p).reserved
              + Ledger!ReservedDelta(MovementOf(p).type, MovementOf(p).qty)
         /\ balance[tx[p].stock] = NoRow => MovementOf(p).type \in {"RECEIPT", "ADJUSTMENT"}
<1> DEFINE m   == MovementOf(p)
           s   == tx[p].stock
           op  == tx[p].op
           old == RowBefore(p)
<1>1. m.stock = s /\ (m.qty = IF tx[p].qty < 0 THEN -tx[p].qty ELSE tx[p].qty)
  BY DEF MovementOf
<1>2. /\ s \in Stocks /\ tx[p].qty \in Int /\ op \in AllOps
      /\ balance[s] \in Row \cup {NoRow}
      /\ op # "adjust" => tx[p].qty \in Nat
  BY WriterTypes
<1>3. old.onHand \in Nat /\ old.reserved \in Nat
  <2>1. old \in Row
    BY <1>2 DEF Row, Zero, RowBefore
  <2> QED
    BY <2>1 DEF Row
<1>4. tx[p].snap = NoRow => balance[s] = NoRow /\ op = "adjust"
  BY DEF CanWrite, Locked, IInv, TxOK
<1>5. tx[p].snap # NoRow => balance[s] = tx[p].snap /\ balance[s] # NoRow
  BY DEF CanWrite, Locked, IInv, Fence
<1>6. CASE op = "adjust"
  <2>1. NewRow(p).onHand = old.onHand + tx[p].qty /\ NewRow(p).reserved = old.reserved
    BY <1>4, <1>5, <1>6 DEF NewRow, RowBefore
  <2>2. m.type = IF tx[p].qty >= 0 THEN "RECEIPT" ELSE "ADJUSTMENT"
    BY <1>6 DEF MovementOf
  <2>3. Ledger!OnHandDelta(m.type, m.qty) = tx[p].qty /\ Ledger!ReservedDelta(m.type, m.qty) = 0
    BY <1>1, <1>2, <2>2 DEF Ledger!OnHandDelta, Ledger!ReservedDelta
  <2> QED
    BY <1>1, <1>3, <2>1, <2>2, <2>3
<1>7. CASE op = "reserve"
  <2>1. NewRow(p).onHand = old.onHand /\ NewRow(p).reserved = old.reserved + tx[p].qty
    BY <1>7 DEF NewRow, RowBefore
  <2>2. m.type = "RESERVATION" /\ m.qty = tx[p].qty
    BY <1>1, <1>2, <1>7 DEF MovementOf
  <2>3. Ledger!OnHandDelta(m.type, m.qty) = 0 /\ Ledger!ReservedDelta(m.type, m.qty) = tx[p].qty
    BY <2>2 DEF Ledger!OnHandDelta, Ledger!ReservedDelta
  <2> QED
    BY <1>1, <1>3, <1>4, <1>5, <1>7, <2>1, <2>3
<1>8. CASE op \in {"commit", "sale"}
  <2>1. NewRow(p).onHand = old.onHand - tx[p].qty /\ NewRow(p).reserved = old.reserved - tx[p].qty
    BY <1>8 DEF NewRow, RowBefore
  <2>2. m.type = "SALE" /\ m.qty = tx[p].qty
    BY <1>1, <1>2, <1>8 DEF MovementOf
  <2>3. Ledger!OnHandDelta(m.type, m.qty) = -tx[p].qty /\ Ledger!ReservedDelta(m.type, m.qty) = -tx[p].qty
    BY <2>2 DEF Ledger!OnHandDelta, Ledger!ReservedDelta
  <2> QED
    BY <1>1, <1>2, <1>3, <1>4, <1>5, <1>8, <2>1, <2>3
<1>9. CASE op \in Releases \cup {"expire"}
  <2>1. NewRow(p).onHand = old.onHand /\ NewRow(p).reserved = old.reserved - tx[p].qty
    BY <1>9 DEF NewRow, RowBefore, Releases
  <2>2. m.type = "RELEASE" /\ m.qty = tx[p].qty
    BY <1>1, <1>2, <1>9 DEF MovementOf, Releases
  <2>3. Ledger!OnHandDelta(m.type, m.qty) = 0 /\ Ledger!ReservedDelta(m.type, m.qty) = -tx[p].qty
    BY <2>2 DEF Ledger!OnHandDelta, Ledger!ReservedDelta
  <2> QED
    BY <1>1, <1>2, <1>3, <1>4, <1>5, <1>9, <2>1, <2>3 DEF Releases
<1> QED
  BY <1>2, <1>6, <1>7, <1>8, <1>9 DEF AllOps, Releases

LEMMA AbstractRow ==
  ASSUME NEW row \in Row
  PROVE  Abstract(row) # NoRow
  BY ConstantsAssumption DEF Abstract, Row

LEMMA PostRefines ==
  ASSUME IInv, NEW p \in Procs, tx[p].pc = "write", CanWrite(p), Post(p)
  PROVE  Ledger!LedgerNext
<1> DEFINE m     == MovementOf(p)
           s     == tx[p].stock
           was   == [u \in Stocks |-> Abstract(balance[u])]
           row   == IF was[s] = NoRow THEN [onHand |-> 0, reserved |-> 0] ELSE was[s]
           new   == [onHand   |-> row.onHand + Ledger!OnHandDelta(m.type, m.qty),
                     reserved |-> row.reserved + Ledger!ReservedDelta(m.type, m.qty)]
<1>1. m \in Movement /\ m.stock = s /\ s \in Stocks /\ m.type \in Ledger!Types /\ m.qty \in Nat
  <2>1. m \in Movement /\ m.stock = s /\ s \in Stocks
    BY MovementType, WriterTypes DEF MovementOf
  <2> QED
    BY <2>1 DEF Movement, Ledger!Types
<1>2. /\ balance \in [Stocks -> Row \cup {NoRow}]
      /\ balance' = [balance EXCEPT ![s] = NewRow(p)]
      /\ NewRow(p) \in Row /\ NewRow(p) # NoRow /\ CheckOK(NewRow(p))
  BY NewRowRow, ConstantsAssumption DEF IInv, TypeOK, Post, CanWrite
<1>3. was[s] = NoRow <=> balance[s] = NoRow
  <2>1. CASE balance[s] = NoRow
    BY <1>1, <2>1 DEF Abstract
  <2>2. CASE balance[s] # NoRow
    <3>1. was[s] = [onHand |-> balance[s].onHand, reserved |-> balance[s].reserved]
      BY <1>1, <2>2 DEF Abstract
    <3>2. was[s] # NoRow
      BY <1>1, <1>2, <2>2, <3>1, AbstractRow
    <3> QED
      BY <2>2, <3>2
  <2> QED
    BY <2>1, <2>2
<1>4. row.onHand = RowBefore(p).onHand /\ row.reserved = RowBefore(p).reserved
  BY <1>1, <1>3 DEF Abstract, RowBefore, Zero
<1>5. new = [onHand |-> NewRow(p).onHand, reserved |-> NewRow(p).reserved]
  BY <1>4, PostMovesRow
<1>6. balance[s] = NoRow => m.type \in {"RECEIPT", "ADJUSTMENT"}
  BY PostMovesRow
<1>7. [u \in Stocks |-> Abstract(balance'[u])] = [was EXCEPT ![s] = new]
  BY <1>1, <1>2, <1>5 DEF Abstract
<1>8. Ledger!RowValid(new)
  BY <1>2, <1>5 DEF CheckOK, Ledger!RowValid
<1>9. m \notin movements /\ ~(\E n \in movements : n.key = m.key) /\ movements' = movements \cup {m}
  BY NewMovement DEF Post, CanWrite, Recorded, MovementOf
<1> QED
  <2>1. Ledger!Post(m)
    <3>1. was = LedgerStock /\ [u \in Stocks |-> Abstract(balance'[u])] = LedgerStock'
      BY DEF LedgerStock, Abstract
    <3> HIDE DEF m, was
    <3> QED
      BY <1>1, <1>3, <1>6, <1>7, <1>8, <1>9, <3>1 DEF Ledger!Post, Ledger!Posted
  <2>2. m \in movements' \ movements
    BY <1>9
  <2> HIDE DEF m, s, was, row, new
  <2> QED
    BY <2>1, <2>2, Zenon DEF Ledger!LedgerNext, Ledger!Post

LEMMA LedgerStarts == Init => Ledger!LedgerInit
<1> SUFFICES ASSUME Init
             PROVE  Ledger!LedgerInit
  OBVIOUS
<1>1. ASSUME NEW s \in Stocks, LedgerStock[s] # NoRow
      PROVE  Ledger!RowValid(LedgerStock[s])
  <2>1. Opening[s] \in Nat \cup {NoRow}
    BY ConstantsAssumption
  <2>2. balance[s] # NoRow
    BY <1>1 DEF LedgerStock, Abstract
  <2>3. balance[s] = [onHand |-> Opening[s], reserved |-> 0, version |-> 0] /\ Opening[s] \in Nat
    BY <2>1, <2>2 DEF Init
  <2>4. LedgerStock[s] = [onHand |-> Opening[s], reserved |-> 0]
    BY <2>2, <2>3 DEF LedgerStock, Abstract
  <2> QED
    BY <2>3, <2>4 DEF Ledger!RowValid
<1> QED
  BY <1>1 DEF Init, Ledger!LedgerInit

LEMMA LedgerSteps == IInv /\ [Next]_vars => [Ledger!LedgerNext]_<<LedgerStock, movements>>
<1> SUFFICES ASSUME IInv, [Next]_vars
             PROVE  Ledger!LedgerNext \/ UNCHANGED <<LedgerStock, movements>>
  OBVIOUS
<1>1. CASE UNCHANGED <<balance, movements>>
  BY <1>1 DEF LedgerStock, Abstract
<1>2. CASE \E p \in Procs : tx[p].pc = "write" /\ CanWrite(p) /\ Post(p)
  BY <1>2, PostRefines
<1> QED
  BY <1>1, <1>2, PostOrKeep

\* Under every interleaving of the statements of any number of requests and
\* job ticks, the committed rows and journal behave as one serial ledger.
THEOREM Serialised == Spec => LedgerImplemented
  BY LedgerStarts, LedgerSteps, Invariance, PTL
     DEF Spec, LedgerImplemented, Ledger!LedgerSpec

-----------------------------------------------------------------------------
(***************************************************************************)
(* Final statuses.                                                         *)
(***************************************************************************)
\* A transaction that ends a reservation works under the key of that end, and, once it has read the
\* reservation, with its stock and quantity.
Traced(p) ==
  Open(p) /\ tx[p].op \in Finishers =>
    /\ tx[p].op # "commit" => tx[p].key = ResKey(tx[p].op, tx[p].res)
    /\ tx[p].pc # "status" => /\ tx[p].stock = reservations[tx[p].res].stock
                              /\ tx[p].qty = reservations[tx[p].res].qty
AllTraced == \A p \in Procs : Traced(p)

\* Reservations are not deleted and keep their stock and quantity.
Kept ==
  \A r \in Ids : /\ r \in Ids'
                 /\ reservations'[r].stock = reservations[r].stock
                 /\ reservations'[r].qty = reservations[r].qty

\* The others' transactions stay traced while one process moves.
LEMMA TracedStays ==
  ASSUME IInv, AllTraced, NEW p \in Procs, Kept, \A q \in Procs \ {p} : tx'[q] = tx[q], Traced(p)'
  PROVE  AllTraced'
<1> SUFFICES ASSUME NEW q \in Procs \ {p} PROVE Traced(q)'
  BY DEF AllTraced, Traced, Open
<1>1. tx'[q] = tx[q] /\ Traced(q) /\ TxOK(q)
  BY DEF IInv, AllTraced
<1> QED
  BY <1>1 DEF Traced, Open, TxOK, Kept

LEMMA TracedLocal ==
  ASSUME IInv, AllTraced, NEW p \in Procs, NEW t \in Tx, tx' = [tx EXCEPT ![p] = t],
         UNCHANGED reservations,
         \/ t.pc \in {"idle", "acked"} \/ t.op \notin Finishers
         \/ t.pc = "status" /\ (t.op # "commit" => t.key = ResKey(t.op, t.res))
         \/ /\ Open(p) /\ t.op = tx[p].op /\ t.key = tx[p].key /\ t.res = tx[p].res
            /\ t.stock = reservations[t.res].stock /\ t.qty = reservations[t.res].qty
  PROVE  AllTraced'
<1>1. tx'[p] = t /\ \A q \in Procs \ {p} : tx'[q] = tx[q]
  BY DEF IInv, TypeOK
<1>2. Kept
  BY DEF Kept, Ids
<1>3. Traced(p)'
  BY <1>1 DEF AllTraced, Traced, Open
<1> QED
  BY <1>1, <1>2, <1>3, TracedStays

LEMMA TracedFail ==
  ASSUME IInv, AllTraced, NEW p \in Procs, Fail(p), UNCHANGED reservations
  PROVE  AllTraced'
<1>1. IdleTx.pc = "idle"
  BY DEF IdleTx, Started
<1> QED
  BY <1>1, IdleType, TracedLocal DEF Fail

LEMMA TracedAck ==
  ASSUME IInv, AllTraced, NEW p \in Procs, Ack(p), Kept
  PROVE  AllTraced'
<1>1. tx[p] \in Tx
  BY DEF IInv, TypeOK
<1>2. tx'[p].pc = "acked" /\ \A q \in Procs \ {p} : tx'[q] = tx[q]
  BY <1>1 DEF Ack, IInv, TypeOK, Tx
<1> QED
  BY <1>2, TracedStays DEF Traced, Open

LEMMA TracedCall ==
  ASSUME IInv, AllTraced, NEW p \in Requests, Call(p)
  PROVE  AllTraced'
<1>1. p \in Procs /\ \A q \in Procs \ {p} : tx'[q] = tx[q]
  BY DEF Procs, Call, CallAdjust, CallReserve, CallFinish, IInv, TypeOK
<1>2. Kept
  BY DEF Kept, Ids, Call, CallAdjust, CallReserve, CallFinish
<1>3. Traced(p)'
  <2>1. ASSUME NEW op \in Finishers, NEW r, NEW key, CallFinish(p, op, r, key),
               op # "commit" => key = ResKey(op, r)
        PROVE  Traced(p)'
    BY <1>1, <2>1 DEF CallFinish, Started, Traced, Open, IInv, TypeOK
  <2>2. ASSUME NEW s, NEW delta, NEW k, CallAdjust(p, s, delta, k) PROVE Traced(p)'
    BY <1>1, <2>2 DEF CallAdjust, Started, Traced, Open, Finishers, Releases, IInv, TypeOK
  <2>3. ASSUME NEW s, NEW qty, NEW ref, NEW k, CallReserve(p, s, qty, ref, k) PROVE Traced(p)'
    BY <1>1, <2>3 DEF CallReserve, Started, Traced, Open, Finishers, Releases, IInv, TypeOK
  <2>4. Releases \subseteq Finishers /\ "commit" \in Finishers /\ "sale" \in Finishers
    BY DEF Finishers
  <2> QED
    BY <2>1, <2>2, <2>3, <2>4 DEF Call
<1> QED
  BY <1>1, <1>2, <1>3, TracedStays

LEMMA TracedTick ==
  ASSUME IInv, AllTraced, NEW j \in Jobs, Tick(j)
  PROVE  AllTraced'
<1>1. ASSUME NEW B \in SUBSET HeldIds, FindExpired(j, B) PROVE AllTraced'
  BY <1>1 DEF FindExpired, AllTraced, Traced, Open
<1>2. ASSUME NEW r \in batch[j], NextExpired(j, r) PROVE AllTraced'
  <2>1. j \in Procs /\ \A q \in Procs \ {j} : tx'[q] = tx[q]
    BY <1>2 DEF Procs, NextExpired, IInv, TypeOK
  <2>2. Kept
    BY <1>2 DEF Kept, Ids, NextExpired
  <2>3. Traced(j)'
    BY <1>2, <2>1 DEF NextExpired, Started, Traced, Open, IInv, TypeOK
  <2> QED
    BY <2>1, <2>2, <2>3, TracedStays
<1> QED
  BY <1>1, <1>2 DEF Tick

LEMMA TracedRead ==
  ASSUME IInv, AllTraced, NEW p \in Procs, Read(p)
  PROVE  AllTraced'
<1>1. /\ tx[p] \in Tx /\ TxOK(p) /\ Traced(p) /\ UNCHANGED reservations /\ Kept
      /\ \A q \in Procs \ {p} : tx'[q] = tx[q]
  BY DEF IInv, TypeOK, AllTraced, Read, ReadStatus, FindMovement, MatchHeld, ReadBalance, Kept, Ids,
         Ack, Fail, Goto
<1>2. CASE ReadStatus(p)
  <2> DEFINE row == reservations[tx[p].res]
             pc  == IF tx[p].op \in Releases \cup {"commit"} THEN "key" ELSE "balance"
  <2>1. CASE tx' = [tx EXCEPT ![p].pc = pc, ![p].stock = row.stock, ![p].qty = row.qty]
    <3>1. tx[p].pc = "status"
      BY <1>2 DEF ReadStatus
    <3>2. /\ tx'[p].op = tx[p].op /\ tx'[p].key = tx[p].key /\ tx'[p].res = tx[p].res
          /\ tx'[p].stock = row.stock /\ tx'[p].qty = row.qty
      <4> HIDE DEF row, pc
      <4> QED
        BY <1>1, <2>1 DEF IInv, TypeOK, Tx
    <3>3. Traced(p)'
      BY <1>1, <3>1, <3>2 DEF Traced, Open
    <3> QED
      BY <1>1, <3>3, TracedStays
  <2>2. CASE Ack(p)
    BY <1>1, <2>2, TracedAck
  <2>3. CASE Fail(p)
    BY <1>1, <2>3, TracedFail
  <2> QED
    BY <1>2, <2>1, <2>2, <2>3 DEF ReadStatus
<1>3. ASSUME NEW pc \in {"match", "balance"}, tx[p].pc \in {"key", "match"}, Goto(p, pc)
      PROVE  AllTraced'
  <2>1. /\ tx'[p].op = tx[p].op /\ tx'[p].key = tx[p].key /\ tx'[p].res = tx[p].res
        /\ tx'[p].stock = tx[p].stock /\ tx'[p].qty = tx[p].qty
    BY <1>1, <1>3 DEF Goto, IInv, TypeOK, Tx
  <2>2. Traced(p)'
    BY <1>1, <1>3, <2>1 DEF Traced, Open
  <2> QED
    BY <1>1, <2>2, TracedStays
<1>4. CASE FindMovement(p)
  BY <1>1, <1>3, <1>4, TracedAck DEF FindMovement
<1>5. CASE MatchHeld(p)
  <2>1. ASSUME NEW r, tx' = [tx EXCEPT ![p].pc = "acked", ![p].res = r] PROVE AllTraced'
    <3>1. tx'[p].pc = "acked"
      BY <1>1, <2>1 DEF IInv, TypeOK, Tx
    <3> QED
      BY <1>1, <3>1, TracedStays DEF Traced, Open
  <2> QED
    BY <1>3, <1>5, <2>1 DEF MatchHeld
<1>6. CASE ReadBalance(p)
  <2> DEFINE found == balance[tx[p].stock]
  <2>1. CASE tx' = [tx EXCEPT ![p].pc = "write", ![p].snap = found]
    <3>1. /\ tx'[p].op = tx[p].op /\ tx'[p].key = tx[p].key /\ tx'[p].res = tx[p].res
          /\ tx'[p].stock = tx[p].stock /\ tx'[p].qty = tx[p].qty
      <4> HIDE DEF found
      <4> QED
        BY <1>1, <2>1 DEF IInv, TypeOK, Tx
    <3>2. Traced(p)'
      BY <1>1, <1>6, <3>1 DEF Traced, Open, ReadBalance
    <3> QED
      BY <1>1, <3>2, TracedStays
  <2>2. CASE Fail(p)
    BY <1>1, <2>2, TracedFail
  <2> QED
    BY <1>6, <2>1, <2>2 DEF ReadBalance
<1> QED
  BY <1>2, <1>4, <1>5, <1>6 DEF Read

\* The journal keeps what a final status stands on.
LEMMA FinalStays ==
  ASSUME FinalStatusHasMovement, movements \subseteq movements', UNCHANGED reservations
  PROVE  FinalStatusHasMovement'
  BY DEF FinalStatusHasMovement, Ids, Recorded, ResKey

\* A finisher's own movement is the one its status stands on.
LEMMA FinishFinal ==
  ASSUME IInv, AllTraced, FinalStatusHasMovement, NEW p \in Procs, WriteFinish(p)
  PROVE  FinalStatusHasMovement' /\ Kept
<1> DEFINE r == tx[p].res
           op == tx[p].op
           st == FinalStatus(op)
           m == MovementOf(p)
<1>1. /\ r \in Ids /\ op \in Finishers /\ tx[p].pc = "write" /\ tx[p].qty \in Nat
  BY WriterTypes DEF WriteFinish, Finishers, Releases
<1>2. /\ op # "commit" => tx[p].key = ResKey(op, r)
      /\ tx[p].stock = reservations[r].stock /\ tx[p].qty = reservations[r].qty
  BY <1>1 DEF AllTraced, Traced, Open
<1>3. /\ movements' = movements \cup {m} /\ m.key = tx[p].key /\ m.stock = tx[p].stock
      /\ m.qty = tx[p].qty /\ (op \in {"commit", "sale"} => m.type = "SALE")
  BY <1>1 DEF WriteFinish, Post, MovementOf
<1>4. /\ st = "EXPIRED" => op = "expire"
      /\ st = "RELEASED" => op \in Releases
      /\ st = "COMMITTED" => op \in {"commit", "sale"}
  BY <1>1 DEF FinalStatus, Finishers, Releases
<1>5. reservations' = [reservations EXCEPT ![r].status = st]
  BY DEF WriteFinish
<1> HIDE DEF st, m, op, r
<1>6. \A x \in Ids : reservations[x] \in Reservation
  BY DEF IInv, TypeOK, Ids
<1>7. /\ Ids' = Ids /\ \A x \in Ids \ {r} : reservations'[x] = reservations[x]
      /\ reservations'[r].status = st /\ reservations'[r].stock = reservations[r].stock
      /\ reservations'[r].qty = reservations[r].qty
  BY <1>1, <1>5, <1>6 DEF Ids, Reservation
<1>8. Kept
  BY <1>7 DEF Kept
<1>9. ASSUME NEW x \in Ids, x # r
      PROVE  /\ reservations'[x].status = "EXPIRED" => \E n \in movements' : n.key = ResKey("expire", x)
             /\ reservations'[x].status = "RELEASED" =>
                  \E kind \in Releases : \E n \in movements' : n.key = ResKey(kind, x)
             /\ reservations'[x].status = "COMMITTED" =>
                  \E n \in movements' : /\ n.type = "SALE" /\ n.stock = reservations'[x].stock
                                        /\ n.qty = reservations'[x].qty
  BY <1>3, <1>7, <1>9 DEF FinalStatusHasMovement, Recorded
<1>10. /\ st = "EXPIRED" => \E n \in movements' : n.key = ResKey("expire", r)
       /\ st = "RELEASED" => \E kind \in Releases : \E n \in movements' : n.key = ResKey(kind, r)
       /\ st = "COMMITTED" =>
            \E n \in movements' : /\ n.type = "SALE" /\ n.stock = reservations'[r].stock
                                  /\ n.qty = reservations'[r].qty
  <2>1. m \in movements'
    BY <1>3
  <2>2. CASE op = "expire"
    BY <1>2, <1>3, <1>4, <2>1, <2>2 DEF Releases
  <2>3. CASE op \in Releases
    BY <1>2, <1>3, <1>4, <2>1, <2>3 DEF Releases
  <2>4. CASE op \in {"commit", "sale"}
    BY <1>2, <1>3, <1>4, <1>7, <2>1, <2>4 DEF Releases
  <2> QED
    BY <1>1, <2>2, <2>3, <2>4 DEF Finishers, op
<1> QED
  BY <1>7, <1>8, <1>9, <1>10 DEF FinalStatusHasMovement, Recorded, ResKey

LEMMA FinalStep ==
  ASSUME IInv, AllTraced, FinalStatusHasMovement, [Next]_vars
  PROVE  AllTraced' /\ FinalStatusHasMovement'
<1>1. ASSUME NEW p \in Requests, Call(p) PROVE AllTraced' /\ FinalStatusHasMovement'
  BY <1>1, TracedCall, FinalStays DEF Call, CallAdjust, CallReserve, CallFinish
<1>2. ASSUME NEW j \in Jobs, Tick(j) PROVE AllTraced' /\ FinalStatusHasMovement'
  BY <1>2, TracedTick, FinalStays DEF Tick, FindExpired, NextExpired
<1>3. ASSUME NEW p \in Procs, Read(p) PROVE AllTraced' /\ FinalStatusHasMovement'
  BY <1>3, TracedRead, FinalStays DEF Read, ReadStatus, FindMovement, MatchHeld, ReadBalance
<1>4. ASSUME NEW p \in Procs, Crash(p) \/ WriteRejected(p)
      PROVE  AllTraced' /\ FinalStatusHasMovement'
  BY <1>4, TracedFail, FinalStays DEF Crash, WriteRejected
<1>5. ASSUME NEW p \in Procs, WriteAdjust(p) \/ AdjustDuplicate(p)
      PROVE  AllTraced' /\ FinalStatusHasMovement'
  <2>1. Kept /\ Ack(p) /\ movements \subseteq movements' /\ UNCHANGED reservations
    BY <1>5 DEF WriteAdjust, AdjustDuplicate, Kept, Ids, Post
  <2> QED
    BY <2>1, TracedAck, FinalStays
<1>6. ASSUME NEW p \in Procs, WriteFinish(p) PROVE AllTraced' /\ FinalStatusHasMovement'
  BY <1>6, FinishFinal, TracedAck DEF WriteFinish
<1>7. ASSUME NEW p \in Procs, WriteReserve(p) PROVE AllTraced' /\ FinalStatusHasMovement'
  <2> DEFINE new == [stock |-> tx[p].stock, qty |-> tx[p].qty, ref |-> tx[p].ref, status |-> "HELD"]
             n == Len(reservations) + 1
  <2>1. reservations' = Append(reservations, new) /\ new.status = "HELD"
    BY <1>7 DEF WriteReserve
  <2> HIDE DEF new
  <2>2. reservations \in Seq(Reservation) /\ tx[p] \in Tx
    BY DEF IInv, TypeOK
  <2>3. /\ Ids' = Ids \cup {n} /\ \A x \in Ids : reservations'[x] = reservations[x]
        /\ reservations'[n] = new
    BY <2>1, <2>2 DEF Ids
  <2>4. Kept
    BY <2>3 DEF Kept
  <2>5. tx'[p].pc = "acked" /\ \A q \in Procs \ {p} : tx'[q] = tx[q]
    BY <1>7, <2>2 DEF WriteReserve, IInv, TypeOK, Tx
  <2>6. AllTraced'
    BY <2>4, <2>5, TracedStays DEF Traced, Open
  <2>7. movements \subseteq movements'
    BY <1>7 DEF WriteReserve, Post
  <2>8. new.status \notin {"EXPIRED", "RELEASED", "COMMITTED"}
    BY <2>1
  <2> HIDE DEF n
  <2>9. FinalStatusHasMovement'
    <3> SUFFICES ASSUME NEW x \in Ids'
                 PROVE  /\ reservations'[x].status = "EXPIRED" => Recorded(ResKey("expire", x))'
                        /\ reservations'[x].status = "RELEASED" =>
                             \E kind \in Releases : Recorded(ResKey(kind, x))'
                        /\ reservations'[x].status = "COMMITTED" =>
                             \E m \in movements' : /\ m.type = "SALE"
                                                   /\ m.stock = reservations'[x].stock
                                                   /\ m.qty = reservations'[x].qty
      BY DEF FinalStatusHasMovement, ResKey
    <3>1. CASE x \in Ids
      BY <2>3, <2>7, <3>1 DEF FinalStatusHasMovement, Recorded, ResKey
    <3>2. CASE x = n
      BY <2>3, <2>8, <3>2
    <3> QED
      BY <2>3, <3>1, <3>2
  <2> QED
    BY <2>6, <2>9
<1>8. CASE UNCHANGED vars
  BY <1>8, FinalStays DEF vars, AllTraced, Traced, Open
<1> QED
  BY <1>1, <1>2, <1>3, <1>4, <1>5, <1>6, <1>7, <1>8 DEF Next, Write

LEMMA TracedAlways == Spec => [](AllTraced /\ FinalStatusHasMovement)
<1>1. Init => AllTraced /\ FinalStatusHasMovement
  <2> SUFFICES ASSUME Init PROVE AllTraced /\ FinalStatusHasMovement
    OBVIOUS
  <2>1. Ids = {}
    BY DEF Init, Ids
  <2>2. \A p \in Procs : tx[p].pc = "idle"
    BY DEF Init, IdleTx, Started
  <2> QED
    BY <2>1, <2>2 DEF AllTraced, Traced, Open, FinalStatusHasMovement
<1>2. IInv /\ (AllTraced /\ FinalStatusHasMovement) /\ [Next]_vars => (AllTraced /\ FinalStatusHasMovement)'
  BY FinalStep
<1> QED
  BY <1>1, <1>2, Invariance, PTL DEF Spec

\* Whichever of cancel, expiry, payment and commit overlap, a reservation shows a final status only
\* with the movement of that status in the journal, although the status is written by id alone.
THEOREM FinalIsJournalled == Spec => []FinalStatusHasMovement
  BY TracedAlways, PTL

-----------------------------------------------------------------------------
(***************************************************************************)
(* Quantities added up.                                                    *)
(***************************************************************************)
FiniteUnits(S, qty) == IsFiniteSet(Units(S, qty))

\* No units behind nothing; the units of one more element come on top.
LEMMA UnitsNone == \A qty : FiniteUnits({}, qty) /\ Cardinality(Units({}, qty)) = 0
  BY FS_EmptySet DEF Units, FiniteUnits

LEMMA UnitsOfOne ==
  ASSUME NEW x, NEW n \in Nat
  PROVE  IsFiniteSet({x} \X (1..n)) /\ Cardinality({x} \X (1..n)) = n
<1>1. IsFiniteSet(1..n) /\ Cardinality(1..n) = n
  BY FS_Interval
<1>2. IsFiniteSet({x}) /\ Cardinality({x}) = 1
  BY FS_Singleton
<1> QED
  BY <1>1, <1>2, FS_Product

LEMMA UnitsAdd ==
  ASSUME NEW S, NEW x, x \notin S, NEW qty, qty[x] \in Nat, FiniteUnits(S, qty)
  PROVE  /\ FiniteUnits(S \cup {x}, qty)
         /\ Cardinality(Units(S \cup {x}, qty)) = Cardinality(Units(S, qty)) + qty[x]
<1> DEFINE U == Units(S, qty)
           V == {x} \X (1..qty[x])
<1>1. Units(S \cup {x}, qty) = U \cup V
  BY DEF Units
<1>2. U \cap V = {}
  BY DEF Units
<1>3. IsFiniteSet(V) /\ Cardinality(V) = qty[x]
  BY UnitsOfOne
<1>4. IsFiniteSet(U) /\ Cardinality(U) \in Nat
  BY FS_CardinalityType DEF FiniteUnits
<1> HIDE DEF U, V
<1>5. /\ IsFiniteSet(U \cup V)
      /\ Cardinality(U \cup V) = Cardinality(U) + Cardinality(V) - Cardinality(U \cap V)
  BY <1>3, <1>4, FS_Union
<1>6. Cardinality(U \cap V) = 0
  BY <1>2, FS_EmptySet
<1>7. IsFiniteSet(Units(S \cup {x}, qty))
  BY <1>1, <1>5
<1>8. Cardinality(Units(S \cup {x}, qty)) = Cardinality(U) + qty[x]
  <2>1. Cardinality(Units(S \cup {x}, qty)) = Cardinality(U \cup V)
    BY <1>1, Zenon
  <2> QED
    BY <1>3, <1>4, <1>5, <1>6, <2>1
<1> QED
  BY <1>7, <1>8 DEF FiniteUnits, U

\* Only the quantities of the elements count.
LEMMA UnitsSame ==
  ASSUME NEW S, NEW q, NEW r, \A x \in S : q[x] = r[x]
  PROVE  Units(S, q) = Units(S, r)
  BY DEF Units

-----------------------------------------------------------------------------
(***************************************************************************)
(* The units on hold.                                                      *)
(***************************************************************************)
HeldOf(s) == {r \in HeldIds : reservations[r].stock = s}
Quantity == [r \in Ids |-> reservations[r].qty]
HoldsCounted ==
  \A s \in Stocks :
    /\ FiniteUnits(HeldOf(s), Quantity)
    /\ balance[s] # NoRow => balance[s].reserved <= Cardinality(Units(HeldOf(s), Quantity))

LEMMA HeldAtStart == Init => HoldsCounted
<1> SUFFICES ASSUME Init, NEW s \in Stocks
             PROVE  /\ FiniteUnits(HeldOf(s), Quantity)
                    /\ balance[s] # NoRow =>
                         balance[s].reserved <= Cardinality(Units(HeldOf(s), Quantity))
  BY DEF HoldsCounted
<1>1. HeldOf(s) = {}
  BY DEF Init, HeldOf, HeldIds, Ids
<1>2. balance[s] # NoRow => balance[s].reserved = 0
  BY DEF Init
<1> QED
  BY <1>1, <1>2, UnitsNone

\* The reservations stay and no balance counts more holds than before.
LEMMA HoldsKept ==
  ASSUME IInv, IInv', HoldsCounted, UNCHANGED reservations,
         \A s \in Stocks : balance'[s] # NoRow =>
           \/ balance'[s].reserved = 0
           \/ balance[s] # NoRow /\ balance'[s].reserved <= balance[s].reserved
  PROVE  HoldsCounted'
<1> SUFFICES ASSUME NEW s \in Stocks
             PROVE  /\ FiniteUnits(HeldOf(s)', Quantity')
                    /\ balance'[s] # NoRow =>
                         balance'[s].reserved <= Cardinality(Units(HeldOf(s)', Quantity'))
  BY DEF HoldsCounted
<1>1. HeldOf(s)' = HeldOf(s) /\ Quantity' = Quantity
  BY DEF HeldOf, HeldIds, Quantity, Ids
<1>2. FiniteUnits(HeldOf(s), Quantity) /\ Cardinality(Units(HeldOf(s), Quantity)) \in Nat
  BY FS_CardinalityType DEF HoldsCounted, FiniteUnits
<1>3. balance'[s] # NoRow =>
        /\ balance'[s].reserved \in Nat
        /\ balance[s] # NoRow => balance[s].reserved \in Nat
  BY DEF IInv, TypeOK, Row
<1> QED
  BY <1>1, <1>2, <1>3 DEF HoldsCounted

\* What a commit leaves of the other balances and of its own.
LEMMA PostedRow ==
  ASSUME IInv, NEW p \in Procs, tx[p].pc = "write", CanWrite(p), Post(p)
  PROVE  /\ tx[p].stock \in Stocks /\ balance'[tx[p].stock] = NewRow(p)
         /\ NewRow(p) \in Row /\ NewRow(p) # NoRow
         /\ \A s \in Stocks \ {tx[p].stock} : balance'[s] = balance[s]
<1>1. tx[p].stock \in Stocks /\ NewRow(p) \in Row /\ NewRow(p) # NoRow
  BY WriterTypes, NewRowRow, ConstantsAssumption DEF CanWrite
<1> QED
  BY <1>1 DEF Post, IInv, TypeOK

LEMMA HoldsAdjusted ==
  ASSUME IInv, IInv', HoldsCounted, NEW p \in Procs, WriteAdjust(p)
  PROVE  HoldsCounted'
<1>1. tx[p].pc = "write" /\ tx[p].op = "adjust" /\ CanWrite(p) /\ Post(p)
  BY DEF WriteAdjust
<1>2. NewRow(p).reserved = IF balance[tx[p].stock] = NoRow THEN 0
                           ELSE balance[tx[p].stock].reserved
  BY <1>1 DEF NewRow, Zero
<1>3. \A s \in Stocks : balance[s] # NoRow => balance[s].reserved \in Nat
  BY DEF IInv, TypeOK, Row
<1>4. ASSUME NEW s \in Stocks, balance'[s] # NoRow
      PROVE  \/ balance'[s].reserved = 0
             \/ balance[s] # NoRow /\ balance'[s].reserved <= balance[s].reserved
  BY <1>1, <1>2, <1>3, <1>4, PostedRow
<1>5. UNCHANGED reservations
  BY DEF WriteAdjust
<1> QED
  BY <1>4, <1>5, HoldsKept

\* A writer other than adjust has a row, and its reservation's quantity is a number.
LEMMA HolderHasRow ==
  ASSUME IInv, NEW p \in Procs, tx[p].pc = "write", tx[p].op # "adjust", CanWrite(p)
  PROVE  balance[tx[p].stock] # NoRow /\ balance[tx[p].stock].reserved \in Nat
<1>1. tx[p].stock \in Stocks /\ balance[tx[p].stock] \in Row \cup {NoRow}
  BY WriterTypes
<1>2. tx[p].snap # NoRow
  BY DEF IInv, TxOK
<1> QED
  BY <1>1, <1>2 DEF CanWrite, Locked, Fresh, Row

LEMMA HoldsReserved ==
  ASSUME IInv, IInv', HoldsCounted, NEW p \in Procs, WriteReserve(p)
  PROVE  HoldsCounted'
<1>0. tx[p].stock \in Stocks
  BY WriterTypes DEF WriteReserve
<1> PICK u \in Stocks : u = tx[p].stock
  BY <1>0
<1> DEFINE n == Len(reservations) + 1
           new == [stock |-> u, qty |-> tx[p].qty, ref |-> tx[p].ref, status |-> "HELD"]
<1>1. tx[p].pc = "write" /\ tx[p].op = "reserve" /\ CanWrite(p) /\ Post(p) /\ tx[p].qty \in Nat
  BY WriterTypes DEF WriteReserve
<1>2. balance[u] # NoRow /\ balance[u].reserved \in Nat
  BY <1>1, HolderHasRow
<1>3. NewRow(p).reserved = balance[u].reserved + tx[p].qty
  BY <1>1, <1>2 DEF NewRow
<1>4. reservations' = Append(reservations, new) /\ reservations \in Seq(Reservation)
  BY DEF WriteReserve, IInv, TypeOK
<1>5. new.status = "HELD" /\ new.stock = u /\ new.qty = tx[p].qty
  OBVIOUS
<1> HIDE DEF new
<1>6. /\ n \notin Ids /\ Ids' = Ids \cup {n} /\ reservations'[n] = new
      /\ \A r \in Ids : reservations'[r] = reservations[r]
  BY <1>4 DEF Ids
<1> HIDE DEF n
<1>7. /\ HeldOf(u)' = HeldOf(u) \cup {n} /\ n \notin HeldOf(u)
      /\ \A s \in Stocks \ {u} : HeldOf(s)' = HeldOf(s)
  <2>1. HeldIds' = HeldIds \cup {n} /\ HeldIds \subseteq Ids
    BY <1>5, <1>6 DEF HeldIds
  <2>2. /\ reservations'[n].stock = u
        /\ \A r \in HeldIds : reservations'[r].stock = reservations[r].stock
    BY <1>5, <1>6, <2>1
  <2>3. \A s : HeldOf(s)' = {r \in HeldIds' : reservations'[r].stock = s}
    BY DEF HeldOf
  <2> QED
    BY <1>6, <2>1, <2>2, <2>3 DEF HeldOf
<1>8. Quantity'[n] = tx[p].qty /\ \A s \in Stocks : \A r \in HeldOf(s) : Quantity'[r] = Quantity[r]
  BY <1>5, <1>6 DEF Quantity, HeldOf, HeldIds
<1>9. \A s \in Stocks : Units(HeldOf(s), Quantity') = Units(HeldOf(s), Quantity)
  BY <1>8, UnitsSame
<1>10. \A s \in Stocks : /\ FiniteUnits(HeldOf(s), Quantity')
                         /\ Cardinality(Units(HeldOf(s), Quantity')) \in Nat
  BY <1>9, FS_CardinalityType DEF HoldsCounted, FiniteUnits
<1>11. u \in Stocks /\ balance'[u] = NewRow(p) /\ \A s \in Stocks \ {u} : balance'[s] = balance[s]
  BY <1>1, PostedRow
<1>12. FiniteUnits(HeldOf(u)', Quantity') /\ balance'[u].reserved <= Cardinality(Units(HeldOf(u)', Quantity'))
  <2>1. /\ FiniteUnits(HeldOf(u) \cup {n}, Quantity')
        /\ Cardinality(Units(HeldOf(u) \cup {n}, Quantity')) =
             Cardinality(Units(HeldOf(u), Quantity')) + tx[p].qty
    BY <1>1, <1>7, <1>8, <1>10, <1>11, UnitsAdd
  <2>2. balance[u].reserved <= Cardinality(Units(HeldOf(u), Quantity'))
    BY <1>2, <1>9, <1>11 DEF HoldsCounted
  <2> QED
    BY <1>1, <1>2, <1>3, <1>7, <1>10, <1>11, <2>1, <2>2
<1>13. ASSUME NEW s \in Stocks, s # u
       PROVE  /\ FiniteUnits(HeldOf(s)', Quantity')
              /\ balance'[s] # NoRow =>
                   balance'[s].reserved <= Cardinality(Units(HeldOf(s)', Quantity'))
  BY <1>7, <1>9, <1>10, <1>11, <1>13 DEF HoldsCounted
<1> SUFFICES ASSUME NEW s \in Stocks
             PROVE  /\ FiniteUnits(HeldOf(s)', Quantity')
                    /\ balance'[s] # NoRow =>
                         balance'[s].reserved <= Cardinality(Units(HeldOf(s)', Quantity'))
  BY DEF HoldsCounted
<1> QED
  BY <1>12, <1>13

\* A finisher gives back what its reservation held, or, when another was faster, what it did not.
LEMMA HoldsFinished ==
  ASSUME IInv, IInv', HoldsCounted, AllTraced, NEW p \in Procs, WriteFinish(p)
  PROVE  HoldsCounted'
<1>0. tx[p].stock \in Stocks /\ tx[p].res \in Ids
  BY WriterTypes DEF WriteFinish
<1> PICK u \in Stocks : u = tx[p].stock
  BY <1>0
<1> PICK r \in Ids : r = tx[p].res
  BY <1>0
<1> DEFINE st == FinalStatus(tx[p].op)
<1>1. /\ tx[p].pc = "write" /\ tx[p].op \in Finishers /\ CanWrite(p) /\ Post(p)
      /\ tx[p].op \notin {"adjust", "reserve"} /\ tx[p].qty \in Nat /\ r \in Ids
  BY WriterTypes DEF WriteFinish, Finishers, Releases
<1>2. balance[u] # NoRow /\ balance[u].reserved \in Nat
  BY <1>1, HolderHasRow
<1>3. NewRow(p).reserved = balance[u].reserved - tx[p].qty
  BY <1>1, <1>2 DEF NewRow
<1>4. /\ u = reservations[r].stock /\ tx[p].qty = reservations[r].qty
      /\ st # "HELD" /\ reservations' = [reservations EXCEPT ![r].status = st]
  BY <1>1 DEF WriteFinish, AllTraced, Traced, Open, FinalStatus
<1>5. \A x \in Ids : reservations[x] \in Reservation
  BY DEF IInv, TypeOK, Ids
<1> HIDE DEF st
<1>6. /\ Ids' = Ids /\ \A x \in Ids : /\ x # r => reservations'[x] = reservations[x]
                                      /\ reservations'[x].stock = reservations[x].stock
                                      /\ reservations'[x].qty = reservations[x].qty
      /\ reservations'[r].status # "HELD"
  BY <1>1, <1>4, <1>5 DEF Ids, Reservation
<1>7. Quantity' = Quantity /\ Quantity[r] = tx[p].qty
  BY <1>1, <1>4, <1>6 DEF Quantity
<1>8. /\ HeldOf(u)' = HeldOf(u) \ {r}
      /\ \A s \in Stocks \ {u} : HeldOf(s)' = HeldOf(s)
  <2>1. HeldIds' = HeldIds \ {r} /\ HeldIds \subseteq Ids
    BY <1>1, <1>6 DEF HeldIds
  <2>2. \A s : HeldOf(s)' = {x \in HeldIds' : reservations'[x].stock = s}
    BY DEF HeldOf
  <2> QED
    BY <1>4, <1>6, <2>1, <2>2 DEF HeldOf
<1>9. u \in Stocks /\ balance'[u] = NewRow(p) /\ \A s \in Stocks \ {u} : balance'[s] = balance[s]
  BY <1>1, PostedRow
<1>10. FiniteUnits(HeldOf(u)', Quantity)
  <2>1. Units(HeldOf(u)', Quantity) \subseteq Units(HeldOf(u), Quantity)
    BY <1>8 DEF Units
  <2> QED
    BY <1>9, <2>1, FS_Subset DEF HoldsCounted, FiniteUnits
<1>11. balance'[u].reserved <= Cardinality(Units(HeldOf(u)', Quantity))
  <2>1. balance[u].reserved <= Cardinality(Units(HeldOf(u), Quantity))
    BY <1>2, <1>9 DEF HoldsCounted
  <2>2. Cardinality(Units(HeldOf(u)', Quantity)) \in Nat
    BY <1>10, FS_CardinalityType DEF FiniteUnits
  <2>3. CASE r \in HeldOf(u)
    <3>1. HeldOf(u) = HeldOf(u)' \cup {r} /\ r \notin HeldOf(u)'
      BY <1>8, <2>3
    <3>2. Cardinality(Units(HeldOf(u), Quantity)) =
            Cardinality(Units(HeldOf(u)', Quantity)) + tx[p].qty
      BY <1>1, <1>7, <1>10, <3>1, UnitsAdd
    <3> QED
      BY <1>1, <1>2, <1>3, <1>9, <2>1, <2>2, <3>2
  <2>4. CASE r \notin HeldOf(u)
    <3>1. HeldOf(u)' = HeldOf(u)
      BY <1>8, <2>4
    <3> QED
      BY <1>1, <1>2, <1>3, <1>9, <2>1, <2>2, <3>1
  <2> QED
    BY <2>3, <2>4
<1> SUFFICES ASSUME NEW s \in Stocks
             PROVE  /\ FiniteUnits(HeldOf(s)', Quantity')
                    /\ balance'[s] # NoRow =>
                         balance'[s].reserved <= Cardinality(Units(HeldOf(s)', Quantity'))
  BY DEF HoldsCounted
<1>12. CASE s = u
  BY <1>7, <1>10, <1>11, <1>12
<1>13. CASE s # u
  BY <1>7, <1>8, <1>9, <1>13 DEF HoldsCounted
<1> QED
  BY <1>12, <1>13

LEMMA HoldsStep ==
  ASSUME IInv, IInv', AllTraced, HoldsCounted, [Next]_vars
  PROVE  HoldsCounted'
<1>1. CASE UNCHANGED <<balance, reservations>>
  <2>1. \A s \in Stocks : balance[s] # NoRow => balance[s].reserved \in Nat
    BY DEF IInv, TypeOK, Row
  <2> QED
    BY <1>1, <2>1, HoldsKept
<1>2. ASSUME NEW p \in Requests, Call(p) PROVE UNCHANGED <<balance, reservations>>
  BY <1>2 DEF Call, CallAdjust, CallReserve, CallFinish
<1>3. ASSUME NEW j \in Jobs, Tick(j) PROVE UNCHANGED <<balance, reservations>>
  BY <1>3 DEF Tick, FindExpired, NextExpired
<1>4. ASSUME NEW p \in Procs, Read(p) PROVE UNCHANGED <<balance, reservations>>
  BY <1>4 DEF Read, ReadStatus, FindMovement, MatchHeld, ReadBalance
<1>5. ASSUME NEW p \in Procs, AdjustDuplicate(p) \/ WriteRejected(p) \/ Crash(p)
      PROVE  UNCHANGED <<balance, reservations>>
  BY <1>5 DEF AdjustDuplicate, WriteRejected, Crash
<1>6. UNCHANGED vars => UNCHANGED <<balance, reservations>>
  BY DEF vars
<1> QED
  BY <1>1, <1>2, <1>3, <1>4, <1>5, <1>6, HoldsAdjusted, HoldsReserved, HoldsFinished DEF Next, Write

\* Whichever of cancel, expiry and payment overlap, no reserved unit is left without a HELD
\* reservation that accounts for it.
THEOREM NoHoldLeaks == Spec => []NoLeakedHold
<1>1. HoldsCounted => NoLeakedHold
  BY DEF HoldsCounted, NoLeakedHold, HeldQuantity, HeldOf, Quantity
<1>2. IInv /\ IInv' /\ AllTraced /\ HoldsCounted /\ [Next]_vars => HoldsCounted'
  BY HoldsStep
<1>3. Spec => [](IInv /\ AllTraced)
  BY TracedAlways, Invariance, PTL
<1> QED
  BY <1>1, <1>2, <1>3, HeldAtStart, PTL DEF Spec
-----------------------------------------------------------------------------
(***************************************************************************)
(* The journal and the quantities.                                         *)
(***************************************************************************)
MovedBy(s, types) == {m \in MovementsOf(s) : m.type \in types}
MovedQuantity == [m \in movements |-> m.qty]

TypeSets == SUBSET Ledger!Types
Explained(s) ==
  /\ balance[s].onHand =
       LedgerOpening(s) + Moved(s, {"RECEIPT"}) - Moved(s, {"ADJUSTMENT", "SALE"})
  /\ balance[s].reserved = Moved(s, {"RESERVATION"}) - Moved(s, {"RELEASE", "SALE"})
Journalled ==
  \A s \in Stocks :
    /\ \A types \in TypeSets : FiniteUnits(MovedBy(s, types), MovedQuantity)
    /\ IF balance[s] = NoRow THEN Opening[s] = NoRow /\ MovementsOf(s) = {} ELSE Explained(s)

LEMMA MovedIsNatural ==
  ASSUME Journalled, NEW s \in Stocks, NEW types \in TypeSets
  PROVE  Moved(s, types) \in Nat
  BY FS_CardinalityType DEF Journalled, Moved, MovedBy, MovedQuantity, FiniteUnits

LEMMA NothingMoved ==
  ASSUME NEW s, NEW types, MovementsOf(s) = {}
  PROVE  FiniteUnits(MovedBy(s, types), MovedQuantity) /\ Moved(s, types) = 0
<1>1. MovedBy(s, types) = {}
  BY DEF MovedBy
<1> QED
  BY <1>1, UnitsNone DEF Moved, MovedBy, MovedQuantity

LEMMA JournalledAtStart == Init => Journalled
<1> SUFFICES ASSUME Init, NEW s \in Stocks
             PROVE  /\ \A types \in TypeSets : FiniteUnits(MovedBy(s, types), MovedQuantity)
                    /\ IF balance[s] = NoRow THEN Opening[s] = NoRow /\ MovementsOf(s) = {}
                       ELSE Explained(s)
  BY DEF Journalled
<1>1. MovementsOf(s) = {}
  BY DEF Init, MovementsOf
<1>2. \A types : FiniteUnits(MovedBy(s, types), MovedQuantity) /\ Moved(s, types) = 0
  BY <1>1, NothingMoved
<1>3. Opening[s] \in Nat \cup {NoRow}
  BY ConstantsAssumption
<1>4. CASE Opening[s] = NoRow
  <2>1. balance[s] = NoRow
    BY <1>4 DEF Init
  <2> QED
    BY <1>1, <1>2, <1>4, <2>1
<1>5. CASE Opening[s] # NoRow
  <2>1. balance[s] = [onHand |-> Opening[s], reserved |-> 0, version |-> 0] /\ Opening[s] \in Nat
    BY <1>3, <1>5 DEF Init
  <2>2. balance[s] # NoRow
    BY <2>1, ConstantsAssumption DEF Row
  <2>3. LedgerOpening(s) = Opening[s]
    BY <1>5 DEF LedgerOpening
  <2>4. Explained(s)
    BY <1>2, <2>1, <2>3 DEF Explained
  <2> QED
    BY <1>2, <2>2, <2>4
<1> QED
  BY <1>4, <1>5

\* What one more movement adds to the quantities of its stock.
LEMMA MovedStep ==
  ASSUME IInv, Journalled, NEW p \in Procs, tx[p].pc = "write", CanWrite(p), Post(p),
         NEW s \in Stocks, NEW types \in TypeSets
  PROVE  /\ FiniteUnits(MovedBy(s, types)', MovedQuantity')
         /\ Moved(s, types)' = Moved(s, types)
              + (IF s = tx[p].stock /\ MovementOf(p).type \in types THEN MovementOf(p).qty ELSE 0)
<1> PICK m \in Movement : m = MovementOf(p)
  BY MovementType
<1>1. m.stock = tx[p].stock /\ m \notin movements /\ movements' = movements \cup {m} /\ m.qty \in Nat
  BY NewMovement DEF Post, MovementOf, Movement
<1>2. MovedBy(s, types)' = IF s = m.stock /\ m.type \in types THEN MovedBy(s, types) \cup {m}
                           ELSE MovedBy(s, types)
  BY <1>1 DEF MovedBy, MovementsOf
<1>3. /\ \A x \in MovedBy(s, types) : MovedQuantity'[x] = MovedQuantity[x]
      /\ MovedQuantity'[m] = m.qty /\ m \notin MovedBy(s, types)
  BY <1>1 DEF MovedQuantity, MovedBy, MovementsOf
<1>4. Units(MovedBy(s, types), MovedQuantity') = Units(MovedBy(s, types), MovedQuantity)
  BY <1>3, UnitsSame
<1>5. FiniteUnits(MovedBy(s, types), MovedQuantity') /\ Moved(s, types) \in Nat
  BY <1>4, MovedIsNatural DEF Journalled, FiniteUnits
<1>6. Moved(s, types)' = Cardinality(Units(MovedBy(s, types)', MovedQuantity'))
  BY DEF Moved, MovedBy, MovedQuantity
<1>7. Moved(s, types) = Cardinality(Units(MovedBy(s, types), MovedQuantity'))
  BY <1>4 DEF Moved, MovedBy, MovedQuantity
<1>8. CASE s = m.stock /\ m.type \in types
  <2>1. /\ FiniteUnits(MovedBy(s, types) \cup {m}, MovedQuantity')
        /\ Cardinality(Units(MovedBy(s, types) \cup {m}, MovedQuantity'))
             = Cardinality(Units(MovedBy(s, types), MovedQuantity')) + m.qty
    BY <1>1, <1>3, <1>5, UnitsAdd
  <2>2. MovedBy(s, types)' = MovedBy(s, types) \cup {m}
    BY <1>2, <1>8
  <2> QED
    BY <1>1, <1>6, <1>7, <1>8, <2>1, <2>2
<1>9. CASE ~(s = m.stock /\ m.type \in types)
  <2>1. MovedBy(s, types)' = MovedBy(s, types)
    BY <1>2, <1>9
  <2>2. Moved(s, types)' = Moved(s, types)
    BY <1>6, <1>7, <2>1, Zenon
  <2> QED
    BY <1>1, <1>5, <1>9, <2>1, <2>2
<1> QED
  BY <1>8, <1>9

LEMMA JournalledStep ==
  ASSUME IInv, Journalled, [Next]_vars
  PROVE  Journalled'
<1> SUFFICES ASSUME NEW s \in Stocks
             PROVE  /\ \A types \in TypeSets : FiniteUnits(MovedBy(s, types)', MovedQuantity')
                    /\ IF balance'[s] = NoRow THEN Opening[s] = NoRow /\ MovementsOf(s)' = {}
                       ELSE Explained(s)'
  BY DEF Journalled
<1>1. CASE UNCHANGED <<balance, movements>>
  BY <1>1 DEF Journalled, MovedBy, MovementsOf, MovedQuantity, Explained, Moved
<1>2. ASSUME NEW p \in Procs, tx[p].pc = "write", CanWrite(p), Post(p)
      PROVE  /\ \A types \in TypeSets : FiniteUnits(MovedBy(s, types)', MovedQuantity')
             /\ IF balance'[s] = NoRow THEN Opening[s] = NoRow /\ MovementsOf(s)' = {}
                ELSE Explained(s)'
  <2> DEFINE m == MovementOf(p)
  <2>1. m.type \in Ledger!Types /\ m.qty \in Nat /\ m.stock = tx[p].stock
    BY <1>2, MovementType DEF Movement, MovementOf, Ledger!Types
  <2>2. \A types \in TypeSets :
          /\ FiniteUnits(MovedBy(s, types)', MovedQuantity')
          /\ Moved(s, types) \in Nat
          /\ Moved(s, types)' = Moved(s, types)
               + (IF s = tx[p].stock /\ m.type \in types THEN m.qty ELSE 0)
    BY <1>2, MovedStep, MovedIsNatural
  <2>3. /\ {"RECEIPT"} \in TypeSets /\ {"ADJUSTMENT", "SALE"} \in TypeSets
        /\ {"RESERVATION"} \in TypeSets /\ {"RELEASE", "SALE"} \in TypeSets
    BY DEF TypeSets, Ledger!Types
  <2>4. LedgerOpening(s) \in Nat
    BY ConstantsAssumption DEF LedgerOpening
  <2>5. CASE s # tx[p].stock
    <3>1. balance'[s] = balance[s]
      BY <1>2, <2>5, PostedRow
    <3>2. MovementsOf(s)' = MovementsOf(s)
      BY <1>2, <2>1, <2>5 DEF Post, MovementsOf
    <3>3. \A types \in TypeSets : Moved(s, types)' = Moved(s, types)
      BY <2>2, <2>5
    <3> QED
      BY <2>2, <2>3, <3>1, <3>2, <3>3 DEF Journalled, Explained, LedgerOpening
  <2>6. CASE s = tx[p].stock
    <3>1. balance'[s] = NewRow(p) /\ NewRow(p) # NoRow
      BY <1>2, <2>6, PostedRow
    <3>2. /\ RowBefore(p).onHand =
               LedgerOpening(s) + Moved(s, {"RECEIPT"}) - Moved(s, {"ADJUSTMENT", "SALE"})
          /\ RowBefore(p).reserved = Moved(s, {"RESERVATION"}) - Moved(s, {"RELEASE", "SALE"})
      <4>1. CASE balance[s] = NoRow
        <5>1. MovementsOf(s) = {} /\ LedgerOpening(s) = 0
          BY <4>1 DEF Journalled, LedgerOpening
        <5>2. \A types : Moved(s, types) = 0
          BY <5>1, NothingMoved
        <5>3. RowBefore(p).onHand = 0 /\ RowBefore(p).reserved = 0
          BY <2>6, <4>1 DEF RowBefore, Zero
        <5> QED
          BY <5>1, <5>2, <5>3
      <4>2. CASE balance[s] # NoRow
        BY <2>6, <4>2 DEF Journalled, Explained, RowBefore
      <4> QED
        BY <4>1, <4>2
    <3>3. /\ NewRow(p).onHand = RowBefore(p).onHand + Ledger!OnHandDelta(m.type, m.qty)
          /\ NewRow(p).reserved = RowBefore(p).reserved + Ledger!ReservedDelta(m.type, m.qty)
      BY <1>2, PostMovesRow
    <3> HIDE DEF m
    <3>4. /\ NewRow(p).onHand =
               LedgerOpening(s) + Moved(s, {"RECEIPT"})' - Moved(s, {"ADJUSTMENT", "SALE"})'
          /\ NewRow(p).reserved = Moved(s, {"RESERVATION"})' - Moved(s, {"RELEASE", "SALE"})'
      <4> DEFINE rec == Moved(s, {"RECEIPT"})
                 out == Moved(s, {"ADJUSTMENT", "SALE"})
                 res == Moved(s, {"RESERVATION"})
                 rel == Moved(s, {"RELEASE", "SALE"})
      <4>1. rec \in Nat /\ out \in Nat /\ res \in Nat /\ rel \in Nat
        BY <2>2, <2>3
      <4>2. /\ rec' = rec + (IF m.type \in {"RECEIPT"} THEN m.qty ELSE 0)
            /\ out' = out + (IF m.type \in {"ADJUSTMENT", "SALE"} THEN m.qty ELSE 0)
            /\ res' = res + (IF m.type \in {"RESERVATION"} THEN m.qty ELSE 0)
            /\ rel' = rel + (IF m.type \in {"RELEASE", "SALE"} THEN m.qty ELSE 0)
        BY <2>2, <2>3, <2>6
      <4>3. /\ Ledger!OnHandDelta(m.type, m.qty) =
                 (IF m.type \in {"RECEIPT"} THEN m.qty ELSE 0)
                   - (IF m.type \in {"ADJUSTMENT", "SALE"} THEN m.qty ELSE 0)
            /\ Ledger!ReservedDelta(m.type, m.qty) =
                 (IF m.type \in {"RESERVATION"} THEN m.qty ELSE 0)
                   - (IF m.type \in {"RELEASE", "SALE"} THEN m.qty ELSE 0)
        BY <2>1 DEF Ledger!OnHandDelta, Ledger!ReservedDelta, Ledger!Types
      <4>4. /\ RowBefore(p).onHand = LedgerOpening(s) + rec - out
            /\ RowBefore(p).reserved = res - rel
        BY <3>2
      <4> HIDE DEF rec, out, res, rel
      <4>5. /\ NewRow(p).onHand = LedgerOpening(s) + rec' - out'
            /\ NewRow(p).reserved = res' - rel'
        BY <2>1, <2>4, <3>3, <4>1, <4>2, <4>3, <4>4
      <4> QED
        BY <4>5 DEF rec, out, res, rel
    <3> QED
      BY <2>2, <3>1, <3>4 DEF Explained, LedgerOpening
  <2> QED
    BY <2>5, <2>6
<1> QED
  BY <1>1, <1>2, PostOrKeep

\* At every moment the rows are what the journal adds up to, whatever was interleaved, refused or
\* rolled back on the way.
THEOREM JournalIsComplete == Spec => []JournalExplainsBalance
<1>1. Journalled => JournalExplainsBalance
  BY DEF Journalled, Explained, JournalExplainsBalance
<1> QED
  BY <1>1, JournalledAtStart, JournalledStep, Invariance, PTL DEF Spec

=============================================================================
