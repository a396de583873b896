----------------------------- MODULE Inventory -----------------------------
(***************************************************************************)
(* The stock transactions: InventoryService (adjust, reserve, release,     *)
(* commitToSale), the stock part of confirmPaymentForOrder and the worker  *)
(* job expireHeldReservations, over the tables inventory_balances,         *)
(* inventory_movements and reservations.                                   *)
(*                                                                         *)
(* Every operation is an interactive transaction at PostgreSQL's default   *)
(* level, READ COMMITTED: each statement sees what is committed when it    *)
(* runs, so each read is an action of its own.  The writes and the commit  *)
(* are one action: the first write takes the lock of the balance row and   *)
(* the others wait for the commit, then find another version.              *)
(***************************************************************************)
EXTENDS Integers, Sequences, FiniteSets

CONSTANTS
  Stocks,     \* the (sku, location) pairs
  Requests,   \* API requests (and webhook handlers), one transaction at a time
  Jobs,       \* ticks of the worker's expiry timer, which may overlap
  ClientKeys, \* idempotency keys chosen by callers
  Refs,       \* carts a reservation may name
  Quantities, \* quantities asked for
  Deltas,     \* changes asked of adjust
  Ops,        \* the operations this instance exercises
  Crashing,   \* those whose process or connection may die in a transaction
  Opening,    \* what the catalogue created: Opening[s] units, or NoRow
  NoRow, NoRef, NoKey, NoStock

Row == [onHand : Nat, reserved : Nat, version : Nat]

ASSUME ConstantsAssumption ==
  /\ Quantities \subseteq Nat \ {0}
  /\ Deltas \subseteq Int
  /\ Opening \in [Stocks -> Nat \cup {NoRow}]
  /\ NoRow \notin Row \cup Nat \cup [onHand : Nat, reserved : Nat]
  /\ NoStock \notin Stocks
  /\ NoRef \notin Refs
  /\ Requests \cap Jobs = {}

VARIABLES
  balance,       \* inventory_balances: the row of each pair, or NoRow
  movements,     \* inventory_movements
  reservations,  \* reservations, in the order they were created
  tx,            \* the transaction each request or job is in
  batch          \* the reservations a tick of the expiry job has yet to visit

vars == <<balance, movements, reservations, tx, batch>>

Procs == Requests \cup Jobs
Ids == DOMAIN reservations

\* Idempotency keys: the caller's, or built from the id of the reservation.
OwnKey(k) == <<"client", k>>
ResKey(kind, r) == <<kind, r>>
Keys == ({"client"} \X ClientKeys)
          \cup ({"cancel", "rollback", "expire", "sale"} \X (Nat \ {0}))

AllOps == {"adjust", "reserve", "cancel", "rollback", "commit", "sale", "expire"}
Releases == {"cancel", "rollback"}
Finishers == Releases \cup {"commit", "sale", "expire"}

Movement == [key : Keys, stock : Stocks, qty : Nat,
             type : {"RECEIPT", "ADJUSTMENT", "RESERVATION", "RELEASE", "SALE"}]
Reservation == [stock : Stocks, qty : Nat, ref : Refs \cup {NoRef},
                status : {"HELD", "COMMITTED", "RELEASED", "EXPIRED"}]
Tx == [pc    : {"idle", "acked", "status", "key", "match", "balance", "write"},
       op    : AllOps \cup {"none"},
       stock : Stocks \cup {NoStock},
       qty   : Int,
       ref   : Refs \cup {NoRef},
       key   : Keys \cup {NoKey},
       res   : Nat,
       snap  : Row \cup {NoRow}]

\* A transaction that starts at statement pc, for its caller's arguments.
Started(pc, op, s, qty, ref, key, r) ==
  [pc |-> pc, op |-> op, stock |-> s, qty |-> qty, ref |-> ref, key |-> key,
   res |-> r, snap |-> NoRow]

\* Nothing running: never called, failed, or an answer nobody looks at.
IdleTx == Started("idle", "none", NoStock, 0, NoRef, NoKey, 0)

Open(p) == tx[p].pc \notin {"idle", "acked"}

TypeOK ==
  /\ balance \in [Stocks -> Row \cup {NoRow}]
  /\ movements \subseteq Movement
  /\ reservations \in Seq(Reservation)
  /\ tx \in [Procs -> Tx]
  /\ batch \in [Jobs -> SUBSET (Nat \ {0})]

Init ==
  /\ balance = [s \in Stocks |->
                  IF Opening[s] = NoRow THEN NoRow
                  ELSE [onHand |-> Opening[s], reserved |-> 0, version |-> 0]]
  /\ movements = {}
  /\ reservations = <<>>
  /\ tx = [p \in Procs |-> IdleTx]
  /\ batch = [j \in Jobs |-> {}]

Recorded(key) == \E m \in movements : m.key = key
HeldIds == {r \in Ids : reservations[r].status = "HELD"}

-----------------------------------------------------------------------------
(***************************************************************************)
(* How a transaction ends.  A failure rolls back and reaches the caller;   *)
(* in the expiry job it also leaves the loop over the batch.               *)
(***************************************************************************)
Goto(p, pc) == tx' = [tx EXCEPT ![p].pc = pc]

Ack(p) == tx' = [tx EXCEPT ![p].pc = "acked", ![p].snap = NoRow]

Fail(p) ==
  /\ tx' = [tx EXCEPT ![p] = IdleTx]
  /\ batch' = [j \in Jobs |-> IF j = p THEN {} ELSE batch[j]]

(***************************************************************************)
(* Calls.                                                                  *)
(***************************************************************************)
CallAdjust(p, s, delta, k) ==
  /\ "adjust" \in Ops /\ ~Open(p)
  /\ tx' = [tx EXCEPT ![p] = Started("key", "adjust", s, delta, NoRef, OwnKey(k), 0)]
  /\ UNCHANGED <<balance, movements, reservations, batch>>

CallReserve(p, s, qty, ref, k) ==
  /\ "reserve" \in Ops /\ ~Open(p)
  /\ tx' = [tx EXCEPT ![p] = Started("key", "reserve", s, qty, ref, OwnKey(k), 0)]
  /\ UNCHANGED <<balance, movements, reservations, batch>>

\* release (op "cancel" or "rollback", after its two callers), commitToSale,
\* and the stock part of a payment confirmation.
CallFinish(p, op, r, key) ==
  /\ op \in Ops /\ ~Open(p)
  /\ tx' = [tx EXCEPT ![p] = Started("status", op, NoStock, 0, NoRef, key, r)]
  /\ UNCHANGED <<balance, movements, reservations, batch>>

\* The job lists HELD reservations whose expiry time has passed: B is the set
\* it finds, any set of them, since times are not modelled.
FindExpired(j, B) ==
  /\ "expire" \in Ops /\ ~Open(j) /\ batch[j] = {}
  /\ B # {} /\ B \subseteq HeldIds
  /\ batch' = [batch EXCEPT ![j] = B]
  /\ UNCHANGED <<balance, movements, reservations, tx>>

\* Mutant: one key for every expiry.
NextExpired_OneKey(j, r) ==
  /\ ~Open(j) /\ r \in batch[j]
  /\ batch' = [batch EXCEPT ![j] = @ \ {r}]
  /\ tx' = [tx EXCEPT ![j] =
                Started("status", "expire", NoStock, 0, NoRef, ResKey("expire", 1), r)]
  /\ UNCHANGED <<balance, movements, reservations>>

NextExpired(j, r) ==
  /\ ~Open(j) /\ r \in batch[j]
  /\ batch' = [batch EXCEPT ![j] = @ \ {r}]
  /\ tx' = [tx EXCEPT ![j] =
                Started("status", "expire", NoStock, 0, NoRef, ResKey("expire", r), r)]
  /\ UNCHANGED <<balance, movements, reservations>>

-----------------------------------------------------------------------------
(***************************************************************************)
(* Reads.                                                                  *)
(***************************************************************************)
\* reservation.findUnique: only a HELD reservation is worked on.
ReadStatus(p) ==
  LET row == reservations[tx[p].res]
      op  == tx[p].op
  IN /\ tx[p].pc = "status"
     /\ \/ /\ row.status = "HELD"
           /\ tx' = [tx EXCEPT
                ![p].pc = IF op \in Releases \cup {"commit"} THEN "key" ELSE "balance",
                ![p].stock = row.stock,
                ![p].qty = row.qty]
           /\ UNCHANGED batch
        \/ /\ row.status # "HELD"
           /\ op = "commit" => row.status = "COMMITTED"
           /\ Ack(p)
           /\ UNCHANGED batch
        \/ /\ op = "commit" /\ row.status \notin {"HELD", "COMMITTED"}
           /\ Fail(p)
     /\ UNCHANGED <<balance, movements, reservations>>

\* inventoryMovement.findUnique by idempotency key.
FindMovement(p) ==
  /\ tx[p].pc = "key"
  /\ \/ Recorded(tx[p].key) /\ tx[p].op = "reserve" /\ Goto(p, "match")
     \/ Recorded(tx[p].key) /\ tx[p].op # "reserve" /\ Ack(p)
     \/ ~Recorded(tx[p].key) /\ Goto(p, "balance")
  /\ UNCHANGED <<balance, movements, reservations, batch>>

\* The HELD reservations a repeated reserve takes for its own: same stock and,
\* if one is given, same cart.  Neither key nor quantity is compared.
Matching(p) ==
  {r \in HeldIds :
     /\ reservations[r].stock = tx[p].stock
     /\ tx[p].ref # NoRef => reservations[r].ref = tx[p].ref}

\* The newest of them is the answer; with none, reserve goes on as if new.
MatchHeld(p) ==
  /\ tx[p].pc = "match"
  /\ \/ \E r \in Matching(p) :
          /\ \A q \in Matching(p) : q <= r
          /\ tx' = [tx EXCEPT ![p].pc = "acked", ![p].res = r]
     \/ Matching(p) = {} /\ Goto(p, "balance")
  /\ UNCHANGED <<balance, movements, reservations, batch>>

Zero == [onHand |-> 0, reserved |-> 0, version |-> 0]

\* Mutant: adjust may take away reserved units.
Admits_IgnoresHolds(p, row) ==
  /\ tx[p].op = "adjust"  => row.onHand + tx[p].qty >= 0
  /\ tx[p].op = "reserve" => row.onHand - row.reserved >= tx[p].qty

\* inventoryBalance.findUnique, and the check the operation makes of the row.
\* adjust inserts a missing row of zeros, in the same transaction.
Admits(p, row) ==
  /\ tx[p].op = "adjust"  => row.onHand + tx[p].qty >= row.reserved
  /\ tx[p].op = "reserve" => row.onHand - row.reserved >= tx[p].qty

ReadBalance(p) ==
  LET found == balance[tx[p].stock]
      row   == IF found = NoRow /\ tx[p].op = "adjust" THEN Zero ELSE found
  IN /\ tx[p].pc = "balance"
     /\ IF row # NoRow /\ Admits(p, row)
          THEN /\ tx' = [tx EXCEPT ![p].pc = "write", ![p].snap = found]
               /\ UNCHANGED batch
          ELSE Fail(p)
     /\ UNCHANGED <<balance, movements, reservations>>

-----------------------------------------------------------------------------
(***************************************************************************)
(* Writes.  updateMany ... where version = the version read: no row        *)
(* matches once anyone else has committed.                                 *)
(***************************************************************************)
Fresh(p) == balance[tx[p].stock] # NoRow /\ balance[tx[p].stock].version = tx[p].snap.version

\* The CHECK constraints of inventory_balances.
CheckOK(row) == row.onHand >= row.reserved /\ row.onHand >= 0 /\ row.reserved >= 0

\* Mutant: a sale leaves the hold.
NewRow_SaleKeepsHold(p) ==
  LET old == balance[tx[p].stock]
      op  == tx[p].op
  IN [onHand   |-> IF op = "sale" THEN old.onHand - tx[p].qty ELSE old.onHand,
      reserved |-> CASE op = "sale"    -> old.reserved
                     [] op = "reserve" -> old.reserved + tx[p].qty
                     [] OTHER          -> old.reserved - tx[p].qty,
      version  |-> old.version + 1]

\* The row the update leaves.  adjust writes the on_hand it computed from its
\* read; the others increment and decrement in the database.
NewRow(p) ==
  LET old == IF balance[tx[p].stock] = NoRow THEN Zero ELSE balance[tx[p].stock]
      was == IF tx[p].snap = NoRow THEN Zero ELSE tx[p].snap
      op  == tx[p].op
  IN [onHand   |-> CASE op = "adjust"             -> was.onHand + tx[p].qty
                     [] op \in {"commit", "sale"} -> old.onHand - tx[p].qty
                     [] OTHER                     -> old.onHand,
      reserved |-> CASE op = "adjust"  -> old.reserved
                     [] op = "reserve" -> old.reserved + tx[p].qty
                     [] OTHER          -> old.reserved - tx[p].qty,
      version  |-> old.version + 1]

\* Mutant: every adjustment is journalled as a receipt.
MovementOf_AlwaysReceipt(p) ==
  LET op == tx[p].op IN
  [key   |-> tx[p].key,
   stock |-> tx[p].stock,
   qty   |-> IF tx[p].qty < 0 THEN -tx[p].qty ELSE tx[p].qty,
   type  |-> CASE op = "adjust"             -> "RECEIPT"
               [] op = "reserve"            -> "RESERVATION"
               [] op \in {"commit", "sale"} -> "SALE"
               [] OTHER                     -> "RELEASE"]

MovementOf(p) ==
  LET op == tx[p].op IN
  [key   |-> tx[p].key,
   stock |-> tx[p].stock,
   qty   |-> IF tx[p].qty < 0 THEN -tx[p].qty ELSE tx[p].qty,
   type  |-> CASE op = "adjust"             -> IF tx[p].qty >= 0 THEN "RECEIPT" ELSE "ADJUSTMENT"
               [] op = "reserve"            -> "RESERVATION"
               [] op \in {"commit", "sale"} -> "SALE"
               [] OTHER                     -> "RELEASE"]

Post(p) ==
  /\ balance' = [balance EXCEPT ![tx[p].stock] = NewRow(p)]
  /\ movements' = movements \cup {MovementOf(p)}

\* The update matches a row, or adjust inserts the row it did not find.
Locked(p) == IF tx[p].snap = NoRow THEN balance[tx[p].stock] = NoRow ELSE Fresh(p)

\* Mutant: the key is not unique.
CanWrite_NoUniqueKey(p) == Locked(p) /\ CheckOK(NewRow(p))

CanWrite(p) == Locked(p) /\ CheckOK(NewRow(p)) /\ ~Recorded(tx[p].key)

WriteAdjust(p) ==
  /\ tx[p].pc = "write" /\ tx[p].op = "adjust"
  /\ CanWrite(p)
  /\ Post(p)
  /\ Ack(p)
  /\ UNCHANGED <<reservations, batch>>

\* A unique violation (code P2002) of the movement's key, or of the row that
\* adjust inserts, is answered as an idempotent repeat.
AdjustDuplicate(p) ==
  /\ tx[p].pc = "write" /\ tx[p].op = "adjust"
  /\ \/ tx[p].snap = NoRow /\ balance[tx[p].stock] # NoRow
     \/ Locked(p) /\ CheckOK(NewRow(p)) /\ Recorded(tx[p].key)
  /\ Ack(p)
  /\ UNCHANGED <<balance, movements, reservations, batch>>

WriteReserve(p) ==
  /\ tx[p].pc = "write" /\ tx[p].op = "reserve"
  /\ CanWrite(p)
  /\ Post(p)
  /\ reservations' = Append(reservations,
       [stock |-> tx[p].stock, qty |-> tx[p].qty, ref |-> tx[p].ref, status |-> "HELD"])
  /\ tx' = [tx EXCEPT ![p].pc = "acked", ![p].snap = NoRow, ![p].res = Len(reservations) + 1]
  /\ UNCHANGED batch

\* The status is written by id alone: it was read before the balance was.
FinalStatus(op) ==
  CASE op \in Releases           -> "RELEASED"
    [] op \in {"commit", "sale"} -> "COMMITTED"
    [] OTHER                     -> "EXPIRED"

WriteFinish(p) ==
  /\ tx[p].pc = "write" /\ tx[p].op \in Finishers
  /\ CanWrite(p)
  /\ Post(p)
  /\ reservations' = [reservations EXCEPT ![tx[p].res].status = FinalStatus(tx[p].op)]
  /\ Ack(p)
  /\ UNCHANGED batch

\* OPTIMISTIC_LOCK, a violated CHECK, or (except in adjust) a duplicate key.
WriteRejected(p) ==
  /\ tx[p].pc = "write"
  /\ ~CanWrite(p)
  /\ tx[p].op = "adjust" =>
       /\ tx[p].snap # NoRow
       /\ ~(Locked(p) /\ CheckOK(NewRow(p)))
  /\ Fail(p)
  /\ UNCHANGED <<balance, movements, reservations>>

\* The connection is lost, the transaction times out or the process dies
\* before the commit.
Crash(p) ==
  /\ p \in Crashing /\ Open(p)
  /\ Fail(p)
  /\ UNCHANGED <<balance, movements, reservations>>

-----------------------------------------------------------------------------
Call(p) ==
  \/ \E s \in Stocks, k \in ClientKeys :
       \/ \E delta \in Deltas : CallAdjust(p, s, delta, k)
       \/ \E qty \in Quantities, ref \in Refs \cup {NoRef} : CallReserve(p, s, qty, ref, k)
  \/ \E r \in Ids :
       \/ \E op \in Releases : CallFinish(p, op, r, ResKey(op, r))
       \/ \E k \in ClientKeys : CallFinish(p, "commit", r, OwnKey(k))
       \/ CallFinish(p, "sale", r, ResKey("sale", r))

Tick(j) ==
  \/ \E B \in SUBSET HeldIds : FindExpired(j, B)
  \/ \E r \in batch[j] : NextExpired(j, r)

Read(p) == ReadStatus(p) \/ FindMovement(p) \/ MatchHeld(p) \/ ReadBalance(p)

Write(p) ==
  WriteAdjust(p) \/ AdjustDuplicate(p) \/ WriteReserve(p) \/ WriteFinish(p) \/ WriteRejected(p)

Next ==
  \/ \E p \in Requests : Call(p)
  \/ \E j \in Jobs : Tick(j)
  \/ \E p \in Procs : Read(p) \/ Write(p) \/ Crash(p)

Spec == Init /\ [][Next]_vars
-----------------------------------------------------------------------------
(***************************************************************************)
(* Properties.                                                             *)
(***************************************************************************)
\* The version is a faithful fence: a transaction about to write whose version
\* test would match holds an exact copy of the row, however many reads and
\* commits of others came between (updateMany where version = balance.version).
SnapshotFence ==
  \A p \in Procs :
    tx[p].pc = "write" /\ tx[p].snap # NoRow =>
      /\ balance[tx[p].stock] # NoRow
      /\ tx[p].snap.version <= balance[tx[p].stock].version
      /\ Fresh(p) => balance[tx[p].stock] = tx[p].snap

\* A reserve or adjust that passed its own check and wins the version test
\* never breaks a CHECK constraint: no over-reservation reaches the database.
AdmissionSuffices ==
  \A p \in Procs :
    /\ tx[p].pc = "write"
    /\ tx[p].op \in {"adjust", "reserve"}
    /\ Locked(p)
    => CheckOK(NewRow(p))

MovementsOf(s) == {m \in movements : m.stock = s}

\* Each version of a row is one movement: no update of a balance commits
\* without its journal entry and no entry without its update.
VersionCountsMovements ==
  \A s \in Stocks :
    Cardinality(MovementsOf(s)) = IF balance[s] = NoRow THEN 0 ELSE balance[s].version

\* The row of the abstract ledger: a balance without its version.
Abstract(row) ==
  IF row = NoRow THEN NoRow ELSE [onHand |-> row.onHand, reserved |-> row.reserved]

LedgerStock == [s \in Stocks |-> Abstract(balance[s])]

Ledger == INSTANCE StockLedger WITH
  stock   <- LedgerStock,
  journal <- movements,
  Absent  <- NoRow

LedgerOpening(s) == IF Opening[s] = NoRow THEN 0 ELSE Opening[s]

\* The units behind the elements of S, qty[x] of each: what is counted when quantities are added up.
Units(S, qty) == UNION {{x} \X (1..qty[x]) : x \in S}

Moved(s, types) ==
  Cardinality(Units({m \in MovementsOf(s) : m.type \in types}, [m \in movements |-> m.qty]))

\* The journal explains the balance: on_hand is the opening stock plus all
\* movements, reserved the holds minus the releases and sales.
JournalExplainsBalance ==
  \A s \in Stocks : balance[s] # NoRow =>
    /\ balance[s].onHand =
         LedgerOpening(s) + Moved(s, {"RECEIPT"}) - Moved(s, {"ADJUSTMENT", "SALE"})
    /\ balance[s].reserved = Moved(s, {"RESERVATION"}) - Moved(s, {"RELEASE", "SALE"})

\* The interleaved transactions implement one serial stock ledger: each commit
\* posts one movement under a new key against the row as it then is.
LedgerImplemented == Ledger!LedgerSpec

HeldQuantity(s) ==
  Cardinality(Units({r \in HeldIds : reservations[r].stock = s},
                    [r \in Ids |-> reservations[r].qty]))

\* No stock leaks: whatever the interleaving of cancel, expiry and payment, the
\* reserved units are never more than the HELD reservations account for.
NoLeakedHold ==
  \A s \in Stocks : balance[s] # NoRow => balance[s].reserved <= HeldQuantity(s)

\* A reservation shows a final status only if the movement that gave its units
\* back or sold them is in the journal.
FinalStatusHasMovement ==
  \A r \in Ids :
    /\ reservations[r].status = "EXPIRED" => Recorded(ResKey("expire", r))
    /\ reservations[r].status = "RELEASED" =>
         \E kind \in Releases : Recorded(ResKey(kind, r))
    /\ reservations[r].status = "COMMITTED" =>
         \E m \in movements : /\ m.type = "SALE" /\ m.stock = reservations[r].stock
                              /\ m.qty = reservations[r].qty

\* Reserved is exactly what HELD reservations hold (ADR-0011, section 25:
\* retries must not double-release stock).
ReservedIsHeld ==
  \A s \in Stocks : balance[s] # NoRow => balance[s].reserved = HeldQuantity(s)

\* A late payment cannot make COMMITTED a reservation that was given back, and
\* a sold one is never given back (ADR-0011, state diagram of Reservation).
FinalStatusIsFinal ==
  [][\A r \in Ids : reservations[r].status # "HELD" =>
       reservations'[r].status = reservations[r].status]_vars

\* adjust answers "idempotent" or with its movement only once a movement with
\* its key is in the journal.
AcknowledgedIsRecorded ==
  \A p \in Procs : tx[p].pc = "acked" /\ tx[p].op = "adjust" => Recorded(tx[p].key)

-----------------------------------------------------------------------------
(***************************************************************************)
(* Liveness.  The expiry timer of the worker fires for ever and time passes *)
(* for every reservation; a started transaction ends.                      *)
(***************************************************************************)
Fairness ==
  /\ \A j \in Jobs :
       /\ WF_vars(Tick(j) /\ batch[j] # {})
       /\ WF_vars(Read(j) \/ Write(j))
  /\ \A j \in Jobs, r \in 1..Cardinality(ClientKeys) :
       SF_vars(\E B \in SUBSET HeldIds : r \in B /\ FindExpired(j, B))
  /\ \A p \in Requests : WF_vars(Read(p) \/ Write(p))

FairSpec == Spec /\ Fairness

\* Reservation expiry releases stock: no hold lasts for ever.
HoldsEnd ==
  \A r \in 1..Cardinality(ClientKeys) :
    [](r \in HeldIds => <>(r \notin HeldIds))
=============================================================================
