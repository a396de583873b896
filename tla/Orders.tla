------------------------------- MODULE Orders -------------------------------
(***************************************************************************)
(* The life of one order after checkout: the worker asks the provider for  *)
(* the charge, the provider's webhooks confirm it, the customer may cancel,*)
(* reservations expire and the admin fulfils the items.                    *)
(*                                                                         *)
(* Each read and each transaction's writes are actions of their own, as in *)
(* module Inventory.  A line of the order is its reservation and the       *)
(* movements of that reservation: the set of their kinds plays the version *)
(* of the balance row and the idempotency keys.  Orders share only stock   *)
(* rows; what another order does to one makes a transaction fail (Abort).  *)
(***************************************************************************)
EXTENDS Naturals, Sequences, FiniteSets

CONSTANTS
  Lines,       \* the lines of the order, each with one reservation
  Primary,     \* the line order.reservationId points to
  Deliverable, \* the lines whose offer has a delivery method other than NONE
  Events,      \* the provider's webhook events about this order
  Kind,        \* what an event says: "paid", "failed" or "other"
  Txn,         \* its providerTxnId
  Exact,       \* whether its amount and currency are those of the payment
  Cancels,     \* cancel requests of the customer
  Ticks,       \* ticks of the worker's expiry timer, which may overlap
  Workers,     \* deliveries of the order's payment.initiate message
  Admins,      \* admins working on the fulfilments
  Aborting,    \* those whose transaction, connection or process may fail
  NoProc

Procs == Events \cup Cancels \cup Ticks \cup Workers \cup Admins

ASSUME OrdersAssumption ==
  /\ IsFiniteSet(Lines) /\ Primary \in Lines /\ Deliverable \subseteq Lines
  /\ Kind \in [Events -> {"paid", "failed", "other"}]
  /\ Exact \in [Events -> BOOLEAN]
  /\ DOMAIN Txn = Events
  /\ NoProc \notin Procs
  /\ LET sorts == <<Events, Cancels, Ticks, Workers, Admins>>
     IN  \A i, j \in 1..5 : i # j => sorts[i] \cap sorts[j] = {}

VARIABLES
  order,        \* orders.status
  payment,      \* payments.status
  attempt,      \* payment_attempts.status
  line,         \* the reservation of each line and the kinds of its movements
  fulfillments, \* digital_fulfillments, in the order they were created
  txns,         \* payment_transactions: the provider ids CONFIRMED
  receipts,     \* webhook_receipts: none, stored, or processed
  charged,      \* the deliveries that asked the provider for a charge
  tx,           \* where each request, handler or job is
  locked        \* who holds the row locks of the payment and its attempt

tables == <<order, payment, attempt, line, fulfillments, txns, receipts>>
vars == <<tables, charged, tx, locked>>

Paid == {"PROCESSING", "FULFILLING", "COMPLETED"}
\* The statuses confirmPaymentForOrder takes for "already processed" (PAID is
\* never committed: the transaction goes on to PROCESSING).
Settled == Paid \cup {"RECONCILIATION_HOLD"}

PaymentStatus == {"PENDING", "CREATED", "INITIATED", "CONFIRMED", "FAILED"}
Kinds == {"cancel", "expire", "sale"}
FulfillmentStatus == {"PENDING", "READY", "DELIVERED"}

Idle == [pc |-> "idle", at |-> Primary, todo |-> {}, snap |-> {}, verdict |-> "none"]

TypeOK ==
  /\ order \in Settled \cup {"PENDING_PAYMENT", "CANCELLED"}
  /\ payment \in PaymentStatus /\ attempt \in PaymentStatus
  /\ line \in [Lines -> [status : {"HELD", "COMMITTED", "RELEASED", "EXPIRED"},
                         moves : SUBSET Kinds]]
  /\ fulfillments \in Seq([line : Lines, status : FulfillmentStatus])
  /\ txns \subseteq {Txn[e] : e \in Events}
  /\ receipts \in [Events -> {"none", "stored", "processed"}]
  /\ charged \subseteq Workers
  /\ tx \in [Procs -> [pc : {"idle", "apply", "txn", "order", "lock", "primary", "balance",
                             "commit", "settle", "find", "status", "write", "close",
                             "call", "mark", "ready", "count", "complete", "over"},
                       at : Lines, todo : SUBSET Lines, snap : SUBSET Kinds,
                       verdict : {"none", "SALE", "PAID", "RECONCILIATION_HOLD",
                                  "INITIATED", "FAILED"}]]
  /\ locked \in Procs \cup {NoProc}

\* What CheckoutService.checkout has just committed.
Init ==
  /\ order = "PENDING_PAYMENT" /\ payment = "PENDING" /\ attempt = "CREATED"
  /\ line = [l \in Lines |-> [status |-> "HELD", moves |-> {}]]
  /\ fulfillments = <<>>
  /\ txns = {}
  /\ receipts = [e \in Events |-> "none"]
  /\ charged = {}
  /\ tx = [p \in Procs |-> Idle]
  /\ locked = NoProc

At(p, pc) == tx[p].pc = pc
Goto(p, pc) == tx' = [tx EXCEPT ![p].pc = pc]
\* Handlers run once; requests, jobs and admins come again.
End(p) == tx' = [tx EXCEPT ![p] = IF p \in Events \cup Workers THEN [Idle EXCEPT !.pc = "over"]
                                                               ELSE Idle]
Unlock(p) == locked' = IF locked = p THEN NoProc ELSE locked

\* A thrown error: the transaction is rolled back and the caller gives up.
Fail(p) == End(p) /\ Unlock(p) /\ UNCHANGED <<tables, charged>>

Abort(p) == p \in Aborting /\ tx[p].pc \notin {"idle", "over"} /\ Fail(p)

-----------------------------------------------------------------------------
(***************************************************************************)
(* payment.initiate, in the worker.                                        *)
(***************************************************************************)
InitiateRead(w) ==
  /\ At(w, "idle")
  /\ IF attempt \in {"INITIATED", "CONFIRMED"} THEN End(w) ELSE Goto(w, "call")
  /\ UNCHANGED <<tables, charged, locked>>

\* The provider accepts or refuses; or it is not configured and not called.
InitiateCall(w) ==
  /\ At(w, "call")
  /\ \/ \E answer \in {"INITIATED", "FAILED"} :
          /\ tx' = [tx EXCEPT ![w].pc = "mark", ![w].verdict = answer]
          /\ charged' = IF answer = "INITIATED" THEN charged \cup {w} ELSE charged
     \/ \* the charge is made and the answer lost (AbortSignal.timeout)
        w \in Aborting /\ charged' = charged \cup {w} /\ End(w)
  /\ UNCHANGED <<tables, locked>>

\* Mutant: an accepted charge counts as a payment.
InitiateMark_PaysOrder(w) ==
  /\ At(w, "mark") /\ locked = NoProc
  /\ attempt' = tx[w].verdict /\ payment' = tx[w].verdict
  /\ order' = IF tx[w].verdict = "INITIATED" THEN "PROCESSING" ELSE order
  /\ End(w)
  /\ UNCHANGED <<line, fulfillments, txns, receipts, charged, locked>>

InitiateMark(w) ==
  /\ At(w, "mark") /\ locked = NoProc
  /\ attempt' = tx[w].verdict /\ payment' = tx[w].verdict
  /\ End(w)
  /\ UNCHANGED <<order, line, fulfillments, txns, receipts, charged, locked>>

-----------------------------------------------------------------------------
(***************************************************************************)
(* Webhooks.                                                               *)
(***************************************************************************)
\* handleEscrowWebhook: a first delivery stores the receipt and answers; the
\* rest goes on unawaited.  Later deliveries find the receipt and do nothing.
Receive(e) ==
  /\ receipts[e] = "none" /\ charged # {}
  /\ receipts' = [receipts EXCEPT ![e] = "stored"]
  /\ Goto(e, "apply")
  /\ UNCHANGED <<order, payment, attempt, line, fulfillments, txns, charged, locked>>

Process(e) == receipts' = [receipts EXCEPT ![e] = "processed"]

\* Mutant: the provider's word for "paid" is not recognised.
Apply_UnknownWord(e) ==
  /\ At(e, "apply")
  /\ IF Kind[e] = "failed" THEN Process(e) ELSE UNCHANGED receipts
  /\ End(e)
  /\ UNCHANGED <<order, payment, attempt, line, fulfillments, txns, charged, locked>>

\* applyEscrowReceipt up to the confirmation.
Apply(e) ==
  /\ At(e, "apply")
  /\ \/ Kind[e] = "failed" /\ Process(e) /\ End(e)
     \/ Kind[e] = "other" /\ End(e) /\ UNCHANGED receipts
     \/ Kind[e] = "paid" /\ Goto(e, "txn") /\ UNCHANGED receipts
  /\ UNCHANGED <<order, payment, attempt, line, fulfillments, txns, charged, locked>>

\* confirmPaymentForOrder, read by read.
ReadTxn(e) ==
  /\ At(e, "txn")
  /\ IF Txn[e] \in txns THEN Goto(e, "settle") ELSE Goto(e, "order")
  /\ UNCHANGED <<tables, charged, locked>>

ReadOrder(e) ==
  /\ At(e, "order")
  /\ \/ order \in Settled /\ Goto(e, "settle") /\ UNCHANGED <<tables, charged, locked>>
     \/ order = "PENDING_PAYMENT" /\ Exact[e] /\ Goto(e, "lock")
          /\ UNCHANGED <<tables, charged, locked>>
     \/ order = "CANCELLED" /\ Fail(e)
     \/ order = "PENDING_PAYMENT" /\ ~Exact[e] /\ Fail(e)

\* The first writes (transaction, attempt, payment) lock those rows until the
\* end; they show when the transaction commits.
TakeLocks(e) ==
  /\ At(e, "lock") /\ locked = NoProc
  /\ locked' = e
  /\ Goto(e, "primary")
  /\ UNCHANGED <<tables, charged>>

\* Mutant: a reservation given back is no obstacle.
ReadPrimary_Blind(e) ==
  /\ At(e, "primary")
  /\ IF line[Primary].status = "HELD" THEN Goto(e, "balance")
     ELSE tx' = [tx EXCEPT ![e].pc = "commit", ![e].verdict = "PAID"]
  /\ UNCHANGED <<tables, charged, locked>>

ReadPrimary(e) ==
  LET status == line[Primary].status IN
  /\ At(e, "primary")
  /\ \/ status = "HELD" /\ Goto(e, "balance")
     \/ status = "COMMITTED" /\ tx' = [tx EXCEPT ![e].pc = "commit", ![e].verdict = "PAID"]
     \/ status \in {"RELEASED", "EXPIRED"}
          /\ tx' = [tx EXCEPT ![e].pc = "commit", ![e].verdict = "RECONCILIATION_HOLD"]
  /\ UNCHANGED <<tables, charged, locked>>

ReadBalance(e) ==
  /\ At(e, "balance") /\ e \in Events
  /\ tx' = [tx EXCEPT ![e].pc = "commit", ![e].verdict = "SALE",
                      ![e].snap = line[Primary].moves]
  /\ UNCHANGED <<tables, charged, locked>>

\* Mutant: every item of a paid order is queued.
Missing_All == Deliverable

\* One PENDING fulfilment for each item that has none yet: read after the order's
\* row was updated, so after the commit of any other confirmation.
Missing == {l \in Deliverable : \A i \in DOMAIN fulfillments : fulfillments[i].line # l}
Enqueued(l) == [line |-> l, status |-> "PENDING"]

CommitSale(e) ==
  /\ tx[e].verdict = "SALE"
  /\ line[Primary].moves = tx[e].snap
  /\ "sale" \notin line[Primary].moves
  /\ line' = [line EXCEPT ![Primary] =
                [status |-> "COMMITTED", moves |-> @.moves \cup {"sale"}]]

Commit(e) ==
  /\ At(e, "commit")
  /\ \/ CommitSale(e)
     \/ tx[e].verdict # "SALE" /\ UNCHANGED line
  /\ IF tx[e].verdict = "RECONCILIATION_HOLD"
       THEN order' = "RECONCILIATION_HOLD" /\ UNCHANGED fulfillments
       ELSE /\ order' = "PROCESSING"
            /\ \E new \in [1..Cardinality(Missing) -> Missing] :
                 /\ \A l \in Missing : \E i \in DOMAIN new : new[i] = l
                 /\ fulfillments' = fulfillments \o [i \in DOMAIN new |-> Enqueued(new[i])]
  /\ txns' = txns \cup {Txn[e]}
  /\ attempt' = "CONFIRMED" /\ payment' = "CONFIRMED"
  /\ locked' = NoProc
  /\ Goto(e, "settle")
  /\ UNCHANGED <<receipts, charged>>

\* Another version of the row, or the sale's key: the confirmation throws.
CommitRejected(e) ==
  /\ At(e, "commit") /\ tx[e].verdict = "SALE"
  /\ line[Primary].moves # tx[e].snap \/ "sale" \in line[Primary].moves
  /\ Fail(e)

Settle(e) ==
  /\ At(e, "settle")
  /\ Process(e) /\ End(e)
  /\ UNCHANGED <<order, payment, attempt, line, fulfillments, txns, charged, locked>>

-----------------------------------------------------------------------------
(***************************************************************************)
(* cancelBeforePay, and the expiry job: both give lines back one by one.   *)
(***************************************************************************)
CancelRead(c) ==
  /\ At(c, "idle")
  /\ IF order = "PENDING_PAYMENT"
       THEN tx' = [tx EXCEPT ![c].pc = "status", ![c].at = Primary]
       ELSE End(c)
  /\ UNCHANGED <<tables, charged, locked>>

HeldLines == {l \in Lines : line[l].status = "HELD"}

\* After the primary: the HELD reservations of the order, as they are now.
CancelFind(c) ==
  /\ At(c, "find")
  /\ tx' = [tx EXCEPT ![c].pc = "close", ![c].todo = HeldLines]
  /\ UNCHANGED <<tables, charged, locked>>

\* A timer tick finds any HELD reservations: times are not modelled.
TickFind(t) ==
  /\ At(t, "idle")
  /\ \E found \in SUBSET HeldLines \ {{}} :
       tx' = [tx EXCEPT ![t].pc = "close", ![t].todo = found]
  /\ UNCHANGED <<tables, charged, locked>>

NextLine(p, l) ==
  /\ At(p, "close") /\ l \in tx[p].todo
  /\ tx' = [tx EXCEPT ![p].pc = "status", ![p].at = l, ![p].todo = @ \ {l}]
  /\ UNCHANGED <<tables, charged, locked>>

MoveOf(p) == IF p \in Cancels THEN "cancel" ELSE "expire"
GivenBack(p) == IF p \in Cancels THEN "RELEASED" ELSE "EXPIRED"

\* The first release of a cancel is followed by the search, the others and the
\* job's by the next line.
Onward(p) == IF p \in Cancels /\ tx[p].at = Primary THEN "find" ELSE "close"

ReadStatus(p) ==
  /\ At(p, "status")
  /\ Goto(p, IF line[tx[p].at].status = "HELD" THEN "balance" ELSE Onward(p))
  /\ UNCHANGED <<tables, charged, locked>>

\* release looks for its movement first, the job does not.
ReadRow(p) ==
  /\ At(p, "balance") /\ p \notin Events
  /\ IF p \in Cancels /\ "cancel" \in line[tx[p].at].moves
       THEN Goto(p, Onward(p))
       ELSE tx' = [tx EXCEPT ![p].pc = "write", ![p].snap = line[tx[p].at].moves]
  /\ UNCHANGED <<tables, charged, locked>>

GiveBack(p) ==
  LET l == tx[p].at IN
  /\ At(p, "write")
  /\ line[l].moves = tx[p].snap /\ MoveOf(p) \notin line[l].moves
  /\ line' = [line EXCEPT ![l] = [status |-> GivenBack(p), moves |-> @.moves \cup {MoveOf(p)}]]
  /\ Goto(p, Onward(p))
  /\ UNCHANGED <<order, payment, attempt, fulfillments, txns, receipts, charged, locked>>

GiveBackRejected(p) ==
  LET l == tx[p].at IN
  /\ At(p, "write")
  /\ line[l].moves # tx[p].snap \/ MoveOf(p) \in line[l].moves
  /\ Fail(p)

\* The cancel ends with an update by id alone; the status was read at the start.
CloseOrder(c) ==
  /\ At(c, "close") /\ tx[c].todo = {}
  /\ order' = "CANCELLED"
  /\ End(c)
  /\ UNCHANGED <<payment, attempt, line, fulfillments, txns, receipts, charged, locked>>

EndTick(t) ==
  /\ At(t, "close") /\ tx[t].todo = {}
  /\ End(t)
  /\ UNCHANGED <<tables, charged, locked>>

-----------------------------------------------------------------------------
(***************************************************************************)
(* DigitalFulfillmentService: separate statements, no transaction.         *)
(***************************************************************************)
MarkRow(a, i, status, next) ==
  /\ At(a, "idle") /\ i \in DOMAIN fulfillments
  /\ fulfillments' = [fulfillments EXCEPT ![i].status = status]
  /\ Goto(a, next)
  /\ UNCHANGED <<order, payment, attempt, line, txns, receipts, charged, locked>>

MarkReady(a, i) == MarkRow(a, i, "READY", "ready")
MarkDelivered(a, i) == MarkRow(a, i, "DELIVERED", "count")

SetOrder(a, pc, status) ==
  /\ At(a, pc)
  /\ order' = status
  /\ End(a)
  /\ UNCHANGED <<payment, attempt, line, fulfillments, txns, receipts, charged, locked>>

ReadyOrder(a) == SetOrder(a, "ready", "FULFILLING")
CompleteOrder(a) == SetOrder(a, "complete", "COMPLETED")

AllDelivered == \A i \in DOMAIN fulfillments : fulfillments[i].status = "DELIVERED"

\* Mutant: only an order still PROCESSING is completed.
CountPending_OnlyProcessing(a) ==
  /\ At(a, "count")
  /\ IF AllDelivered /\ order = "PROCESSING" THEN Goto(a, "complete") ELSE End(a)
  /\ UNCHANGED <<tables, charged, locked>>

CountPending(a) ==
  /\ At(a, "count")
  /\ IF AllDelivered THEN Goto(a, "complete") ELSE End(a)
  /\ UNCHANGED <<tables, charged, locked>>

-----------------------------------------------------------------------------
Initiate(w) == InitiateRead(w) \/ InitiateCall(w) \/ InitiateMark(w)

Confirm(e) ==
  \/ Apply(e) \/ ReadTxn(e) \/ ReadOrder(e) \/ TakeLocks(e) \/ ReadPrimary(e)
  \/ ReadBalance(e) \/ Commit(e) \/ CommitRejected(e) \/ Settle(e)

ReleaseStep(p) ==
  \/ \E l \in Lines : NextLine(p, l)
  \/ ReadStatus(p) \/ ReadRow(p) \/ GiveBack(p) \/ GiveBackRejected(p)

Cancel(c) == CancelFind(c) \/ CloseOrder(c) \/ ReleaseStep(c)
Tick(t) == TickFind(t) \/ EndTick(t) \/ ReleaseStep(t)
Admin(a) ==
  \/ \E i \in DOMAIN fulfillments : MarkReady(a, i) \/ MarkDelivered(a, i)
  \/ ReadyOrder(a) \/ CountPending(a) \/ CompleteOrder(a)

Next ==
  \/ \E w \in Workers : Initiate(w)
  \/ \E e \in Events : Receive(e) \/ Confirm(e)
  \/ \E c \in Cancels : CancelRead(c) \/ Cancel(c)
  \/ \E t \in Ticks : Tick(t)
  \/ \E a \in Admins : Admin(a)
  \/ \E p \in Procs : Abort(p)

Spec == Init /\ [][Next]_vars

\* A started handler, request or job goes on unless it fails.
Fairness ==
  /\ \A w \in Workers : WF_vars(Initiate(w))
  /\ \A e \in Events : WF_vars(Confirm(e))
  /\ \A c \in Cancels : WF_vars(Cancel(c))
  /\ \A t \in Ticks : WF_vars(Tick(t))

FairSpec == Spec /\ Fairness
-----------------------------------------------------------------------------
(***************************************************************************)
(* Properties.                                                             *)
(***************************************************************************)
\* No order is worked on, shipped or put on hold without a CONFIRMED capture,
\* and no capture leaves its order waiting for payment (confirmPaymentForOrder
\* commits both or nothing, whatever ran between its reads).
PaidMeansCaptured ==
  /\ order \in Settled => txns # {}
  /\ txns # {} => order # "PENDING_PAYMENT"

\* A receipt is marked processed only once the money it reports is on record:
\* no event is marked off and then lost (applyEscrowReceipt).
ProcessedMeansCaptured ==
  \A e \in Events : receipts[e] = "processed" /\ Kind[e] = "paid" => txns # {}

\* Two events that both read the order as PENDING_PAYMENT never queue an item for
\* delivery twice: the second waits for the rows of the first and then finds
\* its fulfilments.
OneFulfillmentPerItem ==
  \A i, j \in DOMAIN fulfillments : fulfillments[i].line = fulfillments[j].line => i = j

\* Goods are handed over only if the primary line was sold: the reservation was
\* still held when the payment came (confirmPaymentForOrder's three cases).
FulfilledIsSold == fulfillments # <<>> => "sale" \in line[Primary].moves

\* An accepted webhook of the exact amount takes its order out of
\* PENDING_PAYMENT ("Reconcile loop retries", payments.service.ts).
AcceptedPaymentSettles ==
  \A e \in Events :
    receipts[e] = "stored" /\ Kind[e] = "paid" /\ Exact[e] ~> order # "PENDING_PAYMENT"

\* An order that has been paid is not cancelled by a cancel-before-pay
\* (ADR-0011, sections 29 and 32).
PaidNotCancelled == [][order' = "CANCELLED" => order \notin Paid]_vars

\* Payment confirmation converts every reservation of the order to a committed
\* sale (SRS, FR-INV-004).
SoldWhole == order = "PROCESSING" => \A l \in Lines : "sale" \in line[l].moves

\* A confirmed attempt is never again merely initiated or failed (ADR-0011,
\* state diagram of the payment attempt).
AttemptStaysConfirmed == [][attempt = "CONFIRMED" => attempt' = "CONFIRMED"]_vars

\* One order asks the provider for one charge (ADR-0011, section 32).
OneCharge == Cardinality(charged) <= 1

\* A webhook that arrives for a cancelled order puts it on hold for
\* reconciliation (ADR-0011, section 29).
LateCaptureIsHeld ==
  \A e \in Events :
    receipts[e] = "stored" /\ Kind[e] = "paid" /\ Exact[e] /\ order = "CANCELLED"
      ~> order = "RECONCILIATION_HOLD"

\* Once everything has been delivered and nobody is at work on the order, it is
\* COMPLETED (ADR-0011, section 19).
DeliveredIsCompleted ==
  fulfillments # <<>> /\ AllDelivered /\ (\A a \in Admins : At(a, "idle")) => order = "COMPLETED"

=============================================================================
