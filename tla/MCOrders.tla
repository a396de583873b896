------------------------------ MODULE MCOrders ------------------------------
(* Instances of Orders for TLC. *)
EXTENDS Orders, TLC

CONSTANTS l1, l2, e1, e2, e3, e4, t1, t2, c1, k1, k2, w1, w2, a1, a2

\* e1 and e2 report the same transaction, the others another one.
Paid12     == [e \in Events |-> "paid"]
MixedKinds == (e1 :> "paid" @@ e2 :> "paid" @@ e3 :> "failed" @@ e4 :> "other")
Txn12      == [e \in Events |-> IF e \in {e1, e2} THEN t1 ELSE t2]
TxnEach    == [e \in Events |-> IF e = e1 THEN t1 ELSE t2]
AllExact   == [e \in Events |-> TRUE]
OneWrong   == [e \in Events |-> e # e2]
=============================================================================
