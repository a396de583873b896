---------------------------- MODULE StockLedger ----------------------------
(***************************************************************************)
(* What the inventory service promises, with no transactions in it: a      *)
(* stock row per SKU and location, and a journal of movements.  Posting a  *)
(* movement is one indivisible step that records it under a key used once  *)
(* and moves the row by the movement's quantity, and the row never breaks  *)
(* the CHECK constraints of the table (on_hand >= reserved >= 0).          *)
(* Module Inventory, the interleaved transactions of the code, implements  *)
(* this.                                                                   *)
(***************************************************************************)
EXTENDS Integers

CONSTANTS
  Stocks,   \* the (sku, location) pairs
  Absent    \* stands for a row that has not been inserted

VARIABLES
  stock,    \* the row of each pair: [onHand, reserved], or Absent
  journal   \* the set of movements posted

Types == {"RECEIPT", "ADJUSTMENT", "RESERVATION", "RELEASE", "SALE"}

\* What one movement adds to on_hand and to reserved.
OnHandDelta(type, qty) ==
  CASE type = "RECEIPT"               -> qty
    [] type \in {"ADJUSTMENT", "SALE"} -> -qty
    [] OTHER                          -> 0

ReservedDelta(type, qty) ==
  CASE type = "RESERVATION"       -> qty
    [] type \in {"RELEASE", "SALE"} -> -qty
    [] OTHER                      -> 0

\* The CHECK constraints of inventory_balances.
RowValid(row) ==
  /\ row.onHand >= row.reserved
  /\ row.onHand >= 0
  /\ row.reserved >= 0

Posted(key) == \E m \in journal : m.key = key

\* A movement is posted under a new key against a row; only a stock count
\* (RECEIPT or ADJUSTMENT) may open the row, from zero.
Post(m) ==
  LET row == IF stock[m.stock] = Absent THEN [onHand |-> 0, reserved |-> 0]
                                        ELSE stock[m.stock]
      new == [onHand   |-> row.onHand + OnHandDelta(m.type, m.qty),
              reserved |-> row.reserved + ReservedDelta(m.type, m.qty)]
  IN /\ m.stock \in Stocks
     /\ m.type \in Types
     /\ m.qty \in Nat
     /\ stock[m.stock] = Absent => m.type \in {"RECEIPT", "ADJUSTMENT"}
     /\ ~Posted(m.key)
     /\ RowValid(new)
     /\ stock' = [stock EXCEPT ![m.stock] = new]
     /\ journal' = journal \cup {m}

LedgerInit ==
  /\ \A s \in Stocks : stock[s] # Absent => RowValid(stock[s])
  /\ journal = {}

LedgerNext == \E m \in journal' \ journal : Post(m)

LedgerSpec == LedgerInit /\ [][LedgerNext]_<<stock, journal>>
=============================================================================
