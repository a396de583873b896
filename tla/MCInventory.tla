---------------------------- MODULE MCInventory ----------------------------
(* Instances of Inventory for TLC. *)
EXTENDS Inventory, TLC

CONSTANTS s1, p1, p2, j1, j2, k1, k2, k3, c1

OpeningOne  == [s \in Stocks |-> 3]
OpeningTwo  == [s \in Stocks |-> 2]
OpeningNone == [s \in Stocks |-> NoRow]

UpAndDown == {2, -1}
UpOnly    == {1}
DownOnly  == {-1}

SaleOps   == {"reserve", "cancel", "sale", "expire"}
AdminOps  == {"adjust", "reserve", "rollback", "commit"}
StockOps  == {"adjust", "reserve", "cancel", "commit", "sale", "expire"}
ExpiryOps == {"adjust", "reserve", "expire"}
CancelOps == {"reserve", "cancel", "expire"}
AdjustOps == {"adjust"}

Symmetry ==
  Permutations(Requests) \cup Permutations(Jobs) \cup Permutations(ClientKeys)
=============================================================================
