SPECIFICATION Spec
CONSTANTS
  s1 = s1  p1 = p1  p2 = p2  j1 = j1  j2 = j2  k1 = k1  k2 = k2  k3 = k3  c1 = c1
  NoRow = NoRow  NoRef = NoRef  NoKey = NoKey  NoStock = NoStock
  Stocks = {s1}
  Requests = {p1, p2}
  Jobs = {}
  ClientKeys = {k1, k2, k3}
  Refs = {c1}
  Quantities = {2}
  Deltas <- UpAndDown
  Crashing = {p1, p2}
  Ops <- AdminOps
  Opening <- OpeningNone
SYMMETRY Symmetry
INVARIANTS AdmissionSuffices JournalExplainsBalance
