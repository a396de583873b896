SPECIFICATION MCFairSpec
CONSTANTS
  l1 = l1  l2 = l2  e1 = e1  e2 = e2  e3 = e3  e4 = e4  t1 = t1  t2 = t2
  c1 = c1  k1 = k1  k2 = k2  w1 = w1  w2 = w2  a1 = a1  a2 = a2
  NoProc = NoProc
  Primary = l1
  Lines = {l1, l2}
  Deliverable = {l1, l2}
  Events = {e1, e2, e3, e4}
  Kind <- MixedKinds
  Txn <- Txn12
  Exact <- OneWrong
  Cancels = {}
  Ticks = {}
  Workers = {w1}
  Admins = {a1}
  Aborting = {}
  Components = {"orders", "page"}
PROPERTIES AcceptedPaymentSettles FinalStatusIsShown
INVARIANT DeliveredIsCompleted
CHECK_DEADLOCK FALSE
