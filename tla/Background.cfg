SPECIFICATION MCFairSpec
CONSTANTS
  t1 = t1  t2 = t2  r1 = r1  v1 = v1
  Components = {"outbox", "notifications", "services"}
  MaxMessages = 3
  Publishers = {t1, t2}
  Requeuers = {r1}
  BatchSize = 2
  MaxAttempts = 2
  Unsafe = {t2}
  Total = 3
  Emails = {2, 3}
  Ticks = {t1, t2}
  Services = {v1}
  Limit = 1
  Faulty = {t1}
  Files <- TheFiles
  Seeds = 3
  MaxBusy = 2
CHECK_DEADLOCK FALSE
INVARIANTS PublishedIsHandled AttemptsBounded SentOnce ServicesFitTogether CleanExitIsWhole
PROPERTIES OutboxDrains EmailsEndUnlessAbandoned
