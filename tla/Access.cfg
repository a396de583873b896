SPECIFICATION MCSpec
CONSTANTS
  r1 = r1  r2 = r2  r3 = r3  r4 = r4  c1 = c1  ann = ann  eve = eve  root = root  home = home  office = office
  Nobody = Nobody
  Seed = "seed"
  OldPassword = "old"
  Requests = {r1, r2, r3}
  Calls <- AccessCalls
  Topics = {"passwords", "factors", "accounts", "others"}
  Users = {ann, eve, root}
  Admins = {root}
  Existing = {ann, root}
  Browsers = {home, office}
  Desk = office
  Codes = {c1}
  MfaRequired = TRUE
  Slots = {1, 2}
  Processes = {home, office}
  Limit = 2
  Window = 2
  FallbackLimit = 1
  MaxRequests = 4
  MaxTime = 3
  Most = 2
  MaxUnits = 2
  MaxOrders = 1
  MaxEvents = 3
  Lanes = {1, 2}
  Heads = {1, 2}
  Polls = {1, 2}
  Names = {"a"}
  Prices = {1, 2}
  MaxOffers = 2
  MaxImages = 1
  MaxCreated = 2
  MaxStock = 2
  MaxDeeds = 3
  Components = {"accounts", "limiter", "storefront", "backoffice"}
SYMMETRY Symmetry
CHECK_DEADLOCK FALSE
INVARIANTS LiveSessionsKnowThePassword CodeSpentOnce WindowBound PagesShowTheCart SaveIsWhole
