SPECIFICATION MCSpec
CONSTANTS
  r1 = r1  r2 = r2  r3 = r3  o1 = o1  o2 = o2  u = u  v = v
  NoGuest = NoGuest
  Requests = {1, 2, 3}
  Actor <- TwoCustomers
  Key <- SameKey
  Failing = {1, 3}
  Offers = {1, 2}
  Quantities = {1}
  MaxEdits = 3
  CartRequests = {r1, r2, r3}
  CartCalls <- TheCalls
  Wares = {o1, o2}
  Withdrawn = {o2}
  Returning = {u, v}
  PatientMerge = TRUE
  d1 = d1  d2 = d2
  MaxTurns = 2
  MaxHistory = 2
  MaxRounds = 1
  MaxCalls = 2
  Ingests = {d1, d2}
  MaxChars = 4
  OverlapChars = 1
  Texts <- TheTexts
  Components = {"cart", "checkout", "pricing", "assistant", "knowledge"}
  None = None
  Baskets <- TheBaskets
  Promotions <- PromotionRows
  Coupons <- CouponRows
  Prepared = 3
  TaxBps = 1600  TaxRequired = TRUE  Currency = "KES"  FlatRate = 0  FreeAbove = None
SYMMETRY Symmetry
CHECK_DEADLOCK FALSE
INVARIANTS CartsHoldWhatIsOwed RetryFindsTheOrder OrderIsCovered QuoteAddsUp
  ShownIsTheConversation StoredAnswersAreWhole ReadyIsWhole
