SPECIFICATION MCSpec
CONSTANTS
  r1 = r1  r2 = r2  r3 = r3  c1 = c1  c2 = c2  c3 = c3
  None = None
  Requests = {r1, r2, r3}
  Calls <- CatalogueCalls
  Slugs = {"a", "b"}
  Fresh = {"c"}
  Topics = {"reads", "writes", "prices", "images"}
  MaxSaid = 2
  Deliveries = {r1, r2}
  File <- TheFile
  ParseErrors = 1
  NoName = NoName
  Products = {1, 2, 3}
  Categories = {c1, c2, c3}
  Queries <- TheQueries
  Shops <- TheShops
  Trees <- TheTrees
  Rank <- TheRank
  MaxPages = 3
  MaxEdits = 1
  Unset = Unset
  Utterances <- TheUtterances
  Providers = {"deterministic", "model"}
  ModelArgs <- TheArgs
  MaxMessages = 3
  MaxCalls = 2
  MaxCards = 2
  ToolSize = 2
  Components = {"taxonomy"}
  b1 = b1  b2 = b2
  Boots = {b1}
  Editors = {r1, r2}
  Roots <- TheRoots
  Names = {"New", "AI"}
  Slugify <- TheSlugify
  Suffixed = {"x"}
  MaxRows = 3
  MaxRequests = 2
  NoRow = NoRow
  Runs = {r1, r2}
  Items = {1, 2}
  Faulty = {}
  GroupOf <- OneGroup
  SoldOut = {}
  PageSize = 1
  Paginated = TRUE
  MaxFetches = 2
  MaxChanges = 1
CHECK_DEADLOCK FALSE
INVARIANT BootsSucceed
