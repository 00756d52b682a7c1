SPECIFICATION ExternalSpec
CONSTANTS
  External = {"x1", "x2"}
  Endpoint = {"e1", "e2"}
  Updatable = {"e1"}
  Lists <- MCLists
  Seed = {"p", "q"}
  SeedsOf <- MCSeedsOf
  Release <- MCRelease
  Owned = {}
  Shortlisted = {}
  Horizon = 2
  PerSource = 2
  Slack = 2
  FullEvery = 2
  StartAt = 3
  LastAt = 4
  MaxChanges = 1
  MaxRefreshes = 2
  Listing = {"x1", "x2"}
  Box = {"e1", "e2"}
  Carries <- MCCarries
  Marked = {"x1"}
  MaxRevision = 1
  Entity = {1, 2}
  Request = {r1, r2}
  MaxSecond = 2
  MaxEdits = 2
  MaxMatch = 3
  Film = {f1, f2}
  Client = {c1, c2}
  SearchImmediately = TRUE
  Process = {1, 2, 3}
  Asker = {a1, a2}
  MaxUpdates = 1
  MaxAsked = 3
  MaxFaults = 1
  Holder = {"d", "r"}
  Daemon = {"d"}
  Fact = {c1}
  MaxInstance = 3
  MaxBackups = 2
  MaxModels = 3
  MaxVersion = 2
  MaxOpens = 2
  Catalogue <- MCCatalogue
  FetchPageSize = 3
  RestPageSize = 2
  ProbeLimits = {1, 3, 5}
  MaxMoves = 2
  Session = {"a"}
  Query = {q1, q2}
  Ident = {"i", "j"}
  SiteIdent = {"j"}
  Slots = 1
  KeepFor = 1
  LastDay = 2
  MaxMerges = 1
  MaxQueries = 2
  Call = {"c", "d"}
  RequestInterval = 1
  MaxAttempts = 3
  LastSecond = 4
INVARIANTS  ExternalOrderIsCurrent CopiesAreCurrent AnswersAreWhole 
PROPERTIES WorkersGoOn
CHECK_DEADLOCK FALSE
