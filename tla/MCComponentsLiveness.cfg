CONSTANTS
  Projects = {"p1"}
  MaxEdits = 1
  MaxReloads = 1
  MaxRevalidations = 5
  MountsAnytime = FALSE
  Contents = {"a"}
  Gone = "gone"
  Partial = "partial"
  Modes = {"m1", "m2"}
  Private = "private"
  CacheKeys = {"k1", "k2"}
  MaxEntries = 2
  Trailing = 1
  MaxDelay = 2
  MaxWrites = 2
  Calls = {"c1"}
  MaxTasks = 2
  NItems = 3
  Limit = 2
  Skew = 1
  MaxTtl = 0
  MaxJump = 0
  EtagEntries <- MCEtagEntries
  MaxStored = 0
  EtagBudget = 8
  GithubBudget = 4
  EtagLimit = 3
  EmptyBytes = 2
  MaxDisturbances = 1
  MaxUsageAsks = 1
  MaxPasses = 1
  ReviewPackages = {"a"}
  MaxReviews = 2
  MaxRows = 0
  CleanupPackages = {"a", "b", "c"}
  Convention = {"c"}
  OptionalPeers = {"a"}
  PeerNeeds <- MCPeerNeeds
  MaxCleanups = 0
  MaxImpacts = 1
  MaxSelections = 1
  MaxCleanupEdits = 1
  MaxInFlight = 1
  MaxFixes = 1
  MaxFixEdits = 0
  MaxFixMessages = 2
  Deps = {"a"}
  Below <- MCBelow
  NpmFindings <- MCNpmFindings
  NoGhsa = "none"
  AuditReports <- StillReports
  MaxPages = 1
  Chains = 2
  MaxRedirects = 1
  MaxChunks = 1
  ReviewRows = {1, 2, 3}
  UnsafeRows = {1}
  CriteriaMatches <- MCMatches
  LaterRows <- MCLaterRows
  ImpactsOf <- MCImpacts
  BatchLimit = 2
  MaxBulkEvents = 1
  TableResults <- StillTables
  Searches <- MCSearches
  PageSizes = {1, 3}
  UnusedPackages <- MCUnused
  MaxTableEvents = 0
SPECIFICATION MCSpec
PROPERTIES
  EverythingEnds
CHECK_DEADLOCK FALSE
