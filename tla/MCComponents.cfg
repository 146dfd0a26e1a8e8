CONSTANTS
  Projects = {"p1"}
  MaxEdits = 1
  MaxReloads = 2
  MaxRevalidations = 7
  MountsAnytime = FALSE
  Contents = {"a", "b"}
  Gone = "gone"
  Partial = "partial"
  Modes = {"m1", "m2"}
  Private = "private"
  CacheKeys = {"k1", "k2"}
  MaxEntries = 2
  Trailing = 1
  MaxDelay = 2
  MaxWrites = 3
  Calls = {"c1", "c2"}
  MaxTasks = 2
  NItems = 4
  Limit = 2
  Skew = 1
  MaxTtl = 2
  MaxJump = 5
  EtagEntries <- MCEtagEntries
  MaxStored = 4
  EtagBudget = 8
  GithubBudget = 4
  EtagLimit = 3
  EmptyBytes = 2
  MaxDisturbances = 1
  MaxUsageAsks = 2
  MaxPasses = 1
  ReviewPackages = {"a", "b"}
  MaxReviews = 2
  MaxRows = 1
  CleanupPackages = {"a", "b", "c"}
  Convention = {"c"}
  OptionalPeers = {"a"}
  PeerNeeds <- MCPeerNeeds
  MaxCleanups = 1
  MaxImpacts = 2
  MaxSelections = 1
  MaxCleanupEdits = 1
  MaxInFlight = 1
  MaxFixes = 1
  MaxFixEdits = 1
  MaxFixMessages = 2
  Deps = {"a"}
  Below <- MCBelow
  NpmFindings <- MCNpmFindings
  NoGhsa = "none"
  AuditReports <- MCAuditReports
  MaxPages = 2
  Chains = 2
  MaxRedirects = 3
  MaxChunks = 1
  ReviewRows = {1, 2, 3}
  UnsafeRows = {1}
  CriteriaMatches <- MCMatches
  LaterRows <- MCLaterRows
  ImpactsOf <- MCImpacts
  BatchLimit = 2
  MaxBulkEvents = 2
  TableResults <- MCTables
  Searches <- MCSearches
  PageSizes = {1, 3}
  UnusedPackages <- MCUnused
  MaxTableEvents = 4
SPECIFICATION MCSpec
INVARIANTS
  RowsMatchTheirSource
  ReplacementIsWhole
  WritesAreKept
  CallsReportTheirTasks
  StoppedIsGone
  ItemsAreAccountedFor
  TrustIsBounded
  StoresStayBounded
  AnalysesKeepApart
  ReviewsAgree
  ReviewedIsCarriedOut
  ScansAreHonest
PROPERTIES
  SwapsAtomically
  CleanupIsReviewed
CHECK_DEADLOCK FALSE
