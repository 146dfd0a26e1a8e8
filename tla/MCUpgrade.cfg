CONSTANTS
  NPaths = 2
  old = old
  new = new
  installed = installed
  theirs = theirs
  Absent = Absent
  NoEntry = NoEntry
  CaptureError = CaptureError
  Present <- MCPresent
  InitialStates <- MCInitialStates
  InstallStates <- MCInstallStates
  UserStates <- MCUserStates
  Options <- MCOptions
  MaxEdits = 2
  NDirect = 3
  NestedRoot = 2
  TopVersion = 3
  PlanProblems <- MCPlanProblems
  MaxStates = 6
  MaxAdditional = 2
  MaxPerPackage = 2
  MaxQueries = 2
  NVersions = 8
  Prereleases = {3, 8}
  RecentTargets = 1
  StableTargets = 4
  PrereleaseTargets = 1
  ChoiceFacts <- MCChoiceFacts
  FixProblems <- MCFixProblems
  SecurityQuestions <- MCSecurityQuestions
  MaxPaths = 1
  CleanupQuestions <- MCCleanupQuestions
  LockQuestions <- MCLockQuestions
  MaxInstallPaths = 2
SPECIFICATION UpgradeSpec
INVARIANTS
  TypeOK
  CleanOutcome
  LeftoversReported
  LostOnlyIfAbsorbed
  ResultsAreTold
  PlansAreSound
  ChoicesAreSound
  SecurityIsHonest
  EvidenceIsRight
PROPERTIES
  AbortedNeverKept
  AbortEnds
  ImplementsOutcome
