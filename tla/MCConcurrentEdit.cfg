CONSTANTS
  NPaths = 2
  old = old
  new = new
  installed = installed
  theirs = theirs
  Absent = Absent
  NoEntry = NoEntry
  CaptureError = CaptureError
  Present <- MCPresent
  InitialStates <- MCInitialStates
  InstallStates <- MCInstallStates
  UserStates <- MCUserStates
  Options <- MCOptions
  MaxEdits = 1
SPECIFICATION Spec
INVARIANTS
  NoConcurrentEditLost
