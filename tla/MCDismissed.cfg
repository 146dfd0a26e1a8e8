CONSTANTS
  NFlows = 2
  p = p
  q = q
  NoPkg = NoPkg
  Pkgs <- MCPkgs
  MaxEdits = 0
  MaxEvents = 0
SPECIFICATION RemountSpec
INVARIANTS
  DismissedNeverReviewed
CHECK_DEADLOCK FALSE
