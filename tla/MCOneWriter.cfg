CONSTANTS
  NFlows = 3
  p = p
  q = q
  NoPkg = NoPkg
  Pkgs <- MCPkgs
  MaxEdits = 1
  MaxEvents = 0
SPECIFICATION RetainedReviewSpec
INVARIANTS
  OneWriter
CHECK_DEADLOCK FALSE
