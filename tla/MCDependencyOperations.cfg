CONSTANTS
  NFlows = 2
  p = p
  q = q
  NoPkg = NoPkg
  Pkgs <- MCPkgs
  MaxEdits = 1
  MaxEvents = 1
SYMMETRY MCSymmetry
SPECIFICATION Spec
INVARIANTS
  TypeOK
  LockHasOwner
  BusyFlagHasWriter
  ExclusiveByPackage
  DismissedByPackage
PROPERTIES
  StartsFromReviewed
CHECK_DEADLOCK FALSE
