CONSTANTS
  NFlows = 2
  p = p
  q = q
  NoPkg = NoPkg
  Pkgs <- MCPkgs
  MaxEdits = 0
  MaxEvents = 1
SPECIFICATION FairSpec
PROPERTIES
  ReservationFreed
  SessionEnds
CHECK_DEADLOCK FALSE
