CONSTANTS
  a = a
  b = b
  NoProject = NoProject
  Projects <- MCProjects
  NCalls = 1
  NCreates = 2
  MaxEvents = 2
  MaxMutations = 0
SPECIFICATION FirstLoadSpec
INVARIANTS
  WatchersTrackSelection
CHECK_DEADLOCK FALSE
