CONSTANTS
  a = a
  b = b
  NoProject = NoProject
  Projects <- MCProjects
  NCalls = 1
  NCreates = 1
  MaxEvents = 2
  MaxMutations = 1
SPECIFICATION FairSpec
PROPERTIES
  EventsAnswered
CHECK_DEADLOCK FALSE
