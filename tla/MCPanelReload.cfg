CONSTANTS
  a = a
  b = b
  NoProject = NoProject
  Projects <- MCProjects
  NCalls = 2
  NCreates = 2
  MaxEvents = 2
  MaxMutations = 1
SYMMETRY MCSymmetry
SPECIFICATION Spec
CONSTRAINTS
  NotRaced
  ThreeLoads
INVARIANTS
  TypeOK
  ShownIsSelected
  NothingWaitsAlone
  NoEventLost
CHECK_DEADLOCK FALSE
