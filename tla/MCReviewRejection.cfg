CONSTANTS
  ReviewPackages = {"a"}
  MaxReviews = 2
  MaxRows = 0
SPECIFICATION ReviewSpec
INVARIANTS
  RejectionIsOfAnother
CHECK_DEADLOCK FALSE
