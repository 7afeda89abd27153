SPECIFICATION Spec
CONSTANTS
  MaxPost = 2
  Relevant <- MCRelevant
  ScanLimit = 2
  FirstLimit = 1
  PageSize = 1
  MaxCrash = 1
INVARIANTS TypeOK Accounted AppliedOnce
PROPERTIES Applied
CHECK_DEADLOCK FALSE
