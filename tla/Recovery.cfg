SPECIFICATION Spec
CONSTANTS
  Saver = {s1, s2}
  MaxChange = 2
  MaxJob = 3
  MaxFault = 2
  Backup = {b1, b2}
  Few = 1
INVARIANTS TypeOK UnsavedHasCarrier
PROPERTIES StartKeepsSaved StartKeepsBacked
SYMMETRY MCThreads
CHECK_DEADLOCK FALSE
