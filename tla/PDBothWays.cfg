CONSTANTS
  Region = {r1}
  Worker = Worker
  Pruner = Pruner
  Task = {k1, k2}
  Batched = FALSE
  Ages = {2}
  BatchAges = {4}
  Pause = 2
  Cooldown = 2
  DupWindow = 4
  LogWindow = 3
  MaxTime = 5
  BatchMaxTime = 2
  MaxEvents = 3
SPECIFICATION MCSpec
SYMMETRY Symmetry
CHECK_DEADLOCK FALSE
INVARIANT TypeOK
PROPERTIES NoRepeatWithinCooldown QueueKeepsOrder OldAlertIsNoDuplicate
