CONSTANTS
  Region = {r1, r2}
  Caller = {c1}
  Timer = {t1, t2}
  NoRegion = NoRegion
  NoTimer = NoTimer
  Nobody = Nobody
  TestTraffic = FALSE
  Sweeps = TRUE
SPECIFICATION FairSpec
INVARIANT OwedHasCarrier
PROPERTIES OwedIsPushed ClearLockReleased
