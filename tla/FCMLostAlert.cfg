CONSTANTS
  Region = {r1}
  Caller = {c1, c2}
  Timer = {t1, t2}
  NoRegion = NoRegion
  NoTimer = NoTimer
  Nobody = Nobody
  TestTraffic = FALSE
  Sweeps = FALSE
SPECIFICATION Spec
INVARIANT OwedHasCarrier
