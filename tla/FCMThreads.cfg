CONSTANTS
  Region = {r1}
  Caller = {c1, c2}
  Timer = {t1, t2, t3}
  NoRegion = NoRegion
  NoTimer = NoTimer
  Nobody = Nobody
  TestTraffic = TRUE
  Sweeps = TRUE
SPECIFICATION Spec
SYMMETRY Symmetry
INVARIANTS TypeOK PendingIsLive
