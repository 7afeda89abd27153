SPECIFICATION MCSpec
CONSTANTS
  t1 = t1
  t2 = t2
  g1 = g1
  shahed = shahed
  Tid <- MCTid
  TypeOf <- MCTypeOf
  GidOf <- MCGidOf
  NoGid = NoGid
  Official = Official
  ThreatClear = ThreatClear
  Writer = {w1, w2}
  SirenAtStart = {TRUE, FALSE}
  MaxExtra = 1
  MaxFault = 1
INVARIANTS TypeOK HistoryAlternates OneClearing
PROPERTIES ClosedOnce ReconcileRestores
SYMMETRY MCWriters
CHECK_DEADLOCK FALSE
