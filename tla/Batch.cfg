SPECIFICATION Spec
CONSTANTS
  Message <- MCMessage
  Relevant <- MCRelevant
  Region = {r1, r2}
  KeyCounts <- MCKeyCounts
INVARIANTS TypeOK ThreatsTold
PROPERTIES EveryKeyTried BatchesKept
CHECK_DEADLOCK FALSE
