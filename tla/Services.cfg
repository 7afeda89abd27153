SPECIFICATION Spec
CONSTANTS
  Kind = {"confidence_correction"}
  Past <- MCPast
  Learner = {l1, l2}
  Score = {85}
  MaxAttempt = 2
  MaxReflection = 1
  MaxTrouble = 1
  PollRegion = {"r1"}
  Occupied = {}
  Notices <- MCNotices
  Tokens = {1, 3}
  Card <- MCCard
  AgeStep = 1350
  HistoryRow = {h1, h2, h3, h4}
  Many = 2
  RegionFiles <- MCRegionFiles
  SeedFile = {}
  Gov <- MCGov
  Element <- MCElement
  Batch = 1
  Region = {"west", "east"}
  Query <- MCQuery
  Loader = {d1, d2}
  Searcher = {f1}
  CellHeight = 3
  CellWidth = 2
  Near = 1
  Around = 5
  Farthest = 6
  Oblast <- MCOblast
  Border <- MCBorder
  Closed = {"crimea"}
  Course <- MCCourse
  Far <- MCFar
  Corridor <- MCCorridor
  Experience <- MCExperience
  Confirmed <- MCConfirmed
  Sky <- MCSky
  NoHeading = NoHeading
INVARIANTS TypeOK RowsHaveCarrier SearchIsExact OsmApart PredictionsSound
PROPERTIES StaleRulesEnd SirensFollow NoThreatStays
CHECK_DEADLOCK FALSE
