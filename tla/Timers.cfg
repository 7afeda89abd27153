SPECIFICATION TimersSpec
CONSTANTS
  Region = {r1}
  Occupied = {}
  Slot = {s1, s2}
  w1 = w1
  p1 = p1
  shahed = shahed
  kab = kab
  Gid <- MCGid
  NoGid = NoGid
  Norm <- MCNorm
  Type <- MCType
  NoType = NoType
  OfficialAlarm = OfficialAlarm
  Family <- MCFamily
  NoCard = NoCard
  NoBackup = NoBackup
  TestTraffic = {FALSE}
  ReportKey <- MCReportKey
  PredictedKey <- MCPredictedKey
  RegexType <- MCRegexType
  MaxMessage = 3
  MaxRestart = 1
INVARIANT VerdictIsCurrent
PROPERTIES NoForgottenCard
CHECK_DEADLOCK FALSE
