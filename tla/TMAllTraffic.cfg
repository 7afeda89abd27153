SPECIFICATION Spec
CONSTANTS
  Region = {r1, crimea}
  Occupied = {crimea}
  Slot = {s1, s2}
  w1 = w1
  wave1 = wave1
  w2 = w2
  shahed = shahed
  drone = drone
  Gid <- MCOneGroup
  NoGid = NoGid
  Norm <- MCNorm
  Type <- MCType
  NoType = NoType
  OfficialAlarm = OfficialAlarm
  Family <- MCFamily
  NoCard = NoCard
  NoBackup = NoBackup
  TestTraffic = {TRUE, FALSE}
INVARIANTS TypeOK UniqueGroups BackupLagsByOne SirenHasCause
SYMMETRY SlotSymmetry
