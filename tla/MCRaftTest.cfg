\* Two servers with a log of two entries; one kill or one wrong delivery.
SPECIFICATION FairSpec
CONSTANTS
  Servers = {s1, s2}
  Cmds = {a, b}
  None = None
  SnapShotInterval = 2
  MaxIndex = 2
  MaxTrouble = 1
  MaxOnes = 2
CHECK_DEADLOCK FALSE
INVARIANTS
  TypeOK
  NoFalseAlarm
  LogsAreCommitted
  AgreementIsReal
PROPERTIES
  ConflictIsReported
  CommittedIsReported
