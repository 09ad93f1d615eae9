SPECIFICATION FairSpec
CONSTANTS
  Scripts <- PlainScripts
  Cap = 7
  MaxBody = 4
  LongMax = 50
  KeepAliveMax = 3
INVARIANTS
  TypeOK
  AnsweredAsSent
  CloseKept
  ArenaPaired
PROPERTY ConnEnds
CHECK_DEADLOCK FALSE
