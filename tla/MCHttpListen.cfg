SPECIFICATION FairListenSpec
CONSTANTS
  Server = {a}
  Conn = {c1, c2, c3}
  MaxConn = 2
  DrainTicks = 2
  MaxSignals = 2
  Runtimes = {TRUE, FALSE}
  None = None
INVARIANTS
  ListenTypeOK
  SlotsExact
  InFlightFinish
PROPERTIES
  ShutdownOrClient
  IdleCloses
CHECK_DEADLOCK FALSE
