SPECIFICATION FairListenSpec
CONSTANTS
  Server = {a}
  Conn = {c1}
  MaxConn = 1
  DrainTicks = 1
  MaxSignals = 1
  Runtimes = {FALSE}
  None = None
PROPERTY ShutdownCompletes
CHECK_DEADLOCK FALSE
