SPECIFICATION FairSpec
CONSTANTS
  Task = {t1, t2}
  Forms = {}
  NULL = NULL
INVARIANTS
  TypeOK
  NoDangling
  NothingLeft
PROPERTIES
  ImplementsFutures
  AwaitReturns
CHECK_DEADLOCK FALSE
