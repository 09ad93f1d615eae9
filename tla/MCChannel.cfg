SPECIFICATION FairSpec
CONSTANTS
  Sender = {s1, s2}
  Receiver = {r1, r2}
  Node = {n1, n2, n3}
  NULL = NULL
  MaxSends = 2
INVARIANTS
  TypeOK
  OneOwner
  NoLostWakeup
PROPERTIES
  ImplementsQueue
  ValueServed
CHECK_DEADLOCK FALSE
