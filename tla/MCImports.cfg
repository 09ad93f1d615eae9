SPECIFICATION Spec
CONSTANTS
  m = m
  a = a
  b = b
  c = c
  File = {m, a, b, c}
  Main = m
  Name = {"main", "f", "g", "h", "k", "T", "Show", "sin"}
  StdNames = {"sin"}
  Layouts <- SmallLayouts
INVARIANTS
  TypeOK
  CyclesExact
  Linked
CHECK_DEADLOCK FALSE
