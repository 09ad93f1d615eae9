SPECIFICATION Spec
CONSTANTS
  Enum = {"E", "F"}
  Name = {"a", "b", "c", "x"}
  Lit = {0, 1, 2, 3}
  MaxArms = 3
  Programs <- SmallPrograms
INVARIANTS
  TypeOK
  ExhaustiveExact
  ArmMeant
CHECK_DEADLOCK FALSE
