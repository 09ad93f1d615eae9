SPECIFICATION Spec
CONSTANTS
  Addr = {a1, a2, a3, a4}
  Rows = {x, y, z}
  Grids = {g, h}
  Structs = {s, t}
  Ints = {n1}
  NFields = 2
  Nil = Nil
  MaxLen = 2
  MaxDepth = 1
  Programs <- AllPrograms
  Forms = {}
SYMMETRY Symmetry
INVARIANTS
  TypeOK
  RefcountExact
  NoDangling
PROPERTIES
  ImplementsValues
