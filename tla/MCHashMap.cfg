SPECIFICATION FairSpec
CONSTANTS
  k1 = k1
  k2 = k2
  k3 = k3
  k4 = k4
  Key = {k1, k2, k3, k4}
  Val = {v1, v2}
  Hashes <- MixedHashes
  InitCap = 4
  MaxCap = 8
  MaxRefs = 1
  MaxHandles = 2
  Forms = {}
  None = None
INVARIANTS
  TypeOK
  LookupsAgree
  CountsExact
PROPERTIES
  ImplementsMap
  CallsReturn
