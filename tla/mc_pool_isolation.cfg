CONSTANTS
  r1 = r1
  r2 = r2
  r3 = r3
  a = a
  b = b
  Requests = {r1, r2, r3}
  Initial = {a, b}
  None = None
  PoolSize = 2
  MaxBatches = 0
SPECIFICATION Spec
SYMMETRY PoolSymmetry
INVARIANTS
  CollectionsNeverBlockEachOther
