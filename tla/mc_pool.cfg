CONSTANTS
  r1 = r1
  r2 = r2
  r3 = r3
  a = a
  b = b
  Requests = {r1, r2, r3}
  Initial = {a, b}
  None = None
  PoolSize = 2
  MaxBatches = 1
SPECIFICATION Spec
SYMMETRY PoolSymmetry
INVARIANTS
  TypeOK
  HoldersCanRun
  NoWaitCycle
  RegistryWaitsForItsOwn
