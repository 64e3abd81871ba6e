CONSTANTS
  r1 = r1
  r2 = r2
  r3 = r3
  Requests = {r1, r2, r3}
  Recovery = Recovery
  None = None
  MaxBatches = 1
  EngineFaults = FALSE
SPECIFICATION Spec
SYMMETRY RequestSymmetry
INVARIANT QueuedInfoIsRefusedCleanly
