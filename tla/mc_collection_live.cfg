CONSTANTS
  Requests = {1, 2, 3}
  Recovery = Recovery
  None = None
  MaxBatches = 0
  EngineFaults = FALSE
SPECIFICATION OrderedFairSpec
PROPERTIES
  EveryCallReturns
  RecoveryOpens
