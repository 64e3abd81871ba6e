CONSTANTS
  a = a
  Requests = {1, 2, 3}
  Initial = {a}
  None = None
  PoolSize = 2
  MaxBatches = 1
SPECIFICATION OrderedFairSpec
PROPERTIES
  EveryRequestEnds
