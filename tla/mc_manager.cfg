CONSTANTS
  n1 = n1
  n2 = n2
  r1 = r1
  r2 = r2
  r3 = r3
  Names = {n1, n2}
  Requests = {r1, r2, r3}
  None = None
  Faults = TRUE
  MaxStarts = 2
SPECIFICATION Spec
SYMMETRY ManagerSymmetry
INVARIANTS
  TypeOK
  OpenEntriesOwnTheirDirectory
  RegistryIsTheTable
  HandlesAreRegistered
  UnavailableIsBeingRecovered
  AcknowledgedCreateSurvives
  HollowRowsAreCutDrops
CHECK_DEADLOCK FALSE
