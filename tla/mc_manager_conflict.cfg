CONSTANTS
  n1 = n1
  r1 = r1
  r2 = r2
  Names = {n1}
  Requests = {r1, r2}
  None = None
  Faults = FALSE
  MaxStarts = 2
SPECIFICATION Spec
SYMMETRY ManagerSymmetry
PROPERTIES
  ConflictMeansStored
CHECK_DEADLOCK FALSE
