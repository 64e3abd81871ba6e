CONSTANTS
  r1 = r1
  r2 = r2
  r3 = r3
  Requests = {r1, r2, r3}
  Recovery = Recovery
  None = None
  MaxBatches = 1
  EngineFaults = TRUE
SPECIFICATION Spec
SYMMETRY RequestSymmetry
INVARIANTS
  TypeOK
  CallsUseLiveHandle
  HandleIsOpen
  MaintenanceAlone
  TeardownUnobstructed
  CursorsReleasedOnce
PROPERTIES
  DropIsFinal
  ServedOnlyWhileOpen
