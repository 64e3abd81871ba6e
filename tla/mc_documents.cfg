CONSTANTS
  r1 = r1
  r2 = r2
  d1 = d1
  d2 = d2
  f1 = f1
  f2 = f2
  Requests = {r1, r2}
  Given = {d1, d2}
  Fresh = {f1, f2}
  Old = Old
  None = None
  MaxDocs = 2
  BatchSize = 1
SPECIFICATION Spec
SYMMETRY DocumentSymmetry
INVARIANTS
  TypeOK
  CursorsAreAccountedFor
PROPERTIES
  ImplementsStore
