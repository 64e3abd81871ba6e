CONSTANTS
  None = None
  MaxParams = 2
SPECIFICATION Spec
INVARIANTS
  TypeOK
  CreateTakesWhatIsDocumented
  ParamsReachTheIndex
  SearchTakesWhatFits
