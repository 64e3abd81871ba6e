CONSTANTS
  n1 = n1
  r1 = r1
  r2 = r2
  r3 = r3
  Names = {n1}
  Requests = {r1, r2, r3}
  None = None
  Faults = TRUE
  MaxStarts = 1
SPECIFICATION FairSpec
PROPERTIES
  RequestsEnd
  EventLoopResumes
CHECK_DEADLOCK FALSE
