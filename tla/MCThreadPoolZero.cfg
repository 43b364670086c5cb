SPECIFICATION FairSpec
CONSTANTS
  MaxThreads = 2
  Cores = {2}
  SetCounts = {1}
  Callers = {c1}
  Counts = {0, 1}
  Errors = {7}
  MAX_COUNT = 4
  CL_INT_MAX = 6
  MaxSpins = 2
  None = None
CHECK_DEADLOCK FALSE
PROPERTY DoReturns
