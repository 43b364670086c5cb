SPECIFICATION CallerFaultSpec
CONSTANTS
  MaxThreads = 2
  Cores = {2}
  SetCounts = {1}
  Callers = {c1}
  Counts = {1, 2}
  Errors = {7}
  MAX_COUNT = 3
  CL_INT_MAX = 6
  MaxSpins = 1
  EAGAIN = 11
  MaxWakes = 2
  None = None
CHECK_DEADLOCK FALSE
INVARIANT ReturnIsRight
