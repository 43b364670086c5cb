SPECIFICATION WorkerFaultSpec
CONSTANTS
  MaxThreads = 2
  Cores = {1, 2}
  SetCounts = {1}
  Callers = {c1, c2}
  Counts = {1, 2, 3}
  Errors = {7}
  MAX_COUNT = 3
  CL_INT_MAX = 6
  MaxSpins = 1
  EAGAIN = 11
  MaxWakes = 1
  None = None
SYMMETRY CallersAlike
CHECK_DEADLOCK FALSE
INVARIANTS NoJobOutlivesItsCall ReturnIsRight ThreadIdsDistinct ThreadIdCounterAlive ExitOrderStands
           ExitKnowsWhoIsLeft FaultInv
PROPERTIES JobsRunOnce ImplementsJobService
