SPECIFICATION FairSpec
CONSTANTS
  t1 = t1
  t2 = t2
  t3 = t3
  Threads = {t1, t2, t3}
  MaxEntries = 4
  MaxGeneration = 3
  None = None
CHECK_DEADLOCK FALSE
INVARIANTS VInv
PROPERTIES ImplementsCondVar SignalledReturn
