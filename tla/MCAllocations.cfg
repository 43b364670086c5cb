SPECIFICATION FairSpec
CONSTANTS
  MAX_NUMBER_TO_ALLOCATE = 2
  MaxAllocSize = 32
  GlobalMemSize = 96
  MaxWidth = 1
  MaxHeight = 2
  MaxImageArgs = 1
  PixelSize = 16
  MB = 16
  Configs <- MCConfigs
  Garbage = {0, 1000}
INVARIANTS ObjectsAreSettled KernelSeesTheSum VerdictIsEarned
PROPERTIES DoTestReturns
