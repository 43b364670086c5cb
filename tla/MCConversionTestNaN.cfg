SPECIFICATION Spec
CONSTANTS
  gMaxVectorSize = 2
  ThreadCounts = {2}
  BlockCount = 2
  MinChunk = 1
  Options <- MCOptions
  Kinds <- DoubleKinds
  MaxTests = 1
  MaxBlocks = 1
  MaxWrong = 1
  Faults = {}
INVARIANT NothingIsMissed
