SPECIFICATION FairSpec
CONSTANTS
  gMaxVectorSize = 2
  ThreadCounts = {2, 3}
  BlockCount = 2
  MinChunk = 1
  Options <- MCOptions
  Kinds <- MCKinds
  MaxTests = 2
  MaxBlocks = 4
  MaxWrong = 2
  Faults = {"program", "events", "write", "flush", "setStatus", "release", "unmap",
            "finish"}
INVARIANTS ConvInv RefsInv DataInv WorkInsideTheWait EventsAreBalanced VerdictIsRight
PROPERTIES DoTestReturns
