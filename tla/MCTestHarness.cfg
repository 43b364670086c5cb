SPECIFICATION FairSpec
CONSTANTS
  TestNum = 4
  MaxWorkers = 2
  ArgLists <- MCArgLists
  Missing = {3}
  TooNew = {}
  OnlineOnly = {2}
  Main = Main
INVARIANTS NothingLeftBehind ResultsFileIsRight ExitCodeIsRight SummaryIsRight SelectionIsRight HInv
PROPERTIES EachTestOnce HarnessReturns
