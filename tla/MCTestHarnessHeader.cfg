SPECIFICATION Spec
CONSTANTS
  TestNum = 4
  MaxWorkers = 2
  ArgLists <- MCArgLists
  Missing = {3}
  TooNew = {}
  OnlineOnly = {2}
  Main = Main
INVARIANT HeaderPromise
