CONSTANTS
  Pid = {1, 2, 3, 4}
  InitPid = 1
  WatchPIDs = {2}
  MaxForks = 2
  None = None
  ShowExit = TRUE
  ListsZombies = FALSE
  MaxGoners = 1
SPECIFICATION Spec
INVARIANTS ExitTruthful  OnlyNew
PROPERTIES ShownOnce DescendantsShown CatchesUp
