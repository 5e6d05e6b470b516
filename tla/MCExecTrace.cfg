CONSTANTS
  Pid = {1, 2, 3, 4}
  InitPid = 1
  WatchPIDs = {2}
  MaxForks = 2
  None = None
  QueueCap = 1
  ShowExit = TRUE
SPECIFICATION Spec
INVARIANTS NoStaleEntry LinePairs DepthExact
PROPERTIES DescendantsTraced EndedForgotten
