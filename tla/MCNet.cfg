SPECIFICATION Spec
CONSTANTS
  Pid = {1, 2, 3}
  InitPid = 1
  WatchPIDs = {2}
  MaxForks = 1
  None = None
  IP <- MCIP
  LocalIPs <- MCLocalIPs
  Tuple <- MCLoop
  Options <- MCOptions
  QueueCap = 2
  MaxFlows = 2
  MaxAncestors = 1
  MaxSockets = 1
INVARIANTS ConnCurrent LinePairs
PROPERTIES WatchExact Attributed ClosedForgotten
CHECK_DEADLOCK FALSE
