SPECIFICATION Spec
CONSTANTS
  Pid = {1, 2}
  InitPid = 1
  WatchPIDs = {}
  MaxForks = 1
  None = None
  IP <- MCIP
  LocalIPs <- MCLocalIPs
  Tuple <- MCIn
  Options <- MCOutbound
  QueueCap = 1
  MaxFlows = 1
  MaxAncestors = 1
  MaxSockets = 1
INVARIANT OutboundOnly
CHECK_DEADLOCK FALSE
