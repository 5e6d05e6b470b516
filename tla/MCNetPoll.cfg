CONSTANTS
  Pid = {p1, p2}
  WatchPIDs = {}
  Proto = {TCP}
  Conn = {c1, c2}
  MaxFd = 2
  Cap = 2
  None = None
SPECIFICATION Spec
INVARIANTS Attributed OldHidden
PROPERTY Noticed
