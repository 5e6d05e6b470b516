CONSTANTS
  Target = {SSL_read, SSL_ctrl}
  Data = {SSL_read}
  Pid = {1, 2, 3, 4}
  WatchPids = {1, 2, 3}
  Host = {h1, h2}
  MaxSni = 2
  MaxConn = 1
  MaxRuns = 2
  BufCap = 1
  None = None
SPECIFICATION Spec
CHECK_DEADLOCK FALSE
INVARIANTS CleanExit NoStaleProbe SniLatest
SYMMETRY HostSymmetry
