CONSTANTS
  Cap = 4
  Knuth = 1
  Pid <- MCPid
  Val = {a, b}
  Null = Null
SPECIFICATION Spec
INVARIANTS Reachable UniquePid PutBackNeverFull
PROPERTIES CallsReturn ImplementsMap
