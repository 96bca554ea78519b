SPECIFICATION Spec
CONSTANTS
  Callers = {"c", "d"}
  MaxCalls = 2
  MaxFrames = 3
  StdinRoom = 2
CHECK_DEADLOCK FALSE
INVARIANTS
  TypeOK
  Correlated
  FailsClosed
PROPERTIES
  CallReturns
  NoOrphan
