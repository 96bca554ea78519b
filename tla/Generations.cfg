SPECIFICATION Spec
CONSTANTS
  Procs = {"p", "q"}
  Nodes = {"n1", "n2"}
  Texts = {"t", "u"}
  NoRow = "no_row"
  NoSpan = "no_span"
  Unreadable = "unreadable"
  Nobody = "nobody"
  MaxGraph = 2
  GraphNodes <- MCGraphNodes
  MaxBuilds = 2
  MaxEdits = 1
  MaxFaults = 1
CHECK_DEADLOCK FALSE
INVARIANTS
  TypeOK
  ServesWhole
PROPERTIES
  Publishes
  BuildTerminates
