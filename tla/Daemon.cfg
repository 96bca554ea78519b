SPECIFICATION Spec
CONSTANTS
  Daemons = {"d1", "d2"}
  Conns = {"c", "e"}
  Workspaces = {"w"}
  None = "none"
  MaxServices = 4
CHECK_DEADLOCK FALSE
INVARIANTS
  WatchersOwned
PROPERTIES
  StopExits
  AloneServes
