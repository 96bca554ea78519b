SPECIFICATION Spec
CONSTANTS
  Http = {"http"}
  MaxAttempts = 2
  MaxChanges = 1
  MaxAsks = 1
CHECK_DEADLOCK FALSE
INVARIANTS
  ServesCurrent
  NoUseAfterClose
  OneOwner
PROPERTIES
  BindResolves
  ListChases
