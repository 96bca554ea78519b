SPECIFICATION Spec
CONSTANTS
  Files = {"f", "g"}
  Contents = {"o", "n", "x"}
  Broken = {"x"}
  MaxSagas = 2
  MaxWrites = 1
  MaxFaults = 2
CHECK_DEADLOCK FALSE
INVARIANTS
  RecordsUsable
  Repairable
PROPERTIES
  Atomic
