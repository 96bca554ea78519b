SPECIFICATION Spec
CONSTANTS
  Procs = {"p", "q"}
  Clients = {"a", "b"}
  Checkouts = {"r", "s"}
  Names = {"n", "ns"}
  None = None
  Binaries = {1, 2}
  Bin <- MCBin
  Written <- MCWritten
  Rank <- MCRank
  DefaultNames <- MCDefaults
  Requests <- MCRequests
  Synced = {"r"}
  MaxSetups = 2
  MaxEdits = 1
  MaxFaults = 2
INVARIANTS
  TypeOK
  OwnedOrAnnounced
  NamesStable
  Consented
PROPERTIES
  UserWorkKept
  AutoRegisters
CHECK_DEADLOCK FALSE
