SPECIFICATION Spec
CONSTANTS
  Files = {"a", "b"}
  Dirs = {"D", "E"}
  DirOf <- MCDirOf
  OldDirs = {"D"}
  Broken <- MCBroken
  Batches = {"b1", "b2"}
  MaxVersion = 2
  MaxEdits = 2
  MaxLost = 1
  MaxFaults = 1
INVARIANTS
  TypeOK
  OneLateCommit
PROPERTIES
  NeverOlder
  Converges
  StopTerminates
