SPECIFICATION FairSpec
CONSTANTS
  Paths <- MCPaths
  Rank <- MCRank
  Dirs <- MCDirs
  DirOf <- MCDirOf
  Contents <- MCContents
  Absent = Absent
  Names = {"f", "g", "h"}
  Packages = {"P"}
  None = None
  Facts <- MCFacts
  Semantic = TRUE
  Starts <- IncStarts
  Edits <- IncEdits
  Quiet = TRUE
INVARIANTS
  IndexMatchesReference
  DirtyRecordsTornFiles
PROPERTIES
  Converges
