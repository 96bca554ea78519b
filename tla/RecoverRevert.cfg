SPECIFICATION Spec
CONSTANTS
  Paths <- MCPaths
  Rank <- MCRank
  Dirs <- MCDirs
  DirOf <- MCDirOf
  Contents <- MCContents
  Absent = Absent
  Names = {"f", "g", "h"}
  Packages = {"P"}
  None = None
  Facts <- MCFacts
  Semantic = FALSE
  Starts <- RevertStarts
  Edits <- RevertEdits
  Quiet = TRUE
INVARIANTS
  IndexMatchesReference
