SPECIFICATION Spec
CONSTANTS
  Paths <- MCPaths
  Rank <- MCRank
  Dirs <- MCDirs
  DirOf <- MCDirOf
  Contents <- MCContents
  Absent = Absent
  Names = {"f", "g", "h"}
  Packages = {"P"}
  None = None
  Facts <- MCFacts
  Semantic = TRUE
  Starts <- FullStarts
  Edits <- FullEdits
  Quiet = FALSE
INVARIANTS
  TypeOK
  FullPassConverges
  NoDanglingEdges
  SemanticReady
