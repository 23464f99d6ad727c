CONSTANTS
  MaxCommits = 4
  MaxDeaths = 3
  Directories <- MCDirectories
  Digest <- MCDigest
  MaxTransitions = 4
  MaxFaults = 4
  Paths <- MCPaths
  Manifest = "a"
  Rank <- MCRank
  Commits <- MCCommits
  Committed <- MCCommitted
  Versions <- MCVersions
  MaxRuns = 2
  MaxEdits = 2
SPECIFICATION MCSpec
INVARIANTS
  LoadsWhole
  DatabaseIsConsistent
PROPERTIES
  KeepsContract
  DatabaseKeepsContract
  BundleIsSafe
CHECK_DEADLOCK FALSE
