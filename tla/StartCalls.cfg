SPECIFICATION StartSpec
CONSTANTS
  None = None
  CatalogPackages = {p1}
  DevPackages = {}
  BuiltinSeq <- NoBuiltins
  Releases = {r1, r2}
  ProcessReleases = {r2}
  DevDirs = {}
  Bundles <- NoBundles
  MarkStatuses = {"Preparing", "Ready", "Failed"}
  MaxInst = 1
  CanCrash = TRUE
  Calls = {c1, c2}
  Faults = TRUE
SYMMETRY SameCalls
INVARIANTS
  PreparingHasAStart
