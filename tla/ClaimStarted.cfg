SPECIFICATION HistorySpec
CONSTANTS
  None = None
  CatalogPackages = {p1}
  DevPackages = {}
  BuiltinSeq <- NoBuiltins
  Releases = {r1, r2, r3}
  ProcessReleases = {r1, r2}
  DevDirs = {}
  Bundles <- NoBundles
  MarkStatuses = {"Preparing", "Ready", "Failed"}
  MaxInst = 1
  CanCrash = FALSE
  Calls = {c1, c2}
  Faults = FALSE
PROPERTIES
  ActivatedWasStarted
