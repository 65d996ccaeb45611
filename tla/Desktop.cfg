SPECIFICATION DesktopSpec
CONSTANTS
  None = None
  CatalogPackages = {p1}
  DevPackages = {}
  BuiltinSeq <- NoBuiltins
  Releases = {r1, r2}
  ProcessReleases = {r2}
  DevDirs = {}
  Bundles <- NoBundles
  MarkStatuses = {"Preparing", "Ready", "Failed"}
  MaxInst = 1
  CanCrash = FALSE
  Calls = {c1}
  Faults = FALSE
  Clicks = {k1, k2}
  MaxRelease = 2
  Payloads <- SomePayloads
  Scripts = {s1, s2, s3}
  KeepBoxes = 1
  PipeCap = 1
  MaxOutput = 2
  MaxRuns = 3
INVARIANTS
  DesktopTypeOK
  RunsVerified RestartIsWhole
  OutputIsWhole RunsWhatWasSent
PROPERTIES
  EverythingEnds
CHECK_DEADLOCK FALSE
