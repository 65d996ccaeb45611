SPECIFICATION LedgerSpec
CONSTANTS
  None = None
  b1 = b1
  x1 = x1
  x2 = x2
  CatalogPackages = {p1}
  DevPackages = {p1}
  BuiltinSeq <- NoBuiltins
  Releases = {r1, r2}
  ProcessReleases = {}
  DevDirs = {d1}
  Bundles <- NoBundles
  MarkStatuses = {}
  MaxInst = 2
  CanCrash = FALSE
INVARIANTS
  SourcesKept
