SPECIFICATION LedgerSpec
CONSTANTS
  None = None
  b1 = b1
  x1 = x1
  x2 = x2
  CatalogPackages = {}
  DevPackages = {}
  BuiltinSeq <- OneBuiltin
  Releases = {x1, x2}
  ProcessReleases = {}
  DevDirs = {}
  Bundles <- OneBundles
  MarkStatuses = {}
  MaxInst = 2
  CanCrash = TRUE
PROPERTIES
  BundledReleaseTakesEffect
