SPECIFICATION LedgerSpec
CONSTANTS
  None = None
  b1 = b1
  x1 = x1
  x2 = x2
  CatalogPackages = {b1}
  DevPackages = {b1, q}
  BuiltinSeq <- OneBuiltin
  Releases = {x1, x2}
  ProcessReleases = {}
  DevDirs = {d1}
  Bundles <- OneBundles
  MarkStatuses = {}
  MaxInst = 3
  CanCrash = TRUE
INVARIANTS
  OneInstallationPerPackage
PROPERTIES
  BootAccountsForBuiltins
  ImplementsReleaseSlots
