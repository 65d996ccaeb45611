SPECIFICATION AllLedgersSpec
CONSTANTS
  None = None
  b1 = b1
  x1 = x1
  x2 = x2
  CatalogPackages = {p1}
  DevPackages = {}
  BuiltinSeq <- NoBuiltins
  Releases = {r1, r2, r3}
  ProcessReleases = {r3}
  DevDirs = {}
  Bundles <- NoBundles
  MarkStatuses = {"Preparing", "Ready", "Failed"}
  MaxInst = 2
  CanCrash = TRUE
  Drafts = {d1}
  Publishers = {u1, u2}
  MaxText = 3
  MaxVersion = 2
  n1 = n1
  n2 = n2
  n3 = n3
  pk = pk
  Dirs = {n1, n2, n3}
  Drafty = {n3}
  PluginIds = {pk}
  IdOf <- OnePlugin
  Newer = newer
  DataFiles = {"kv", "log"}
  FilesOf <- SomeData
  MaxStarts = 2
  MaxFiles = 6
  MaxChanges = 1
  Listable = {a1, a2, a3}
  RecentMax = 2
  MaxInstalls = 2
  MaxClicks = 1
  MaxPageLoads = 2
INVARIANTS
  AllLedgersTypeOK
  ReferencedReleasesOnDisk
  SlotsDistinct
  DraftsHaveTrees
  RecordedWasPublished
  NothingLost
  WholeOrNothing
  PackedIsInstallable
  RepackIsSame
  ListedIsInstalled
PROPERTIES
  FallbackKept
  VersionsRise
  KeptUnlessTaken
CHECK_DEADLOCK FALSE
