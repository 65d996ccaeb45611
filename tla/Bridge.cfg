SPECIFICATION AllBridgeSpec
CONSTANTS
  None = None
  Nothing = None
  p1 = p1
  p2 = p2
  demo = demo
  other = other
  t1 = t1
  t2 = t2
  Calls = {c1, c2}
  Actions = {demo, other}
  Plugins = {p1, p2}
  Builtins = {p1}
  Exports <- TwoExports
  MaxReloads = 1
  Tokens = {t1, t2}
  Grants <- TwoGrants
  Conns = {k1}
  Requests <- SomeRequests
  Page <- OnePage
  g1 = g1
  g2 = g2
  NoPlugin = none
  ClientPlugins = {g1, g2}
  DevPlugins = {g2}
  Declares <- OneMayWrite
  MaxMounts = 2
  MaxSaves = 1
  MaxPosts = 2
INVARIANTS
  AllBridgeTypeOK NoOrphanRequest NoSilentHang
  OneServer BilledOnce
  StoresAreApart AnswersAreOwn
PROPERTIES NobodyWaitsForever
CHECK_DEADLOCK FALSE
