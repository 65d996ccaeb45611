SPECIFICATION AllBridgeSpec
CONSTANTS
  None = None
  Nothing = None
  p1 = p1
  p2 = p2
  demo = demo
  other = other
  t1 = t1
  t2 = t2
  Calls = {}
  Actions = {demo, other}
  Plugins = {}
  Builtins = {}
  Exports <- NoExports
  MaxReloads = 0
  Tokens = {t1}
  Grants <- OneGrant
  Conns = {k1}
  Requests <- ChatRequest
  Page <- OnePage
  g1 = g1
  g2 = g2
  NoPlugin = none
  ClientPlugins = {g1, g2}
  DevPlugins = {g2}
  Declares <- OneMayWrite
  MaxMounts = 0
  MaxSaves = 0
  MaxPosts = 0
INVARIANTS RepetitionNeverBillsTwice
CHECK_DEADLOCK FALSE
