SPECIFICATION RunnerSpec
CONSTANTS
  None = None
  Starts = {a1, a2}
  TokenStarts = {a1, a2}
  ActionStarts = {a2}
  Stops = {s1}
  Deletes = {t1}
  Lookers = {l1}
  Launches = {p1, p2}
  Settings <- FewSettings
  MaxText = 2
  MaxMoves = 2
INVARIANTS RunnerTypeOK NoProcessEscapes NewSessionKept SkipIsSound 
PROPERTIES SessionEndsWithProcess QuietLaunches PreparationEnds
CHECK_DEADLOCK FALSE
