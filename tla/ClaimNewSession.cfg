SPECIFICATION ProcessSpec
CONSTANTS
  None = None
  Starts = {a1, a2}
  TokenStarts = {a1, a2}
  ActionStarts = {}
  Stops = {}
  Deletes = {}
  Lookers = {}
CHECK_DEADLOCK FALSE
INVARIANTS EveryNewSessionKept
