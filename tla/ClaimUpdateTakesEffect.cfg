SPECIFICATION UpdateSpec
CONSTANTS
  Clicks = {c1}
  MaxRelease = 2
  Payloads <- BuiltPayload
PROPERTIES UpdateTakesEffect
CHECK_DEADLOCK FALSE
