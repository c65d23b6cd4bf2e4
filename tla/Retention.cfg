SPECIFICATION LiveSpec
CONSTANTS
  HourLen = 2
  FillLatency = 0
  Grace = 1
  Retain = 5
  Lag = 1
  Runs = {r1, r2}
  MaxClock = 7
  MaxRows = 2
  MaxDeaths = 1
INVARIANTS ReadersExact MarkExact
PROPERTY ExpiredGoes
CHECK_DEADLOCK FALSE
