SPECIFICATION Spec
CONSTANTS
  HourLen = 2
  MaxStale = 1
  BaselineAge = 1
  Wanted = 2
  MaxClock = 6
  MaxSeq = 3
  MaxWire = 2
  MaxCrash = 1
INVARIANTS HoursAscend GapsFlagged OwnTicksOnly SeedsWhole
CHECK_DEADLOCK FALSE
