CONSTANTS
  e1 = e1
  e2 = e2
  vp1 = vp1
  vp2 = vp2
  tu1 = tu1
  Events = {e1, e2}
  RecordCount <- MCRecordCount
  Moves = {1, 2}
  Stops = {3, 4, 5}
  EventOf <- MCEventOf
  TimeOf <- MCTimeOf
  PathOf <- MCPathOf
  Paths = {vp1, vp2, tu1}
  DayOf <- MCDayOf
  PathCount = 1
  NoTime = 99
  MaxTrouble = 0
SPECIFICATION Spec
INVARIANT StopIsEarliest
\* The feed is finite here.
CHECK_DEADLOCK FALSE
