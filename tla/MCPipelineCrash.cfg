\* The container may be killed once.
CONSTANTS
  Files = {1}
  Days = {1}
  DayOf <- MCDayOf
  Rowless = {}
  Corrupt = {}
  YieldRows = 1
  MaxTables = 1
  DaysToKeep = 1
  NoDay = NoDay
  Faults = {"crash"}
  MaxFaults = 1
  PathCount = 12
  Stop = Stop
  MaxTrouble = 1
SPECIFICATION Spec
INVARIANT ArchivedIsRecorded
CHECK_DEADLOCK FALSE
