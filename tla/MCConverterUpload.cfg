\* The upload of a day's object may fail.
CONSTANTS
  Files = {1, 2, 3}
  Days = {1, 2}
  DayOf <- MCDayOf
  Rowless = {}
  Corrupt = {}
  YieldRows = 1
  MaxTables = 2
  DaysToKeep = 1
  NoDay = NoDay
  Faults = {"upload"}
  MaxFaults = 1
SPECIFICATION Spec
INVARIANT ArchivedPublished
CHECK_DEADLOCK FALSE
