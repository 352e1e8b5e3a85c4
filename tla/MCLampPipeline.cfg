\* The faults that run converter_faults leaves out, crashes, and every
\* trouble of the hand-over.
CONSTANTS
  Files = {1, 2}
  Days = {1}
  DayOf <- MCDayOf
  Rowless = {}
  Corrupt = {}
  YieldRows = 1
  MaxTables = 1
  DaysToKeep = 1
  NoDay = NoDay
  Faults = {"list", "upload", "crash"}
  MaxFaults = 2
  PathCount = 12
  Stop = Stop
  MaxTrouble = 1
SPECIFICATION FairSpec
INVARIANTS TypeOK ArchivedIsRecordedUnlessLost
PROPERTIES  ArchivedIsProcessed
\* Delta may stop to send files, the manager never stops asking.
CHECK_DEADLOCK FALSE
