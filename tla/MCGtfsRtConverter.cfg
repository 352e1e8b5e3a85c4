\* Every failure but the two that lose rows by themselves: an upload that is
\* silently dropped (run converter_upload) and a listing that fails (run
\* pipeline).
CONSTANTS
  Files = {1, 2, 3, 4}
  Days = {1, 2}
  DayOf <- MCDayOf
  Rowless = {4}
  Corrupt = {}
  YieldRows = 1
  MaxTables = 2
  DaysToKeep = 1
  NoDay = NoDay
  Faults = {"read", "transform", "download", "write", "move", "crash"}
  MaxFaults = 2
SPECIFICATION Spec
INVARIANTS TypeOK ArchivedPublished ArchivedAnnounced
PROPERTIES NoFileVanishes ImplementsLedger
\* Delta may stop to send files: the loop then has nothing to do.
CHECK_DEADLOCK FALSE
