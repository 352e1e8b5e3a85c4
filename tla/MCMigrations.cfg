\* All environments from all revisions; two crashes or lost uploads.
CONSTANTS
  Paths = {"old", "april"}
  Recent = {"april"}
  Rerun = {"april"}
  MaxFaults = 2
SPECIFICATION FairSpec
INVARIANTS TypeOK HeadIsCurrent ProcessedHasEvents
PROPERTIES LegacyPathsAreKept UpgradeEnds
\* A transaction may wait for ever for a table that only it can see.
CHECK_DEADLOCK FALSE
