CONSTANTS
  vp1 = vp1
  tu1 = tu1
  vp2 = vp2
  Paths = {vp1, tu1, vp2}
  VpPaths = {vp1, vp2}
  TimeOf <- MCTimeOf
  PathCount = 1
  NoPath = NoPath
  Stop = Stop
  MaxUploads = 3
  MaxTrouble = 2
SPECIFICATION FairSpec
INVARIANTS TypeOK ShutdownDrainsQueue ProcessedIsCurrentUnlessRaced
PROPERTIES UnprocessedIsHandled
