\* No restart, crash or error at all: one path is uploaded again while its
\* earlier state is being processed.
CONSTANTS
  vp1 = vp1
  tu1 = tu1
  vp2 = vp2
  Paths = {vp1}
  VpPaths = {vp1}
  TimeOf <- MCTimeOf
  PathCount = 12
  NoPath = NoPath
  Stop = Stop
  MaxUploads = 2
  MaxTrouble = 0
SPECIFICATION Spec
INVARIANT ProcessedIsCurrent
