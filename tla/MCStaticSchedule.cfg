\* Two schedules and three faults of any kind.
CONSTANTS
  FeedStart <- MCFeedStart
  FeedEnd <- MCFeedEnd
  Published <- MCPublished
  Empty <- MCEmpty
  ZipOrder <- MCZipOrder
  Dates = {1, 2}
  MaxObjects = 2
  MaxFaults = 3
SPECIFICATION FairSpec
INVARIANTS TypeOK FeedInfoIsLast  AnnouncedOnce
PROPERTIES UsedVersionStays PublishedIsLoaded
\* The MBTA may stop to publish; the manager never stops asking.
CHECK_DEADLOCK FALSE
