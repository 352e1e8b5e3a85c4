\* Every grouping and order of three objects, a new version at any time and
\* one round that fails or is cut short.
CONSTANTS
  Trips <- MCTrips
  Stations <- MCStations
  RouteOf <- MCRouteOf
  DirectionOf <- MCDirectionOf
  FeedStartOf <- MCFeedStartOf
  SequenceOf <- MCSequenceOf
  Objects = {"o1", "o2", "o3"}
  Reports <- MCReports
  GreenRoutes = {"Green-B", "Green-C", "Green-D", "Green-E"}
  Ashmont = {"ash"}
  Braintree = {"bra", "quincy"}
  Schedule <- MCSchedule
  Feed <- MCFeed
  Date = 5
  Null = 99
  MaxTrouble = 1
SPECIFICATION Spec
INVARIANTS TypeOK  MatchIsClosest OneVersionPerDay
\* No more objects.
CHECK_DEADLOCK FALSE
