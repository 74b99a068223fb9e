SPECIFICATION FairSpec
CONSTANTS
  Twist <- MCTwist
  Timeout = 1
  MaxAhead = 1
  MaxFailures = 1
INVARIANTS TypeOK DisabledMeansStill CacheIsTrue OdometrySkipsGaps
PROPERTIES StaleStops
