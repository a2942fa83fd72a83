SPECIFICATION MCSpec
CONSTANTS
  Sessions = {s1, s2}
  Loads = {1, 2}
  Ops = {o1, o2}
  MaxChanges = 2
  MaxFailures = 1
  None = None
  Handlers = {h1, h2}
  Listed = {s1, s2}
  Latencies = {0, 1, 999, 1000, 2999, 3000, 3001, 7999, 8000, 8001}
  MaxRecords = 3
  BucketSeconds = 2
  BucketCount = 2
  MaxClock = 5
  MaxAccesses = 4
INVARIANTS TypeOK LoadingIsShown SelectionListed LogIsLastAccesses TrendShowsRecent OverviewIsSum HealthTypeOK StalledIsIdle
PROPERTIES NeverGoesBack ChangesAreShown BetterNeverLowers AgeingNeverRaises
CHECK_DEADLOCK FALSE
