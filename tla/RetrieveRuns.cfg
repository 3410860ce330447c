SPECIFICATION FairSpec
CONSTANTS
  a = a
  b = b
  w1 = w1
  w2 = w2
  Station <- TwoStations
  Worker <- TwoWorkers
  Limit = 2
  CacheModes <- Either
  FirstTick = FALSE
  Runs = 2
  MaxTicks = 2
  Faults = 1
INVARIANT TypeOK
INVARIANT StationsAccounted
INVARIANT RateLimited
PROPERTY CompleteCopyStays
PROPERTY ReturnsOrSpins
CHECK_DEADLOCK FALSE
