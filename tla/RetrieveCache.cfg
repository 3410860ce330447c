SPECIFICATION FairSpec
CONSTANTS
  a = a
  b = b
  w1 = w1
  w2 = w2
  Station <- OneStation
  Worker <- OneWorker
  Limit = 2
  CacheModes <- Always
  FirstTick = FALSE
  Runs = 2
  MaxTicks = 2
  Faults = 0
PROPERTY CachedListIsRead
CHECK_DEADLOCK FALSE
