SPECIFICATION FairSpec
CONSTANTS
  a = a
  b = b
  w1 = w1
  w2 = w2
  Station <- OneStation
  Worker <- OneWorker
  Limit = 2
  CacheModes <- Never
  FirstTick = FALSE
  Runs = 1
  MaxTicks = 2
  Faults = 0
PROPERTY ShutsDown
CHECK_DEADLOCK FALSE
