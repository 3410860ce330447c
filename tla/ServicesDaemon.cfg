SPECIFICATION Spec
CONSTANTS
  Name <- Some
  Pid <- Pids
  Crashes = 0
  Runs = 0
  Daemons = TRUE
INVARIANT NothingRunsAfterTeardown
CHECK_DEADLOCK FALSE
