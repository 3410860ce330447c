SPECIFICATION FairSpec
CONSTANTS
  Name <- Some
  Pid <- Pids
  Crashes = 1
  Runs = 1
  Daemons = TRUE
INVARIANT TypeOK
INVARIANT UnmanagedIsDoomed
INVARIANT ManagedIsUnreaped
PROPERTY CascadeEndsListed
PROPERTY ScenarioEnds
PROPERTY TeardownCleansUp
CHECK_DEADLOCK FALSE
