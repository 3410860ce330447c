SPECIFICATION FairSpec
CONSTANTS
  Record <- Measurements
  PageSize = 1
  MAX_RETRIES = 2
  Limit <- Anything
INVARIANT TypeOK
INVARIANT CompletePassIsExact
INVARIANT NothingSkipped
INVARIANT GrowingPassIsBounded
PROPERTY ExactInTheEnd
