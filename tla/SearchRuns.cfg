SPECIFICATION FairSpec
CONSTANTS
  Trials <- Everything
  Iterations = 2
  MaxShrink = 10
INVARIANT OutcomeIsTrue
INVARIANT ReportIsMinimal
PROPERTY SearchEnds
CHECK_DEADLOCK FALSE
