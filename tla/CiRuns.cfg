SPECIFICATION Spec
CONSTANTS
  ingestion = ingestion
  query = query
  Service <- Services
  Findings <- SomeFindings
  Outcomes <- SomeOutcomes
  Books <- SomeBooks
  Thresholds <- SomeThresholds
  Runs = 2
  Faults = 1
SYMMETRY ServiceSymmetry
INVARIANT TypeOK
INVARIANT ReportsAgree
INVARIANT ThresholdOrdersVerdicts
INVARIANT LintBoundsServices
INVARIANT GradeNeedsCore
CHECK_DEADLOCK FALSE
