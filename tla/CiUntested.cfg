SPECIFICATION Spec
CONSTANTS
  ingestion = ingestion
  query = query
  Service <- Services
  Findings <- SomeFindings
  Outcomes <- SomeOutcomes
  Books <- SomeBooks
  Thresholds <- SomeThresholds
  Runs = 2
  Faults = 1
SYMMETRY ServiceSymmetry
CHECK_DEADLOCK FALSE
INVARIANT RealTestsGraded
