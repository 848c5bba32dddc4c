SPECIFICATION Spec
CONSTANTS
  r1 = r1
  k1 = k1
  k2 = k2
  Stores = {s1, s2, s3}
  Runs <- MCRuns
  Keys <- MCKeys
  Nobody = Nobody
  Estimate <- MCEstimate
  Actuals = {2}
  Cap = 2
CHECK_DEADLOCK FALSE
INVARIANTS
  OneExecution
  FailedMeansUnsent
PROPERTIES
  OrphansAreClosed
  UsesLedgerAsSpecified
