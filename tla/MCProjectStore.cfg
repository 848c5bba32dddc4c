SPECIFICATION Spec
CONSTANTS
  Writers = {w1, w2, w3}
  Nobody = Nobody
  Missing = Missing
  MaxPatches = 5
  MaxBatch = 2
  MaxSteps = 2
  MaxCrashes = 2
SYMMETRY WriterSymmetry
CHECK_DEADLOCK FALSE
INVARIANTS
  LogMatchesState
  AckedIsKept
  LogBehindState
PROPERTY ImplementsProjectLog
