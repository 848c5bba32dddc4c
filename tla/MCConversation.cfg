SPECIFICATION Spec
CONSTANTS
  RollingUserTurns = 2
  KeepRecent = 1
  MaxTurns = 3
  MaxCalls = 2
  MaxStamp = 11
CHECK_DEADLOCK FALSE
INVARIANTS
  BatchesAreWhole
  RequestStays
  OneShotImages
