SPECIFICATION Spec
CONSTANTS
  Assets = {a1, a2}
  Source = src
  Jobs = {j1}
  None = None
  Wanted = 2
  PlanGateLimit = 1
  DoomThreshold = 2
  AdjacentPacks = 1
  MaxCalls = 1
  MaxFailures = 1
CHECK_DEADLOCK FALSE
INVARIANTS
  CompleteIsTrue
PROPERTIES
  TurnsEnd
