SPECIFICATION SpawnSpec
CONSTANTS
  N = 2
  MaxSpend = 10
  Floor = 2
  Requested <- MCRequested
  Estimates = {1, 2}
  Durations = {1, 4}
  Tick = 2
  McpVerbs = {v1}
CHECK_DEADLOCK FALSE
INVARIANTS
  LedgerBalances
  ChildOverrunsByOneCall
  StartedChildrenClose
PROPERTY BatchReturns
