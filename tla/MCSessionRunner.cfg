SPECIFICATION Spec
CONSTANTS
  MaxTurns = 2
  Verbs = {v1}
  Mutating = {v1}
  Edits = {e1}
  Stoppers = {s1}
CHECK_DEADLOCK FALSE
INVARIANTS
  OneTurn
  FlagTracksTurn
  VerbAccounting
PROPERTIES
  TurnSlotFrees
  CallsAreAnswered
