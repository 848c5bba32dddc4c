SPECIFICATION Spec
CONSTANTS
  Sessions = {s1}
  Creators = {c1, c2, c3}
  Closers = {k1}
  Sweeper = sweeper
  MaxSessions = 2
  None = None
CHECK_DEADLOCK FALSE
INVARIANTS
  LiveSessionHasItsStream
  WithinLimit
  TurnEventsStayInTheirSession
PROPERTIES
  StreamsAreNotStranded
