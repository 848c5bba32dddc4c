SPECIFICATION StreamSpec
CONSTANTS
  RingSize = 2
  MaxEvents = 4
  MaxGenerations = 2
CHECK_DEADLOCK FALSE
INVARIANTS
  OnlyOverrunsAreSilent
PROPERTIES
  InOrderOnce
