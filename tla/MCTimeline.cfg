CONSTANTS
  Waiters = {"guest", "render"}
  VALUES = 2
  LANDINGS = 1
SPECIFICATION TimelineSpec
INVARIANTS TimelineTypeOK
PROPERTIES TimelineKeepsPromise WaitsEnd
CHECK_DEADLOCK FALSE
