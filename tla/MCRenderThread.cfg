CONSTANTS
  VALUES = 2
  FRAMES = 1
  PEND_MAX = 2
  CAPACITY = 2
SPECIFICATION Spec
INVARIANT InUseKept
PROPERTY WaitsEnd
