CONSTANTS
  DRAWS = 3
  STORES = 1
  COH_UNREAD = 1
SPECIFICATION Spec
INVARIANT GuardedWhileNewer
PROPERTY ReadersFindCounted
