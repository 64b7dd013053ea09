\* Three threads, interrupts at every block start; four at the other lock.
CONSTANTS
  Threads = {1, 2, 3}
  RwThreads = {1, 2, 3, 4}
  NoThread = NoThread
  MaxDepth = 2
SPECIFICATION LocksSpec
INVARIANTS FieldsExact CountsExact
PROPERTIES LockUntilLapse WaitersProgress ImplementsSharedLock ReadersBehindWriters WaitersGetIn
