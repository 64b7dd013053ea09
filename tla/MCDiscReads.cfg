CONSTANTS
  Threads <- MCThreads
  NoThread = 0
  Requests = {"overlapped", "sync"}
  Kapcs = {"kapc"}
  NC_MAX_APC_NEST = 1
  MaxThreadId = 3
  Events = {"file"}
  EventOf <- MCEventOf
  HasApc = {"overlapped"}
  Sync = {"sync"}
  DISC_JOBS = 2
  ThreadOf <- MCThreadOf
SPECIFICATION Spec
INVARIANTS TypeOK ContextsExact ApcsKept
PROPERTIES KeepsPromise ReadsEnd
CHECK_DEADLOCK FALSE
