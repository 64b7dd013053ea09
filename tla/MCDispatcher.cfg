CONSTANTS
  Threads = {1, 2, 3}
  NoThread = NoThread
  NC_MAX_THREADS = 4
  event = event
  semaphore = semaphore
  mutant = mutant
  timer = timer
  Objects = {event, semaphore, mutant, timer}
  Kind <- KindOf
  Limit <- LimitOf
  Waits <- TitleWaits
  MaxDepth = 2
SPECIFICATION Spec
INVARIANTS TypeOK NoMissedWait
PROPERTIES TimeoutLosesToSignal TakesWhatItReports MutantsAreLocks
