CONSTANTS
  Threads = {1, 2}
  NoThread = NoThread
  DpcThread = DpcThread
  IsrThread = IsrThread
  Priorities <- EqualOrNot
  Lines = {1}
  Dpcs = {d}
SPECIFICATION FairSpec
INVARIANT IrqlExact
PROPERTIES InterruptedResumes InterruptWorkDone TurnComes
