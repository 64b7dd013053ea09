\* What the fast paths' comment says, with interrupts at every block start.
CONSTANTS
  Threads = {1, 2, 3}
  NoThread = NoThread
  MaxDepth = 1
SPECIFICATION Spec
INVARIANT MutualExclusion
