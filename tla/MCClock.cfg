CONSTANTS
  once = once
  periodic = periodic
  waiter = waiter
  Timers = {once, periodic}
  Period <- TwoTimers
  Waiters = {waiter}
  MaxDelay = 4
  Quantum = 3
  Tick = TRUE
  Lag = 1
  MaxLate = 4
SPECIFICATION Spec
INVARIANTS OnTime WaitDueExact
