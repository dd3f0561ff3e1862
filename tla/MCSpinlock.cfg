SPECIFICATION LiveSpec
CONSTANTS
  c1 = c1
  c2 = c2
  NoCPU = NoCPU
  NoLock = 0
  CPU <- TwoCPUs
  Lock <- TwoLocks
INVARIANT SpinlockSafe
PROPERTIES ImplementsLock NoDeadlockSpin
