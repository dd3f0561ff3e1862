SPECIFICATION Spec
CONSTANTS
  c0 = c0
  c1 = c1
  CPU <- TwoCPUs
  CPU0 = c0
  NPROC = 2
  NoCPU = NoCPU
  NoProc = NoProc
  NoChan = NoChan
  TICKS = TICKS
  Syscalls = {"fork", "exit", "wait", "kill", "sleep"}
  KillArg = {1, 2, 3}
  SleepArg = {0, 2}
  MaxPid = 3
  OutOfMemory = TRUE
  Timer = TRUE
INVARIANTS SchedSafe SleepWakeup
