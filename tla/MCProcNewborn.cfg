SPECIFICATION Spec
CONSTANTS
  c0 = c0
  c1 = c1
  CPU <- TwoCPUs
  CPU0 = c0
  NPROC = 3
  NoCPU = NoCPU
  NoProc = NoProc
  NoChan = NoChan
  TICKS = TICKS
  Syscalls = {"fork", "exit", "wait", "kill"}
  KillArg = {2, 3}
  SleepArg = {}
  MaxPid = 3
  OutOfMemory = TRUE
  Timer = FALSE
PROPERTY NewbornNotKilled
