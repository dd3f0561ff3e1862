SPECIFICATION LiveSpec
CONSTANTS
  c0 = c0
  c1 = c1
  CPU <- OneCPU
  CPU0 = c0
  NPROC = 3
  NoCPU = NoCPU
  NoProc = NoProc
  NoChan = NoChan
  TICKS = TICKS
  Syscalls = {"fork", "exit", "wait", "kill", "sleep"}
  KillArg = {2, 3}
  SleepArg = {1}
  MaxPid = 3
  OutOfMemory = FALSE
  Timer = TRUE
PROPERTIES SleepReturns ProcessesEnd
