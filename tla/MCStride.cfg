SPECIFICATION BothSpec
CONSTANTS
  c0 = c0
  c1 = c1
  CPU <- TwoCPUs
  NPROC = 3
  NoCPU = NoCPU
  NoProc = NoProc
  BIG = 2
  IntMax = 3
  TicketArg = {1}
INVARIANTS ChosenIsMinimal MixLagBound
CHECK_DEADLOCK FALSE
