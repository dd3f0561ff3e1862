SPECIFICATION MixLiveSpec
CONSTANTS
  CPU = {c0}
  NPROC = 2
  NoCPU = NoCPU
  NoProc = NoProc
  BIG = 2
  IntMax = 7
  TicketArg = {1, 2}
PROPERTY YieldReturns
