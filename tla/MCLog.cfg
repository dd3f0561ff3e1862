SPECIFICATION Spec
CONSTANTS
  p1 = p1
  p2 = p2
  b1 = b1
  b2 = b2
  b3 = b3
  NoBuf = NoBuf
  Proc <- Procs
  Block <- Blocks
  Val = {0, 1}
  InitDisk <- Zeros
  LOGSIZE = 4
  MAXOPBLOCKS = 2
  NLOG = 4
  OpBlocks = 1
INVARIANTS Durable 
PROPERTY ImplementsTransactions
