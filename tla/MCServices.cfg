SPECIFICATION ServicesSpec
CONSTANTS
  Proc = {1, 2, 3}
  Opens <- ThreeOpens
  Killable = {3}
  Byte = {0, 1}
  Junk = 1
  PIPESIZE = 2
  Modulus = 4
  MaxN = 2
  Nobody = 0
INVARIANTS   CacheCoherent  TableExact
PROPERTIES ImplementsPipe ZeroMeansEOF ConsoleEdits HolderRunsFirst
CHECK_DEADLOCK FALSE
