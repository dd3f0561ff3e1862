SPECIFICATION LiveSpec
CONSTANTS
  Chars = {"a"}
  MaxLine = 0
  MAXARGS = 3
  NPROC = 6
  NOFILE = 5
  MayFail = FALSE
  Sessions <- MCSessions
PROPERTIES  ProgramsGoOn
CHECK_DEADLOCK FALSE
