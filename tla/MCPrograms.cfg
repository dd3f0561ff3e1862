SPECIFICATION ProgramsSpec
CONSTANTS
  Chars = {"a", " ", "<", ">", "|", "&", ";", "(", ")"}
  MaxLine = 4
  MAXARGS = 2
  NPROC = 7
  NOFILE = 5
  MayFail = TRUE
  Sessions <- MCSessions
INVARIANTS  HeapExact ParsesGrammar RunsAsParsed
PROPERTIES ImplementsImages KernelEntry
CHECK_DEADLOCK FALSE
