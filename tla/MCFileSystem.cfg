SPECIFICATION FileSpec
CONSTANTS
  None = None
  Proc = {1, 2, 3}
  Lock = {1, 2}
  NoPid = 0
INVARIANTS SleeplockSafe TreeConsistent  FilesExact 
PROPERTIES ImplementsLock  ImplementsFiles
CHECK_DEADLOCK FALSE
