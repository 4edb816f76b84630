CONSTANTS
  t1 = t1
  t2 = t2
  Thread <- MCThread
  LOG_BUFFER_LEN = 4
  Levels = {0, 4}
  Prefixes <- MCPrefixes
  Messages <- MCMessages
  MaxLines = 2
  MaxRuns = 2
SYMMETRY MCSymmetry
SPECIFICATION Spec
CHECK_DEADLOCK FALSE
INVARIANTS
  LineEnds
  MutexSound
  FileWhole
  OverOnce
