SPECIFICATION Spec
CONSTANTS
  Threads = {t1}
  Levels = {4}
  N = 3
  MaxLen = 2
  PipeCap = 2
  ReadMax = 1
  MaxBytes = 4
  MaxFaults = 0
  NoThread = NoThread
INVARIANTS
  FlushedFromRing
CHECK_DEADLOCK FALSE
