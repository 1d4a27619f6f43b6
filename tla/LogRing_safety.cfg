\* One ring, gone around twice, two threads and a failing write.
SPECIFICATION Spec
CONSTANTS
  Threads = {t1, t2}
  Levels = {4}
  N = 4
  MaxLen = 3
  PipeCap = 2
  ReadMax = 1
  MaxBytes = 8
  MaxFaults = 1
  NoThread = NoThread
INVARIANTS
  TypeOK
  NothingLostOrRepeated
  LeavesRingWhy
  LinesEnd
CHECK_DEADLOCK FALSE
