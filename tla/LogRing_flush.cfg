\* Both rings, under the fairness of the scheduler.
SPECIFICATION FairSpec
CONSTANTS
  Threads = {t1}
  Levels = {1, 4}
  N = 3
  MaxLen = 2
  PipeCap = 2
  ReadMax = 1
  MaxBytes = 3
  MaxFaults = 0
  NoThread = NoThread
INVARIANTS
  NoLostWakeup
PROPERTIES
  Flushed
  RotationNoticed
CHECK_DEADLOCK FALSE
