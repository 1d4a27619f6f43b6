\* Ints of 8 bits, seconds of 10 microseconds: 12 seconds fit, 13 do not, and
\* 26 wrap around to 4 microseconds.
SPECIFICATION FairSpec
CONSTANTS
  Levels = {0, 1, 8, 16}
  ThreadNums = {0, 3}
  Timeouts = {0, 1, 12, 13, 26}
  THREAD_NUM_DEFAULT = 4
  TIMEOUT_S_DEFAULT = 10
  INT_MAX = 127
  ULONG_MAX = 65535
  Million = 10
  MaxRequests = 2
INVARIANTS
  TypeOK
  InitialisedBeforeUse
  FailureIsTold
  RecordsTell
  ArmedAsConfigured
PROPERTY
  Settles
CHECK_DEADLOCK FALSE
