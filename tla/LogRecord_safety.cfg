\* A buffer that overflows at every piece; more pairs than two chunks hold.
SPECIFICATION Spec
CONSTANTS
  Size = 5
  ChunkSize = 2
  Pairs = {x, y}
  Lens = {0, 1, 3, 6}
  MaxPairs = 5
INVARIANTS
  TypeOK
  RoomAccounted
  RecordEndsLine
  PairsInOrder
  AllFreed
