SPECIFICATION Spec
CONSTANTS
  Names = {"a", "b"}
  MaxLen = 4
  MaxDepth = 8
  MaxOthers = 0
  MaxFaults = 0
INVARIANTS
  Climbs
CHECK_DEADLOCK FALSE
