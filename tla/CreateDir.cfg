\* Every path of up to five characters, with any part of the way in place.
SPECIFICATION FairSpec
CONSTANTS
  Names = {"a", "b"}
  MaxLen = 5
  MaxDepth = 8
  MaxOthers = 1
  MaxFaults = 2
INVARIANTS
  TypeOK
  Created
  FailsWhy
  FaultsTold
  MadeDownwards
  ConfFound
PROPERTY
  CreateDirReturns
CHECK_DEADLOCK FALSE
