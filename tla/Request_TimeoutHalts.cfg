SPECIFICATION Spec
CONSTANTS
  Requests = {r1}
  Cmds = {1, 2}
  MaxPost = 1
  Conns = {c1, c2}
  None = None
INVARIANTS
  TimeoutHalts
CHECK_DEADLOCK FALSE
