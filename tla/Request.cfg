\* Two requests over every arm of the switch of http_handler; the serial
\* service they implement; who is answered, under a fair server loop.
SPECIFICATION FairSpec
CONSTANTS
  Requests = {r1, r2}
  Cmds = {1, 2, 3, 6, 12, 99}
  MaxPost = 1
  Conns = {c1, c2}
  None = None
INVARIANTS
  TypeOK
  PostDataOwned
  ConnectionsAccounted
  BasesAccounted
  RepliesExplained
PROPERTIES
  DoneIsFinal
  ServiceSpec
  AnsweredByTimer
  AnsweredIfRedirectsEnd
CHECK_DEADLOCK FALSE
