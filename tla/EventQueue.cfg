\* Two threads and the event loop as producers; no more nodes than events, so
\* that addresses are recycled; fair threads and a fair event loop.
SPECIFICATION FairSpec
CONSTANTS
  Producers = {p1, p2, EventLoop}
  EventLoop = EventLoop
  Keys = {k1, k2}
  Data = {d1}
  Nodes = {n1, n2, n3}
  Garbage = Garbage
  None = None
  MaxEvents = 3
INVARIANTS
  TypeOK
  ReadsInitialised
  NodesAccounted
  NoLostTrigger
PROPERTIES
  FifoSpec
  Delivered
CHECK_DEADLOCK FALSE
