SPECIFICATION FairSpec
CONSTANTS
  c1 = c1
  c2 = c2
  Clients = {c1, c2}
  Order <- Back
  Restless = {c1}
  MaxLines <- UpToTwo
  StreamMax = 1
  QueueMax = 1
CHECK_DEADLOCK FALSE
INVARIANTS
  TypeOK
  ShownInOrder
  BoardOutlivesChat
PROPERTIES
  ReachesBoard
  BroadcastEnds
  ClientEnds
  BoardEnds
