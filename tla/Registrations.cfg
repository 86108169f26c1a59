CONSTANTS
  p1 = p1
  p2 = p2
  Peers = {p1, p2}
  Segments <- MCSegments
  Nodes <- MCNodes
  Addresses = {"addrs1"}
  Lifetimes = {1, 3}
  TicksPerSecond = 2
  MaxNow = 6
SPECIFICATION StoreSpec
INVARIANTS
  StoreTypeOK
  UnexpiredIsIndexed
  LeftoversAreOlder
