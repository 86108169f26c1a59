CONSTANTS
  p1 = p1
  p2 = p2
  Peers = {p1, p2}
  Segments <- MCSegments
  Nodes <- MCOneNode
  Addresses = {"addrs1"}
  Commands <- MCWrites
  Lifetimes = {1}
  TicksPerSecond = 1
  MaxNow = 3
  MaxRequests = 3
  StoreFaults = FALSE
SPECIFICATION ServerSpec
PROPERTY
  ExpiredIsGone
