CONSTANTS
  p1 = p1
  p2 = p2
  Peers = {p1, p2}
  Segments <- MCSegments
  Nodes <- MCManyNodes
  Addresses = {"addrs1"}
  Commands <- MCReads
  Lifetimes = {1}
  TicksPerSecond = 1
  MaxNow = 1
  MaxRequests = 3
  StoreFaults = FALSE
SPECIFICATION ServerSpec
PROPERTY
  DiscoverIsExact
