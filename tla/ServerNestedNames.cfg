CONSTANTS
  p1 = p1
  p2 = p2
  Peers = {p1, p2}
  Segments <- MCSegments
  Nodes <- MCNestedNodes
  Addresses = {"addrs1"}
  Commands <- MCDiscovery
  Lifetimes = {1}
  TicksPerSecond = 1
  MaxNow = 1
  MaxRequests = 2
  StoreFaults = FALSE
SPECIFICATION ServerSpec
PROPERTY
  DiscoverStaysInNamespace
