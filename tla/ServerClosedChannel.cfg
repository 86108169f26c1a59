CONSTANTS
  p1 = p1
  p2 = p2
  Peers = {p1, p2}
  Segments <- MCSegments
  Nodes <- MCOneNode
  Addresses = {"addrs1"}
  Commands <- MCWrites
  Lifetimes = {1}
  TicksPerSecond = 1
  MaxNow = 1
  MaxRequests = 1
  StoreFaults = FALSE
SPECIFICATION ServerSpec
PROPERTY
  RespondsToOpenChannels
