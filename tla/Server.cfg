CONSTANTS
  p1 = p1
  p2 = p2
  Peers = {p1, p2}
  Segments <- MCSegments
  Nodes <- MCNodes
  Addresses = {"addrs1"}
  Commands <- MCWrites
  Lifetimes = {0, 1}
  TicksPerSecond = 1
  MaxNow = 2
  MaxRequests = 3
  StoreFaults = TRUE
SPECIFICATION FairServerSpec
INVARIANTS
  ServerTypeOK
  HoldsWhatItAccepted
PROPERTIES
  ImplementsDirectory
  OverdueEntriesDrain
  RequestsAreAnswered
