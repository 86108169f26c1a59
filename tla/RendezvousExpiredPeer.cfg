CONSTANTS
  p1 = p1
  Peers = {p1}
  Segments <- MCSegments
  Nodes <- MCNodes
  Self <- MCSelf
  Addresses = {"addrs1"}
  NoAddresses = "none"
  Servers = {"rdv1"}
  Queries <- MCFind
  Commands <- MCCommands
  StrangerRequests <- MCStrangers
  Lifetimes = {1}
  RegistrationBuffer = 1
  TicksPerSecond = 2
  MaxNow = 2
  MaxSent = 2
  MaxRequests = 2
  StoreFaults = FALSE
SPECIFICATION RendezvousSpec
PROPERTY
  PeerTimersCanBeSet
CHECK_DEADLOCK FALSE
