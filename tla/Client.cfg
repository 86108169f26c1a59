CONSTANTS
  p1 = p1
  Peers = {p1}
  Segments <- MCSegments
  Nodes <- MCTwoGroups
  Addresses = {"addrs1"}
  NoAddresses = "none"
  Servers = {"rdv1"}
  Queries <- MCQueries
  Lifetimes = {2}
  RegistrationBuffer = 1
  TicksPerSecond = 1
  MaxNow = 2
  MaxSent = 2
SPECIFICATION FairClientSpec
INVARIANTS
  ClientTypeOK
  EntriesHaveTimers
PROPERTIES
  PeersAreLeases
  PointsAreLeases
  EntriesLapse
  RequestsAreReported
CHECK_DEADLOCK FALSE
