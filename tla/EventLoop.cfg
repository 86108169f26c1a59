\* The event loop: every command is answered and every event handled.
SPECIFICATION FairLoopSpec
CONSTANTS
  r1 = r1
  Nobody = Nobody
  Remotes <- MCRemotes
  RendezvousNodes <- MCRemotes
  Commands <- MCCommands
  MaxCalls = 2
  MaxTasks = 2
  MaxStreams = 1
  MaxChanges = 1
INVARIANT EventLoopTypeOK
INVARIANT PointsAreRegisteredAt
INVARIANT StreamsAreAnnounced
INVARIANT CommandsAreHandledOnce
PROPERTY CommandsAreAnswered
PROPERTY EventsAreHandled
\* The node stops at ExitLoop, and where its commands and tasks are used up.
CHECK_DEADLOCK FALSE
