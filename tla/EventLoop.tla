----------------------------- MODULE EventLoop -----------------------------
(***************************************************************************)
(* The node's event loop (network.rs) and its commands and events          *)
(* (ipc.rs).  The loop is a task that turns for ever: it locks the swarm,  *)
(* waits in select! for a swarm event, a command or an inbound stream,     *)
(* spawns a task that handles it, and gives the lock back.  The spawned    *)
(* tasks lock the swarm themselves, run in any order and take other locks  *)
(* and await other tasks while they hold it.                               *)
(*                                                                         *)
(* A tokio Mutex is fair: it is modelled by the queue of the tasks that    *)
(* called lock(), whose head owns it.  topics, rendezvous_points and peers *)
(* have mutexes that are only taken by the owner of the swarm's and given  *)
(* back before the next await, so they are left out, except where a task   *)
(* locks peers twice.  The channels are unbounded (node.rs).               *)
(*                                                                         *)
(* The loop is left in three ways: by the command ExitLoop, by an accept() *)
(* that fails, and by a panic of the rendezvous client that it polls.      *)
(*                                                                         *)
(* Floodsub messages are only passed on, and handle_swarm_event() ignores  *)
(* the other events: no task is modelled for them, but what they mean to   *)
(* the swarm and to the rendezvous client is.                              *)
(***************************************************************************)
EXTENDS Integers, Sequences, FiniteSets, Functions

CONSTANTS Remotes,           \* peer ids of other nodes
          RendezvousNodes,   \* the rendezvous nodes the node is started with
          Commands,          \* the commands its user may send
          Nobody,            \* no peer id
          MaxCalls,          \* bound of the model: commands ever sent
          MaxTasks,          \* bound of the model: tasks at one time
          MaxStreams,        \* bound of the model: streams ever opened
          MaxChanges         \* bound of the model: what the network ever does

ASSUME EventLoopAssumption ==
  /\ RendezvousNodes \subseteq Remotes
  /\ Nobody \notin Remotes
  /\ \A c \in Commands : /\ c.type = "AddRendezvous" => c.peer \in Remotes \cup {Nobody}
                         /\ c.type = "RemoveRendezvous" => c.peer \in Remotes
  /\ {MaxCalls, MaxTasks, MaxStreams, MaxChanges} \subseteq Nat

VARIABLES
  loop,               \* where it is: top, waiting, select, leaving, left
  tasks,              \* spawned tasks: id -> [job, at]
  swarm,              \* the swarm's mutex: its owner, then those who wait
  streamsLock,        \* the mutex of `streams`
  commands,           \* the channel of commands: [type, id, command]
  answered,           \* the commands a response was sent for, Ok or Err
  calls,              \* the number of commands sent so far
  streams,            \* the streams in the table
  opened,             \* the number of streams opened so far
  events,             \* events about streams sent so far: [type, stream]
  broken,             \* history: streams whose close() failed or was aborted
  topics,             \* topics subscribed to
  subscriptions,      \* floodsub: topics subscribed to
  rendezvous_points,  \* rendezvous nodes to register at
  registers,          \* rendezvous client: its Registers under way, by node
  withdrawals,        \* rendezvous client: its Deregisters under way, by node
  registered,         \* rendezvous client: the nodes in its own rendezvous_points
  outrun,             \* history: points removed while a Register was under way
  missed,             \* history: points whose dial, Register or registration ended
  dialing,            \* libp2p: peers being dialed
  peers,              \* peer -> the rendezvous nodes that know it
  incoming,           \* libp2p-stream: an inbound stream is there to take
  connected,          \* libp2p: peers connected to
  accessible,         \* rendezvous client: an external address is known
  querying,           \* rendezvous client: nodes asked by discover()
  found,              \* rendezvous client: peer -> the node that named it
  changes             \* the number of things the network did so far

lockVars == <<swarm, streamsLock>>
channelVars == <<commands, answered, calls>>
streamVars == <<streams, opened, events, broken>>
topicVars == <<topics, subscriptions>>
clientVars == <<registers, withdrawals, registered>>
pointVars == <<rendezvous_points, outrun, missed, dialing, clientVars>>
netVars == <<connected, accessible, changes>>
swarmVars == <<netVars, querying, found>>
pollVars == <<missed, dialing, clientVars, swarmVars>>  \* what polling the swarm changes
nodeVars == <<streamVars, topicVars, pointVars, peers>>
loopVars == <<loop, tasks, lockVars, channelVars, nodeVars, incoming, swarmVars>>

Loop == 0
TaskIds == 1..MaxTasks

\* new(): the rendezvous nodes are dialed at once.
LoopInit ==
  /\ loop = "top" /\ tasks = << >> /\ swarm = << >> /\ streamsLock = << >>
  /\ commands = << >> /\ answered = {} /\ calls = 0
  /\ streams = {} /\ opened = 0 /\ events = {} /\ broken = {}
  /\ topics = {} /\ subscriptions = {}
  /\ rendezvous_points = RendezvousNodes /\ dialing = RendezvousNodes
  /\ registers = [p \in Remotes |-> 0] /\ withdrawals = [p \in Remotes |-> 0]
  /\ registered = {} /\ outrun = {} /\ missed = {} /\ peers = << >>
  /\ incoming = FALSE /\ connected = {} /\ accessible = FALSE
  /\ querying = {} /\ found = << >> /\ changes = 0

Owns(lock, who) == lock # << >> /\ Head(lock) = who

-----------------------------------------------------------------------------
(***************************************************************************)
(* Beside the loop: the user, and libp2p's connection tasks.               *)
(***************************************************************************)

Call(command) ==
  /\ calls < MaxCalls
  /\ calls' = calls + 1
  /\ commands' = Append(commands, [type |-> "Command", id |-> calls + 1, command |-> command])
  /\ UNCHANGED <<loop, tasks, lockVars, answered, nodeVars, incoming, swarmVars>>

\* The network does something of itself, at most MaxChanges times.  Not counted is
\* what follows from an earlier step, once each: a peer that was dialed, an answer
\* to a query, a Register or a Deregister, and the node's first external address.
Change == changes < MaxChanges /\ changes' = changes + 1

At(t, place) == t \in DOMAIN tasks /\ tasks[t].at = place
Job(t) == tasks[t].job
Asked(t) == Job(t).command
OfType(type) == {t \in DOMAIN tasks : Job(t).type = type}

\* The streams opened and those on the way, for the bound.
Streaming == opened + Cardinality(OfType("Inbound")) + (IF incoming THEN 1 ELSE 0)

\* A remote opens a stream.  One that comes while the loop does not listen, or
\* has not taken the last one, is dropped by libp2p-stream.
StreamArrives ==
  /\ loop = "select" /\ ~incoming
  /\ connected # {}
  /\ Streaming < MaxStreams
  /\ Change
  /\ incoming' = TRUE
  /\ UNCHANGED <<loop, tasks, lockVars, channelVars, nodeVars, connected, accessible, querying,
                 found>>

-----------------------------------------------------------------------------
(***************************************************************************)
(* event_loop().                                                           *)
(***************************************************************************)

TakeSwarm ==
  /\ loop = "top"
  /\ loop' = "waiting"
  /\ swarm' = Append(swarm, Loop)
  /\ UNCHANGED <<tasks, streamsLock, channelVars, nodeVars, incoming, swarmVars>>

\* The lock is there and accept() has registered the inbound protocol.
EnterSelect ==
  /\ loop = "waiting" /\ Owns(swarm, Loop)
  /\ loop' = "select"
  /\ UNCHANGED <<tasks, lockVars, channelVars, nodeVars, incoming, swarmVars>>

\* accept() gives an error, and `?` leaves the loop: the lock is dropped, then
\* the JoinSet.
AcceptFails ==
  /\ loop = "waiting" /\ Owns(swarm, Loop)
  /\ loop' = "leaving"
  /\ swarm' = Tail(swarm)
  /\ UNCHANGED <<tasks, streamsLock, channelVars, nodeVars, incoming, swarmVars>>

\* A mistake: the lock kept over the turn.
EndTurnKeepsSwarm(next) ==
  /\ loop = "select" /\ loop' = "select"
  /\ incoming' = FALSE
  /\ UNCHANGED <<lockVars, streamVars, topicVars, rendezvous_points, outrun, peers>>

\* The turn's locals are dropped: the lock, and with `streams` the registration
\* and an inbound stream that was not taken.
EndTurn(next) ==
  /\ loop = "select" /\ loop' = next
  /\ swarm' = Tail(swarm)
  /\ incoming' = FALSE
  /\ UNCHANGED <<streamsLock, streamVars, topicVars, rendezvous_points, outrun, peers>>

FreeIds == TaskIds \ DOMAIN tasks

Spawn(job) ==
  /\ FreeIds # {}
  /\ LET new == CHOOSE t \in FreeIds : TRUE
     IN  tasks' = [t \in DOMAIN tasks \cup {new} |->
                     IF t = new THEN [job |-> job, at |-> "spawned"] ELSE tasks[t]]

OnCommand ==
  /\ EndTurn("top")
  /\ commands # << >> /\ Head(commands).command.type # "ExitLoop"
  /\ Spawn(Head(commands))
  /\ commands' = Tail(commands)
  /\ UNCHANGED <<answered, calls, pollVars>>

\* A mistake: the loop is left without a response.
OnExitSilently ==
  /\ EndTurn("leaving")
  /\ commands # << >> /\ Head(commands).command.type = "ExitLoop"
  /\ commands' = Tail(commands)
  /\ UNCHANGED <<tasks, answered, calls, pollVars>>

\* The turn's locals are dropped first, then the JoinSet, which aborts the
\* tasks: in between they run on.
OnExit ==
  /\ EndTurn("leaving")
  /\ commands # << >> /\ Head(commands).command.type = "ExitLoop"
  /\ answered' = answered \cup {Head(commands).id}
  /\ commands' = Tail(commands)
  /\ UNCHANGED <<tasks, calls, pollVars>>

\* The client panics: a remote sends it a request (client.rs 236), or a timer is
\* polled whose time is out of range (415, 432-433, 446-447).  It takes a remote
\* that is or was there, and unwinding drops what `break` does.
Panics ==
  /\ EndTurn("leaving")
  /\ connected # {} \/ registered # {} \/ DOMAIN found # {}
  /\ UNCHANGED <<tasks, channelVars, pollVars>>

\* The streams whose removal is not announced yet.
Closing == {Asked(t).stream : t \in {u \in DOMAIN tasks : At(u, "closing")}}

Leave ==
  /\ loop = "leaving" /\ loop' = "left"
  /\ tasks' = << >> /\ swarm' = << >> /\ streamsLock' = << >>
  /\ broken' = broken \cup Closing
  /\ UNCHANGED <<channelVars, streams, opened, events, topicVars, pointVars, peers, incoming,
                 swarmVars>>

OnStream ==
  /\ EndTurn("top")
  /\ incoming
  /\ Spawn([type |-> "Inbound"])
  /\ UNCHANGED <<channelVars, pollVars>>

\* The events of the swarm that handle_swarm_event() does something about; the
\* last two come from the rendezvous client.
Connected(p) ==
  /\ \/ p \in dialing /\ UNCHANGED changes
     \/ p \notin connected \cup dialing /\ Change
  /\ connected' = connected \cup {p} /\ dialing' = dialing \ {p}
  /\ Spawn([type |-> "Connected", peer |-> p])
  /\ UNCHANGED <<missed, clientVars, accessible, querying, found>>

Discovered(via, named) ==
  /\ via \in querying
  /\ querying' = querying \ {via}
  /\ found' = [p \in DOMAIN found \cup named |-> IF p \in named THEN via ELSE found[p]]
  /\ Spawn([type |-> "Discovered", peers |-> named, via |-> via])
  /\ UNCHANGED <<missed, dialing, clientVars, netVars>>

PeerExpired(p) ==
  /\ Change
  /\ p \in DOMAIN found
  /\ found' = Restrict(found, DOMAIN found \ {p})
  /\ Spawn([type |-> "PeerExpired", peer |-> p, via |-> found[p]])
  /\ UNCHANGED <<missed, dialing, clientVars, connected, accessible, querying>>

\* Events without a handler.
DialFails(p) ==
  /\ Change
  /\ p \in dialing /\ dialing' = dialing \ {p}
  /\ missed' = missed \cup ({p} \cap rendezvous_points)
  /\ UNCHANGED <<clientVars, connected, accessible, querying>>

ConnectionCloses(p) ==
  /\ Change
  /\ p \in connected /\ connected' = connected \ {p}
  /\ UNCHANGED <<missed, dialing, clientVars, querying, accessible>>

DiscoverFails(p) ==
  /\ Change
  /\ p \in querying /\ querying' = querying \ {p}
  /\ UNCHANGED <<missed, dialing, clientVars, connected, accessible>>

OneMore(requests, S) == [p \in Remotes |-> IF p \in S THEN requests[p] + 1 ELSE requests[p]]

\* With new external addresses the client registers again at the nodes in its
\* own table.
AddressesChange ==
  /\ Change \/ (~accessible /\ UNCHANGED changes)
  /\ accessible' \in BOOLEAN
  /\ registers' = IF accessible' THEN OneMore(registers, registered) ELSE registers
  /\ UNCHANGED <<missed, dialing, withdrawals, registered, connected, querying>>

\* A Register was answered, or failed.
RegisterEnds(p) ==
  /\ registers[p] > 0 /\ registers' = [registers EXCEPT ![p] = @ - 1]
  /\ \/ /\ p \in connected
        /\ registered' = registered \cup {p} /\ missed' = missed \ {p}
     \/ missed' = missed \cup ({p} \cap rendezvous_points) /\ UNCHANGED registered
  /\ UNCHANGED <<dialing, withdrawals, netVars, querying>>

\* A Deregister was answered, or failed: late, it undoes a later Register.
DeregisterEnds(p) ==
  /\ withdrawals[p] > 0 /\ withdrawals' = [withdrawals EXCEPT ![p] = @ - 1]
  /\ \/ /\ p \in connected
        /\ registered' = registered \ {p}
        /\ missed' = missed \cup ({p} \cap rendezvous_points)
     \/ UNCHANGED <<registered, missed>>
  /\ UNCHANGED <<dialing, registers, netVars, querying>>

\* Nobody registers again when a registration expires.
RegistrationExpired(p) ==
  /\ Change
  /\ p \in registered /\ registered' = registered \ {p}
  /\ missed' = missed \cup ({p} \cap rendezvous_points)
  /\ UNCHANGED <<dialing, registers, withdrawals, connected, accessible, querying>>

Unhandled ==
  /\ \/ AddressesChange
     \/ \E p \in Remotes : \/ DialFails(p) \/ ConnectionCloses(p) \/ DiscoverFails(p)
                          \/ RegisterEnds(p) \/ DeregisterEnds(p) \/ RegistrationExpired(p)
     \/ UNCHANGED pollVars  \* one of no effect
  /\ UNCHANGED <<tasks, found>>

OnSwarmEvent ==
  /\ EndTurn("top")
  /\ \/ \E p \in Remotes : Connected(p) \/ PeerExpired(p)
     \/ \E via \in Remotes, named \in SUBSET Remotes : Discovered(via, named)
     \/ Unhandled
  /\ UNCHANGED channelVars

-----------------------------------------------------------------------------
(***************************************************************************)
(* The spawned tasks: the locks.                                           *)
(***************************************************************************)

Moves(t, place) == /\ tasks' = [tasks EXCEPT ![t].at = place]
                   /\ UNCHANGED <<loop, channelVars, incoming, swarmVars>>

\* Both handlers call swarm.lock() first.
LockSwarm(t) ==
  /\ At(t, "spawned") /\ t \notin OfType("Inbound")
  /\ Moves(t, "swarm")
  /\ swarm' = Append(swarm, t)
  /\ UNCHANGED <<streamsLock, nodeVars>>

\* A mistake: streams.lock() not after the swarm's, but beside it.
NeedsNoSwarm(t) == TRUE

OwnsSwarm(t) == Owns(swarm, t)

\* The task of an inbound stream calls streams.lock() at once, the handler of a
\* command once it owns the swarm.
LockStreams(t) ==
  /\ \/ At(t, "spawned") /\ t \in OfType("Inbound")
     \/ At(t, "swarm") /\ t \in OfType("Command") /\ OwnsSwarm(t)
  /\ Moves(t, "streams")
  /\ streamsLock' = Append(streamsLock, t)
  /\ UNCHANGED <<swarm, nodeVars>>

\* The task ends, and its locks are given back.
Ends(t) == LET Without(lock) == IF Owns(lock, t) THEN Tail(lock) ELSE lock
           IN  /\ tasks' = Restrict(tasks, DOMAIN tasks \ {t})
               /\ swarm' = Without(swarm)
               /\ streamsLock' = Without(streamsLock)
               /\ UNCHANGED <<loop, commands, calls, incoming, netVars, found>>

-----------------------------------------------------------------------------
(***************************************************************************)
(* handle_swarm_event(), and the task of an inbound stream.                *)
(***************************************************************************)

Handles(t, type) == At(t, "swarm") /\ t \in OfType(type) /\ Owns(swarm, t)

\* A mistake: the node registers with whomever it is connected to.
Anyone(p) == {p}

PointOf(p) == {p} \cap rendezvous_points

\* register() fails for a node without an external address; the error is
\* ignored and nobody tries again.
HandleConnected(t) ==
  /\ Handles(t, "Connected")
  /\ LET points == PointOf(Job(t).peer)
     IN  IF accessible
         THEN registers' = OneMore(registers, points) /\ missed' = missed \ points
         ELSE missed' = missed \cup points /\ UNCHANGED registers
  /\ Ends(t)
  /\ UNCHANGED <<rendezvous_points, outrun, dialing, withdrawals, registered, answered, streamVars,
                 topicVars, peers, querying>>

\* A known peer gets its own id into its set of rendezvous nodes.
Recorded(t, S) ==
  [p \in DOMAIN peers \cup S |-> IF p \notin DOMAIN peers THEN {Job(t).via}
                                 ELSE IF p \in S THEN peers[p] \cup {p} ELSE peers[p]]

\* The peers for which the guard of peers.lock() in the `if let` lives on
\* (edition 2021) while the else branch calls peers.lock().
LockedTwice(t) == Job(t).peers \ DOMAIN peers

\* At the first of those the task waits for itself, and keeps the swarm.
HandleDiscovered(t) ==
  /\ Handles(t, "Discovered")
  /\ \/ /\ LockedTwice(t) = {}
        /\ peers' = Recorded(t, Job(t).peers)
        /\ Ends(t) /\ UNCHANGED <<answered, querying>>
     \/ /\ LockedTwice(t) # {}
        /\ \E before \in SUBSET (Job(t).peers \ LockedTwice(t)) : peers' = Recorded(t, before)
        /\ Moves(t, "peers") /\ UNCHANGED lockVars
  /\ UNCHANGED <<streamVars, topicVars, pointVars>>

HandlePeerExpired(t) ==
  /\ Handles(t, "PeerExpired")
  /\ LET p == Job(t).peer
         kept == {q \in DOMAIN peers : q = p => peers[q] # {Job(t).via}}
     IN  peers' = [q \in kept |-> IF q = p THEN peers[q] \ {Job(t).via} ELSE peers[q]]
  /\ Ends(t)
  /\ UNCHANGED <<answered, streamVars, topicVars, pointVars, querying>>

\* A stream enters the table and is announced.
Opens ==
  /\ opened' = opened + 1
  /\ streams' = streams \cup {opened + 1}
  /\ events' = events \cup {[type |-> "StreamOpened", stream |-> opened + 1]}
  /\ UNCHANGED broken

HandleInbound(t) ==
  /\ At(t, "streams") /\ t \in OfType("Inbound") /\ Owns(streamsLock, t)
  /\ Opens
  /\ Ends(t)
  /\ UNCHANGED <<answered, topicVars, pointVars, peers, querying>>

-----------------------------------------------------------------------------
(***************************************************************************)
(* handle_command(): the commands c, by their effects, and what is common. *)
(***************************************************************************)

\* open_stream() to a peer without a connection has the swarm dial it, which
\* this task keeps from running: it never returns.
OpenStream(c) ==
  /\ c.type = "OpenStream"
  /\ c.peer \in connected
  /\ \/ Streaming < MaxStreams /\ Opens
     \/ UNCHANGED streamVars
  /\ UNCHANGED <<topicVars, pointVars, querying>>

Knows(c) == c.stream \in streams

\* A mistake: the entry of a closed stream stays.
RemovesNothing(id) == UNCHANGED streams

Removes(id) == streams' = streams \ {id}

IsTransfer(c) == c.type \in {"ReadStream", "WriteStream"}

Subscribe(c) ==
  /\ c.type = "Subscribe"
  /\ topics' = topics \cup (c.topics \ subscriptions)
  /\ subscriptions' = subscriptions \cup c.topics
  /\ UNCHANGED <<streamVars, pointVars, querying>>

\* The filter keeps the topics to remove, and drops the others.
Unsubscribe(c) ==
  /\ c.type = "Unsubscribe"
  /\ topics' = IF c.topics \cap subscriptions = {} THEN topics ELSE topics \cap c.topics
  /\ subscriptions' = subscriptions \ c.topics
  /\ UNCHANGED <<streamVars, pointVars, querying>>

\* The address may lack a /p2p part, and dial() may fail at once.
AddRendezvous(c) ==
  /\ c.type = "AddRendezvous"
  /\ \/ /\ c.peer # Nobody
        /\ rendezvous_points' = rendezvous_points \cup {c.peer}
        /\ dialing' = dialing \cup {c.peer}
        /\ missed' = missed \ {c.peer}
     \/ UNCHANGED <<rendezvous_points, dialing, missed>>
  /\ UNCHANGED <<clientVars, outrun, streamVars, topicVars, querying>>

\* deregister() sends a request and forgets the node, but not a Register that is
\* still under way.
RemoveRendezvous(c) ==
  /\ c.type = "RemoveRendezvous"
  /\ rendezvous_points' = rendezvous_points \ {c.peer}
  /\ withdrawals' = OneMore(withdrawals, {c.peer})
  /\ registered' = registered \ {c.peer}
  /\ missed' = missed \ {c.peer}
  /\ outrun' = (outrun \ {c.peer}) \cup {p \in {c.peer} : registers[p] > 0}
  /\ UNCHANGED <<dialing, registers, streamVars, topicVars, querying>>

UpdateRemotes(c) ==
  /\ c.type = "UpdateRemotes"
  /\ querying' = querying \cup rendezvous_points
  /\ UNCHANGED <<streamVars, topicVars, pointVars>>

\* ListPeers and GetPeer, and the commands on a stream that is unknown.
OnlyAnswers(c) ==
  /\ \/ c.type \in {"ListPeers", "GetPeer"}
     \/ (IsTransfer(c) \/ c.type = "CloseStream") /\ ~Knows(c)
  /\ UNCHANGED <<streamVars, topicVars, pointVars, querying>>

Ready(t) == At(t, "streams") /\ t \in OfType("Command") /\ Owns(streamsLock, t)

Answers(t) == answered' = answered \cup {Job(t).id} /\ Ends(t) /\ UNCHANGED peers

HandleCommand(t) ==
  /\ Ready(t)
  /\ LET c == Asked(t)
     IN  \/ OpenStream(c) \/ Subscribe(c) \/ Unsubscribe(c)
         \/ AddRendezvous(c) \/ RemoveRendezvous(c) \/ UpdateRemotes(c) \/ OnlyAnswers(c)
  /\ Answers(t)

\* ReadStream and WriteStream await the remote, with both locks.
Transfer(t) ==
  /\ Ready(t) /\ IsTransfer(Asked(t)) /\ Knows(Asked(t))
  /\ Answers(t)
  /\ UNCHANGED <<streamVars, topicVars, pointVars, querying>>

\* CloseStream takes the stream out of the table, then awaits close() with both
\* locks,
StartsClosing(t) ==
  /\ Ready(t) /\ Asked(t).type = "CloseStream" /\ Knows(Asked(t))
  /\ Removes(Asked(t).stream)
  /\ Moves(t, "closing")
  /\ UNCHANGED <<lockVars, opened, events, broken, topicVars, pointVars, peers>>

\* and only then announces it; a close() that fails is not announced.
Closes(t) ==
  /\ At(t, "closing")
  /\ \/ /\ events' = events \cup {[type |-> "StreamClosed", stream |-> Asked(t).stream]}
        /\ UNCHANGED broken
     \/ broken' = broken \cup {Asked(t).stream} /\ UNCHANGED events
  /\ Answers(t)
  /\ UNCHANGED <<streams, opened, topicVars, pointVars, querying>>

-----------------------------------------------------------------------------
(***************************************************************************)
(* The node.                                                               *)
(***************************************************************************)

\* What a task does without anybody's help.
Works(t) == \/ LockSwarm(t) \/ LockStreams(t)
            \/ HandleConnected(t) \/ HandleDiscovered(t) \/ HandlePeerExpired(t)
            \/ HandleInbound(t) \/ HandleCommand(t) \/ StartsClosing(t)

LoopNext == \/ \E command \in Commands : Call(command)
            \/ StreamArrives
            \/ TakeSwarm \/ EnterSelect \/ AcceptFails \/ OnCommand \/ OnExit \/ Leave
            \/ OnStream \/ OnSwarmEvent \/ Panics
            \/ \E t \in TaskIds : Works(t) \/ Transfer(t) \/ Closes(t)

LoopSpec == LoopInit /\ [][LoopNext]_loopVars

\* Every task runs, and its turn for a lock comes.  The swarm does not stop
\* producing events: autonat probes at intervals for ever.  select! looks at
\* its branches in random order, so one that is ready again and again is taken.
\* Nothing is assumed of the remote that Transfer and Closes wait for, and no
\* failure is promised.
FairLoopSpec ==
  /\ LoopSpec
  /\ WF_loopVars(TakeSwarm \/ EnterSelect \/ Leave)
  /\ WF_loopVars(OnSwarmEvent)
  /\ SF_loopVars(OnCommand \/ OnExit)
  /\ SF_loopVars(OnStream)
  /\ \A t \in TaskIds : WF_loopVars(Works(t))

-----------------------------------------------------------------------------
(***************************************************************************)
(* Properties.                                                             *)
(***************************************************************************)

\* The types, and the locks: a mutex is queued for by whoever called lock() and
\* not yet dropped the guard, once each; the loop listens, and a command waits
\* for the streams, only as the owner of the swarm.
EventLoopTypeOK ==
  /\ loop \in {"top", "waiting", "select", "leaving", "left"}
  /\ DOMAIN tasks \subseteq TaskIds
  /\ \A t \in DOMAIN tasks : Job(t).type \in {"Command", "Inbound", "Connected", "Discovered",
                                              "PeerExpired"}
  /\ IsInjective(swarm) /\ IsInjective(streamsLock)
  /\ Range(streamsLock) = {t \in DOMAIN tasks : At(t, "streams") \/ At(t, "closing")}
  /\ Range(swarm) = (IF loop \in {"waiting", "select"} THEN {Loop} ELSE {})
                      \cup {t \in DOMAIN tasks \ OfType("Inbound") : ~At(t, "spawned")}
  /\ loop = "select" => Owns(swarm, Loop)
  /\ \A t \in DOMAIN tasks \ OfType("Inbound") :
       At(t, "streams") \/ At(t, "closing") \/ At(t, "peers") => Owns(swarm, t)
  /\ answered \subseteq 1..calls
  /\ streams \subseteq 1..opened /\ opened <= MaxStreams
  /\ {connected, dialing, rendezvous_points, registered, outrun, missed, querying}
       \subseteq SUBSET Remotes
  /\ registers \in [Remotes -> Nat] /\ withdrawals \in [Remotes -> Nat]
  /\ DOMAIN peers \subseteq Remotes /\ DOMAIN found \subseteq Remotes

\* The peers with a connection whose task is still to run.
Awaited == {Job(t).peer : t \in OfType("Connected")}

\* The nodes that the rendezvous client is registered at or asks to register it.
Attached == registered \cup {p \in Remotes : registers[p] > 0}

\* The node registers, and with new addresses registers again, with its
\* rendezvous nodes and with those that the user removed while a Register was
\* under way, and with no other, though a connection may be established, and its
\* task run, after the user removed the node.  And no rendezvous node is
\* forgotten: the client is registered there or asks for it, or the node is being
\* dialed, or its connection's task is still to run, or the attempt or the
\* registration came to an end (network.rs 153-160, 347-385, client.rs 157-168,
\* 409-424).
PointsAreRegisteredAt ==
  /\ Attached \subseteq rendezvous_points \cup outrun
  /\ loop # "left" => rendezvous_points \subseteq Attached \cup missed \cup dialing \cup Awaited

Told(E, type) == {e.stream : e \in {d \in E : d.type = type}}

\* The table of streams is what the user can tell from the events: a stream is
\* there if it was announced and its end was not, whoever opened it.  Only a
\* stream whose close() is under way is not, and one whose close() failed, or was
\* aborted with the loop, is removed silently (network.rs 237-279, 439-457).
StreamsAreAnnounced ==
  streams = Told(events, "StreamOpened")
              \ (Told(events, "StreamClosed") \cup Closing \cup broken)

\* The number of commands the loop has taken from the channel, and the tasks
\* that handle one.
Taken == calls - Len(commands)
Handlers == OfType("Command")

\* No command is lost, handled twice or answered twice, in whatever order the
\* tasks end: the channel holds the latest ones in the order of the calls, and
\* each one taken before has one task or its answer, and not both.  Tasks that
\* have not answered are aborted when the loop is left, by ExitLoop, an accept()
\* that fails or a panic, and never before (network.rs 401-433).
CommandsAreHandledOnce ==
  /\ \A i \in DOMAIN commands : commands[i].id = Taken + i
  /\ \A t, u \in Handlers : Job(t).id = Job(u).id => t = u
  /\ answered \subseteq 1..Taken
  /\ \A t \in Handlers : Job(t).id \in (1..Taken) \ answered
  /\ loop # "left" => \A id \in (1..Taken) \ answered : \E t \in Handlers : Job(t).id = id

\* A task that holds the swarm, and waits: for the guard it holds itself, for a
\* dial that needs the swarm, or for a remote to read, write or close a stream.
SelfLocked(t) == At(t, "peers")

AwaitsSwarm(t) == Ready(t) /\ Asked(t).type = "OpenStream" /\ Asked(t).peer \notin connected

AwaitsRemote(t) == \/ Ready(t) /\ IsTransfer(Asked(t)) /\ Knows(Asked(t))
                   \/ At(t, "closing")

Stalled == \E t \in DOMAIN tasks : SelfLocked(t) \/ AwaitsSwarm(t) \/ AwaitsRemote(t)

\* Every command is answered, so that again and again all those sent so far are,
\* or the loop was left, by ExitLoop, an accept() that fails or a panic of the
\* client; in a loop that goes on, the three ways of waiting with the swarm are
\* the only ones in which a command is left without an answer (network.rs
\* 224-226, 401, 408-433).
CommandsAreAnswered ==
  \/ []<>(answered = 1..calls \/ loop = "left")
  \/ <>[]Stalled

\* Every event of the swarm and every inbound stream that the loop took is
\* handled to the end, or aborted with the loop, with the same exceptions: no
\* two of the locks are waited for in a circle (network.rs 150-151, 225-226,
\* 434-457).
EventsAreHandled ==
  \A t \in TaskIds : []<>(t \notin DOMAIN tasks) \/ <>[]Stalled

=============================================================================
