-------------------------- MODULE EventLoopProofs --------------------------
(***************************************************************************)
(* What the event loop keeps, proved for every set of remotes, commands    *)
(* and bounds.                                                             *)
(***************************************************************************)
EXTENDS EventLoop, FiniteSetTheorems, TLAPS

-----------------------------------------------------------------------------
(***************************************************************************)
(* The table of tasks.                                                     *)
(***************************************************************************)

\* A task is a record, and only commands close streams.
TasksInv == \A t \in DOMAIN tasks :
              /\ tasks[t] = [job |-> tasks[t].job, at |-> tasks[t].at]
              /\ tasks[t].at = "closing" => tasks[t].job.type = "Command"

\* A new task comes beside the others.
LEMMA SpawnedTask ==
  ASSUME NEW job, Spawn(job)
  PROVE  \E new \in TaskIds \ DOMAIN tasks :
           /\ DOMAIN tasks' = DOMAIN tasks \cup {new}
           /\ tasks'[new] = [job |-> job, at |-> "spawned"]
           /\ tasks'[new].job = job /\ tasks'[new].at = "spawned"
           /\ \A t \in DOMAIN tasks : tasks'[t] = tasks[t]
<1>1. PICK new \in FreeIds :
        tasks' = [t \in DOMAIN tasks \cup {new} |->
                    IF t = new THEN [job |-> job, at |-> "spawned"] ELSE tasks[t]]
  BY DEF Spawn
<1>2. new \in TaskIds \ DOMAIN tasks
  BY DEF FreeIds
<1>3. tasks'[new] = [job |-> job, at |-> "spawned"]
  BY <1>1
<1> QED BY <1>1, <1>2, <1>3

\* A task that moves on keeps its job.
LEMMA MovedTask ==
  ASSUME TasksInv, NEW t \in DOMAIN tasks, NEW place, Moves(t, place)
  PROVE  /\ DOMAIN tasks' = DOMAIN tasks
         /\ tasks'[t] = [job |-> tasks[t].job, at |-> place]
         /\ tasks'[t].job = tasks[t].job /\ tasks'[t].at = place
         /\ \A u \in DOMAIN tasks : u # t => tasks'[u] = tasks[u]
<1>1. tasks' = [tasks EXCEPT ![t].at = place]
  BY DEF Moves
<1>2. tasks[t] = [job |-> tasks[t].job, at |-> tasks[t].at]
  BY DEF TasksInv
<1>3. tasks'[t] = [tasks[t] EXCEPT !.at = place]
  BY <1>1
<1>4. [tasks[t] EXCEPT !.at = place] = [job |-> tasks[t].job, at |-> place]
  BY <1>2
<1>5. tasks'[t] = [job |-> tasks[t].job, at |-> place]
  BY <1>3, <1>4
<1>6. tasks'[t].job = tasks[t].job /\ tasks'[t].at = place
  BY <1>5
<1> QED BY <1>1, <1>5, <1>6

LEMMA EndedTask ==
  ASSUME NEW t, Ends(t)
  PROVE  /\ DOMAIN tasks' = DOMAIN tasks \ {t}
         /\ \A u \in DOMAIN tasks' : tasks'[u] = tasks[u]
BY DEF Ends, Restrict

\* A swarm event comes with one new task, for no command and no stream, or with none.
LEMMA EventSpawns ==
  ASSUME OnSwarmEvent
  PROVE  \/ UNCHANGED tasks
         \/ \E job : Spawn(job) /\ job.type \notin {"Command", "Inbound"}
<1> DEFINE Handler == \E job : Spawn(job) /\ job.type \notin {"Command", "Inbound"}
<1>1. ASSUME NEW p \in Remotes, Connected(p) PROVE Handler
  BY <1>1 DEF Connected
<1>2. ASSUME NEW p \in Remotes, PeerExpired(p) PROVE Handler
  BY <1>2 DEF PeerExpired
<1>3. ASSUME NEW via \in Remotes, NEW named \in SUBSET Remotes, Discovered(via, named)
      PROVE  Handler
  BY <1>3 DEF Discovered
<1>4. Unhandled => UNCHANGED tasks
  BY DEF Unhandled
<1> HIDE DEF Handler
<1>5. UNCHANGED tasks \/ Handler
  BY <1>1, <1>2, <1>3, <1>4 DEF OnSwarmEvent
<1> QED BY <1>5 DEF Handler

\* A step of a task ends it, or it moves on.
TaskStep(t) == Works(t) \/ Transfer(t) \/ Closes(t)

LEMMA TaskMovesOrEnds ==
  ASSUME NEW t, TaskStep(t)
  PROVE  \/ Ends(t)
         \/ /\ t \in DOMAIN tasks /\ tasks[t].at # "closing"
            /\ \E place : /\ Moves(t, place)
                          /\ place = "closing" => tasks[t].job.type = "Command"
BY DEF TaskStep, Works, Transfer, Closes, LockSwarm, LockStreams, HandleConnected,
       HandleDiscovered, HandlePeerExpired, HandleInbound, HandleCommand, StartsClosing, Handles,
       Ready, OfType, Job, At, Answers

LEMMA TasksStep ==
  ASSUME TasksInv, [LoopNext]_loopVars
  PROVE  TasksInv'
<1>1. CASE UNCHANGED tasks
  BY <1>1 DEF TasksInv
<1>2. ASSUME NEW job, Spawn(job) PROVE TasksInv'
  <2>1. PICK new \in TaskIds \ DOMAIN tasks :
           /\ DOMAIN tasks' = DOMAIN tasks \cup {new}
           /\ tasks'[new] = [job |-> job, at |-> "spawned"]
           /\ tasks'[new].job = job /\ tasks'[new].at = "spawned"
           /\ \A t \in DOMAIN tasks : tasks'[t] = tasks[t]
    BY <1>2, SpawnedTask
  <2> SUFFICES ASSUME NEW t \in DOMAIN tasks'
               PROVE  /\ tasks'[t] = [job |-> tasks'[t].job, at |-> tasks'[t].at]
                      /\ tasks'[t].at = "closing" => tasks'[t].job.type = "Command"
    BY DEF TasksInv
  <2>2. CASE t = new
    BY <2>1, <2>2
  <2>3. CASE t \in DOMAIN tasks
    BY <2>1, <2>3 DEF TasksInv
  <2> QED BY <2>1, <2>2, <2>3
<1>3. CASE Leave
  BY <1>3 DEF Leave, TasksInv
<1>4. ASSUME NEW t \in TaskIds, TaskStep(t) PROVE TasksInv'
  <2>1. CASE Ends(t)
    BY <2>1, EndedTask DEF TasksInv
  <2>2. ASSUME t \in DOMAIN tasks, NEW place, Moves(t, place),
               place = "closing" => tasks[t].job.type = "Command"
        PROVE  TasksInv'
    <3>1. /\ DOMAIN tasks' = DOMAIN tasks
          /\ tasks'[t] = [job |-> tasks[t].job, at |-> place]
          /\ tasks'[t].job = tasks[t].job /\ tasks'[t].at = place
          /\ \A u \in DOMAIN tasks : u # t => tasks'[u] = tasks[u]
      BY <2>2, MovedTask
    <3> SUFFICES ASSUME NEW u \in DOMAIN tasks'
                 PROVE  /\ tasks'[u] = [job |-> tasks'[u].job, at |-> tasks'[u].at]
                        /\ tasks'[u].at = "closing" => tasks'[u].job.type = "Command"
      BY DEF TasksInv
    <3>2. CASE u = t
      BY <2>2, <3>1, <3>2
    <3>3. CASE u # t
      BY <3>1, <3>3 DEF TasksInv
    <3> QED BY <3>2, <3>3
  <2> QED BY <1>4, <2>1, <2>2, TaskMovesOrEnds
<1>5. CASE OnSwarmEvent
  BY <1>1, <1>2, <1>5, EventSpawns
<1>6. CASE OnCommand \/ OnStream
  BY <1>2, <1>6 DEF OnCommand, OnStream
<1> QED BY <1>1, <1>3, <1>4, <1>5, <1>6
        DEF LoopNext, loopVars, Call, StreamArrives, TakeSwarm, EnterSelect, AcceptFails, OnExit,
            Panics, TaskStep

-----------------------------------------------------------------------------
(***************************************************************************)
(* The types, and the queues of the locks.                                 *)
(***************************************************************************)

Sent == [type : {"Command"}, id : Nat, command : Commands]

\* A job is what the channel, libp2p-stream or the swarm handed to the loop.
Serves(job) ==
  \/ job.type = "Command" /\ job.id \in 1..calls /\ job.command \in Commands
  \/ job.type = "Inbound" \/ job.type = "PeerExpired"
  \/ job.type = "Connected" /\ job.peer \in Remotes
  \/ job.type = "Discovered" /\ job.peers \subseteq Remotes

ChannelInv == /\ calls \in Nat
              /\ answered \subseteq 1..calls
              /\ commands \in Seq(Sent)
              /\ \A i \in DOMAIN commands : commands[i].id \in 1..calls

JobsInv == /\ DOMAIN tasks \subseteq TaskIds
           /\ \A t \in DOMAIN tasks : Serves(tasks[t].job)

\* The streams on the way count: each of them is opened sooner or later.
BoundInv == /\ opened \in Nat
            /\ streams \subseteq 1..opened
            /\ incoming \in BOOLEAN
            /\ Streaming <= MaxStreams

\* The tasks that are beyond their call of swarm.lock().
Queued == {t \in DOMAIN tasks \ OfType("Inbound") : tasks[t].at # "spawned"}
AtStreams == {t \in DOMAIN tasks : tasks[t].at \in {"streams", "closing"}}
Holding == {"streams", "closing", "peers"}
LoopQueued == IF loop \in {"waiting", "select"} THEN {Loop} ELSE {}

LocksInv == /\ loop \in {"top", "waiting", "select", "leaving", "left"}
            /\ swarm \in Seq(Int) /\ streamsLock \in Seq(Int)
            /\ IsInjective(swarm) /\ IsInjective(streamsLock)
            /\ Range(streamsLock) = AtStreams
            /\ Range(swarm) = LoopQueued \cup Queued
            /\ loop = "select" => Owns(swarm, Loop)
            /\ \A t \in Queued : tasks[t].at \in Holding => Owns(swarm, t)
            /\ \A t \in AtStreams : tasks[t].at = "closing" => Owns(streamsLock, t)

RemotesInv ==
  /\ connected \subseteq Remotes /\ dialing \subseteq Remotes /\ querying \subseteq Remotes
  /\ rendezvous_points \subseteq Remotes /\ registered \subseteq Remotes
  /\ outrun \subseteq Remotes /\ missed \subseteq Remotes
  /\ registers \in [Remotes -> Nat] /\ withdrawals \in [Remotes -> Nat]
  /\ DOMAIN peers \subseteq Remotes /\ DOMAIN found \subseteq Remotes

LoopInv == ChannelInv /\ JobsInv /\ BoundInv /\ LocksInv /\ RemotesInv

LEMMA InboundFinite == ASSUME JobsInv PROVE IsFiniteSet(OfType("Inbound"))
<1>1. IsFiniteSet(TaskIds)
  BY FS_Interval, EventLoopAssumption DEF TaskIds
<1> QED BY <1>1, FS_Subset DEF JobsInv, OfType

LEMMA LoopIsNoTask == Loop \notin TaskIds /\ Loop \in Int /\ TaskIds \subseteq Int
BY EventLoopAssumption DEF Loop, TaskIds

-----------------------------------------------------------------------------
(***************************************************************************)
(* The queue of a mutex.                                                   *)
(***************************************************************************)

\* Whoever calls lock() stands behind the others.
LEMMA QueueGrows ==
  ASSUME NEW q \in Seq(Int), IsInjective(q), NEW x \in Int, x \notin Range(q)
  PROVE  /\ Append(q, x) \in Seq(Int)
         /\ IsInjective(Append(q, x))
         /\ Range(Append(q, x)) = Range(q) \cup {x}
         /\ \A y : Owns(q, y) => Owns(Append(q, x), y)
<1> DEFINE r == Append(q, x)
<1>1. /\ r \in Seq(Int) /\ Len(r) = Len(q) + 1
      /\ \A i \in 1..Len(q) : r[i] = q[i]
      /\ r[Len(q) + 1] = x
  OBVIOUS
<1>2. DOMAIN r = 1..(Len(q) + 1) /\ DOMAIN q = 1..Len(q) /\ Len(q) \in Nat
  BY <1>1
<1> HIDE DEF r
<1>3. DOMAIN r = DOMAIN q \cup {Len(q) + 1}
  BY <1>2
<1>4. Range(r) = Range(q) \cup {x}
  BY <1>1, <1>2, <1>3 DEF Range
<1>5. IsInjective(r)
  BY <1>1, <1>2, <1>3 DEF IsInjective, Range
<1>6. ASSUME NEW y, Owns(q, y) PROVE Owns(r, y)
  <2>1. q # << >> /\ q[1] = y
    BY <1>6 DEF Owns
  <2>2. 1 \in 1..Len(q)
    BY <2>1
  <2>3. r # << >> /\ r[1] = y
    BY <1>1, <1>2, <2>1, <2>2
  <2> QED BY <1>1, <2>3 DEF Owns
<1> QED BY <1>1, <1>4, <1>5, <1>6 DEF r

\* Its owner leaves the queue, and nobody else.
LEMMA QueueShrinks ==
  ASSUME NEW q \in Seq(Int), IsInjective(q), NEW x, Owns(q, x)
  PROVE  /\ Tail(q) \in Seq(Int)
         /\ IsInjective(Tail(q))
         /\ Range(Tail(q)) = Range(q) \ {x}
<1> DEFINE r == Tail(q)
<1>1. q # << >> /\ q[1] = x
  BY DEF Owns
<1>2. /\ r \in Seq(Int) /\ Len(r) = Len(q) - 1
      /\ \A i \in 1..(Len(q) - 1) : r[i] = q[i + 1]
  BY <1>1
<1>3. DOMAIN r = 1..(Len(q) - 1) /\ DOMAIN q = 1..Len(q) /\ Len(q) \in Nat /\ Len(q) > 0
  BY <1>1, <1>2
<1> HIDE DEF r
<1>4. \A i \in DOMAIN r : i + 1 \in DOMAIN q /\ i + 1 # 1 /\ 1 \in DOMAIN q /\ r[i] = q[i + 1]
  BY <1>2, <1>3
<1>5. IsInjective(r)
  <2> SUFFICES ASSUME NEW i \in DOMAIN r, NEW j \in DOMAIN r, r[i] = r[j] PROVE i = j
    BY DEF IsInjective
  <2>1. q[i + 1] = q[j + 1]
    BY <1>4
  <2>2. i + 1 = j + 1
    BY <1>4, <2>1 DEF IsInjective
  <2> QED BY <1>3, <2>2
<1>6. Range(r) \subseteq Range(q) \ {x}
  <2> SUFFICES ASSUME NEW i \in DOMAIN r PROVE r[i] \in Range(q) /\ r[i] # x
    BY DEF Range
  <2>1. r[i] = q[i + 1] /\ i + 1 \in DOMAIN q
    BY <1>4
  <2>2. q[i + 1] # q[1]
    BY <1>4 DEF IsInjective
  <2> QED BY <1>1, <2>1, <2>2 DEF Range
<1>7. ASSUME NEW y \in Range(q) \ {x} PROVE y \in Range(r)
  <2>1. PICK i \in 1..Len(q) : q[i] = y
    BY <1>3 DEF Range
  <2>2. i # 1 /\ i - 1 \in 1..(Len(q) - 1) /\ (i - 1) + 1 = i
    BY <1>1, <1>3, <2>1
  <2>3. r[i - 1] = y
    BY <1>2, <2>1, <2>2
  <2> QED BY <1>3, <2>2, <2>3 DEF Range
<1> QED BY <1>2, <1>5, <1>6, <1>7 DEF r

-----------------------------------------------------------------------------
(***************************************************************************)
(* The steps preserve the queues.                                          *)
(***************************************************************************)

LEMMA SameQueues ==
  ASSUME UNCHANGED tasks
  PROVE  Queued' = Queued /\ AtStreams' = AtStreams
BY DEF Queued, AtStreams, OfType, Job

LEMMA LocksKept ==
  ASSUME LocksInv, UNCHANGED <<loop, tasks, lockVars>>
  PROVE  LocksInv'
<1> USE DEF lockVars
<1>1. Queued' = Queued /\ AtStreams' = AtStreams /\ LoopQueued' = LoopQueued
  BY SameQueues DEF LoopQueued
<1> QED BY <1>1 DEF LocksInv, Owns

\* A new task has called no lock().
LEMMA SpawnQueues ==
  ASSUME NEW job, Spawn(job)
  PROVE  /\ Queued' = Queued /\ AtStreams' = AtStreams
         /\ \A t \in Queued \cup AtStreams : tasks'[t] = tasks[t]
<1>1. PICK new \in TaskIds \ DOMAIN tasks :
           /\ DOMAIN tasks' = DOMAIN tasks \cup {new}
           /\ tasks'[new].job = job /\ tasks'[new].at = "spawned"
           /\ \A t \in DOMAIN tasks : tasks'[t] = tasks[t]
  BY SpawnedTask
<1> QED BY <1>1 DEF Queued, AtStreams, OfType, Job

\* The loop gives the lock back.
LEMMA LoopUnlocks ==
  ASSUME LocksInv, JobsInv, NEW next \in {"top", "leaving"},
         loop \in {"waiting", "select"}, Owns(swarm, Loop),
         loop' = next, swarm' = Tail(swarm), streamsLock' = streamsLock,
         UNCHANGED tasks \/ \E job : Spawn(job)
  PROVE  LocksInv'
<1>1. /\ Queued' = Queued /\ AtStreams' = AtStreams
      /\ \A t \in Queued \cup AtStreams : tasks'[t] = tasks[t]
  <2>1. CASE UNCHANGED tasks
    BY <2>1, SameQueues DEF Queued, AtStreams
  <2> QED BY <2>1, SpawnQueues
<1>2. /\ swarm' \in Seq(Int) /\ IsInjective(swarm') /\ Range(swarm') = Range(swarm) \ {Loop}
  BY QueueShrinks DEF LocksInv
<1>3. Queued \subseteq TaskIds
  BY DEF Queued, JobsInv
<1>4. Range(swarm') = LoopQueued' \cup Queued'
  BY <1>1, <1>2, <1>3, LoopIsNoTask DEF LocksInv, LoopQueued
<1>5. \A t \in Queued : tasks[t].at \notin Holding
  BY <1>3, LoopIsNoTask DEF LocksInv, Owns
<1>6. \A t \in Queued' : tasks'[t].at \in Holding => Owns(swarm', t)
  BY <1>1, <1>5
<1>7. \A t \in AtStreams' : tasks'[t].at = "closing" => Owns(streamsLock', t)
  BY <1>1 DEF LocksInv
<1> QED BY <1>1, <1>2, <1>4, <1>6, <1>7 DEF LocksInv, Owns

\* The turn ends: the loop owns the lock.
LEMMA TurnLocks ==
  ASSUME LocksInv, JobsInv, NEW next \in {"top", "leaving"}, EndTurn(next),
         UNCHANGED tasks \/ \E job : Spawn(job)
  PROVE  LocksInv'
<1>1. loop = "select" /\ Owns(swarm, Loop) /\ loop' = next /\ swarm' = Tail(swarm)
      /\ streamsLock' = streamsLock
  BY DEF EndTurn, LocksInv
<1> QED BY <1>1, LoopUnlocks

LEMMA TakeLocks ==
  ASSUME LocksInv, JobsInv, TakeSwarm
  PROVE  LocksInv'
<1>1. /\ loop = "top" /\ loop' = "waiting" /\ swarm' = Append(swarm, Loop)
      /\ streamsLock' = streamsLock /\ tasks' = tasks
  BY DEF TakeSwarm
<1>2. Queued' = Queued /\ AtStreams' = AtStreams /\ Queued \subseteq TaskIds
  BY <1>1, SameQueues DEF Queued, JobsInv
<1>3. Loop \notin Range(swarm)
  BY <1>1, <1>2, LoopIsNoTask DEF LocksInv, LoopQueued
<1>4. /\ swarm' \in Seq(Int) /\ IsInjective(swarm') /\ Range(swarm') = Range(swarm) \cup {Loop}
      /\ \A y : Owns(swarm, y) => Owns(swarm', y)
  BY <1>1, <1>3, LoopIsNoTask, QueueGrows DEF LocksInv
<1>5. Range(swarm') = LoopQueued' \cup Queued'
  BY <1>1, <1>2, <1>4 DEF LocksInv, LoopQueued
<1> QED BY <1>1, <1>2, <1>4, <1>5 DEF LocksInv, Owns

LEMMA EnterLocks ==
  ASSUME LocksInv, EnterSelect
  PROVE  LocksInv'
<1>1. /\ loop = "waiting" /\ loop' = "select" /\ Owns(swarm, Loop) /\ tasks' = tasks
      /\ swarm' = swarm /\ streamsLock' = streamsLock
  BY DEF EnterSelect, lockVars
<1>2. Queued' = Queued /\ AtStreams' = AtStreams /\ LoopQueued' = LoopQueued
  BY <1>1, SameQueues DEF LoopQueued
<1> QED BY <1>1, <1>2 DEF LocksInv, Owns

\* With the JoinSet all queues are gone.
LEMMA LeaveLocks ==
  ASSUME Leave
  PROVE  LocksInv'
<1>1. loop' = "left" /\ tasks' = << >> /\ swarm' = << >> /\ streamsLock' = << >>
  BY DEF Leave
<1>2. Queued' = {} /\ AtStreams' = {} /\ LoopQueued' = {}
  BY <1>1 DEF Queued, AtStreams, LoopQueued
<1>3. << >> \in Seq(Int) /\ IsInjective(<< >>) /\ Range(<< >>) = {}
  BY DEF IsInjective, Range
<1> QED BY <1>1, <1>2, <1>3 DEF LocksInv

\* A task that calls lock() stands behind the others.
LEMMA MoveLocks ==
  ASSUME LocksInv, JobsInv, TasksInv,
         NEW t \in TaskIds, LockSwarm(t) \/ LockStreams(t)
  PROVE  LocksInv'
<1>1. t \in DOMAIN tasks /\ t # Loop /\ t \in Int
  BY LoopIsNoTask DEF LockSwarm, LockStreams, At
<1>2. ASSUME NEW place, Moves(t, place)
      PROVE  /\ DOMAIN tasks' = DOMAIN tasks /\ OfType("Inbound")' = OfType("Inbound")
             /\ tasks'[t].at = place /\ loop' = loop
             /\ \A u \in DOMAIN tasks : u # t => tasks'[u] = tasks[u]
  <2>1. /\ DOMAIN tasks' = DOMAIN tasks
        /\ tasks'[t].job = tasks[t].job /\ tasks'[t].at = place
        /\ \A u \in DOMAIN tasks : u # t => tasks'[u] = tasks[u]
    BY <1>1, <1>2, MovedTask
  <2> QED BY <1>2, <2>1 DEF OfType, Job, Moves
<1>3. CASE LockSwarm(t)
  <2>1. /\ tasks[t].at = "spawned" /\ t \notin OfType("Inbound") /\ Moves(t, "swarm")
        /\ swarm' = Append(swarm, t) /\ streamsLock' = streamsLock
    BY <1>3 DEF LockSwarm, At
  <2>2. /\ DOMAIN tasks' = DOMAIN tasks /\ OfType("Inbound")' = OfType("Inbound")
        /\ tasks'[t].at = "swarm" /\ loop' = loop
        /\ \A u \in DOMAIN tasks : u # t => tasks'[u] = tasks[u]
    BY <1>2, <2>1
  <2>3. t \notin Range(swarm)
    BY <1>1, <2>1 DEF LocksInv, LoopQueued, Queued
  <2>4. /\ swarm' \in Seq(Int) /\ IsInjective(swarm') /\ Range(swarm') = Range(swarm) \cup {t}
        /\ \A y : Owns(swarm, y) => Owns(swarm', y)
    BY <1>1, <2>1, <2>3, QueueGrows DEF LocksInv
  <2>5. Queued' = Queued \cup {t} /\ AtStreams' = AtStreams
    BY <1>1, <2>1, <2>2 DEF Queued, AtStreams
  <2>6. Range(swarm') = LoopQueued' \cup Queued'
    BY <2>2, <2>4, <2>5 DEF LocksInv, LoopQueued
  <2>7. \A u \in Queued' : tasks'[u].at \in Holding => Owns(swarm', u)
    <3> SUFFICES ASSUME NEW u \in Queued', tasks'[u].at \in Holding
                 PROVE  Owns(swarm', u)
      OBVIOUS
    <3>1. u # t /\ u \in Queued /\ tasks'[u] = tasks[u]
      BY <2>2, <2>5 DEF Queued, Holding
    <3> QED BY <2>4, <3>1 DEF LocksInv
  <2>8. loop' = "select" => Owns(swarm', Loop)
    BY <2>2, <2>4 DEF LocksInv
  <2>9. \A u \in AtStreams' : tasks'[u].at = "closing" => Owns(streamsLock', u)
    BY <2>1, <2>2, <2>5 DEF LocksInv, AtStreams
  <2> QED BY <2>1, <2>2, <2>4, <2>5, <2>6, <2>7, <2>8, <2>9 DEF LocksInv
<1>4. CASE LockStreams(t)
  <2>1. /\ Moves(t, "streams") /\ streamsLock' = Append(streamsLock, t) /\ swarm' = swarm
        /\ tasks[t].at \notin {"streams", "closing"}
        /\ \/ t \in OfType("Inbound")
           \/ t \in Queued /\ Owns(swarm, t)
    BY <1>4 DEF LockStreams, At, OwnsSwarm, OfType, Queued
  <2>2. /\ DOMAIN tasks' = DOMAIN tasks /\ OfType("Inbound")' = OfType("Inbound")
        /\ tasks'[t].at = "streams" /\ loop' = loop
        /\ \A u \in DOMAIN tasks : u # t => tasks'[u] = tasks[u]
    BY <1>2, <2>1
  <2>3. t \notin Range(streamsLock)
    BY <2>1 DEF LocksInv, AtStreams
  <2>4. /\ streamsLock' \in Seq(Int) /\ IsInjective(streamsLock')
        /\ Range(streamsLock') = Range(streamsLock) \cup {t}
        /\ \A y : Owns(streamsLock, y) => Owns(streamsLock', y)
    BY <1>1, <2>1, <2>3, QueueGrows DEF LocksInv
  <2>5. Queued' = Queued /\ AtStreams' = AtStreams \cup {t}
    BY <1>1, <2>1, <2>2 DEF Queued, AtStreams
  <2>6. Range(swarm') = LoopQueued' \cup Queued' /\ (loop' = "select" => Owns(swarm', Loop))
    BY <2>1, <2>2, <2>5 DEF LocksInv, LoopQueued, Owns
  <2>7. \A u \in Queued' : tasks'[u].at \in Holding => Owns(swarm', u)
    <3> SUFFICES ASSUME NEW u \in Queued', tasks'[u].at \in Holding
                 PROVE  Owns(swarm, u)
      BY <2>1
    <3>1. CASE u = t
      BY <2>1, <2>5, <3>1 DEF Queued
    <3>2. CASE u # t
      BY <2>2, <2>5, <3>2 DEF LocksInv, Queued
    <3> QED BY <3>1, <3>2
  <2>8. \A u \in AtStreams' : tasks'[u].at = "closing" => Owns(streamsLock', u)
    BY <2>2, <2>4, <2>5 DEF LocksInv, AtStreams
  <2> QED BY <2>1, <2>2, <2>4, <2>5, <2>6, <2>7, <2>8 DEF LocksInv
<1> QED BY <1>3, <1>4

\* A task that locks peers twice, or closes a stream, stands in no further queue.
LEMMA StayLocks ==
  ASSUME LocksInv, JobsInv, TasksInv, NEW t \in TaskIds, UNCHANGED lockVars,
         \/ Handles(t, "Discovered") /\ Moves(t, "peers")
         \/ Ready(t) /\ Moves(t, "closing")
  PROVE  LocksInv'
<1>1. /\ t \in DOMAIN tasks /\ t \notin OfType("Inbound")
      /\ Owns(swarm, t) /\ t \in Queued /\ loop' = loop
      /\ swarm' = swarm /\ streamsLock' = streamsLock
  BY DEF Handles, Ready, At, OfType, Queued, Holding, LocksInv, Moves, lockVars
<1>2. PICK place :
        /\ Moves(t, place)
        /\ \/ place = "peers" /\ tasks[t].at = "swarm"
           \/ place = "closing" /\ tasks[t].at = "streams" /\ Owns(streamsLock, t)
  BY DEF Handles, Ready, At
<1>3. /\ DOMAIN tasks' = DOMAIN tasks
      /\ tasks'[t].job = tasks[t].job /\ tasks'[t].at = place
      /\ \A u \in DOMAIN tasks : u # t => tasks'[u] = tasks[u]
  BY <1>1, <1>2, MovedTask
<1>4. OfType("Inbound")' = OfType("Inbound")
  BY <1>3 DEF OfType, Job
<1>5. Queued' = Queued /\ AtStreams' = AtStreams
  BY <1>1, <1>2, <1>3, <1>4 DEF Queued, AtStreams
<1>6. Range(swarm') = LoopQueued' \cup Queued' /\ (loop' = "select" => Owns(swarm', Loop))
  BY <1>1, <1>5 DEF LocksInv, LoopQueued, Owns
<1>7. \A u \in Queued' : tasks'[u].at \in Holding => Owns(swarm', u)
  <2> SUFFICES ASSUME NEW u \in Queued', tasks'[u].at \in Holding
               PROVE  Owns(swarm, u)
    BY <1>1
  <2>1. CASE u = t
    BY <1>1, <2>1
  <2>2. CASE u # t
    BY <1>3, <1>5, <2>2 DEF LocksInv, Queued
  <2> QED BY <2>1, <2>2
<1>8. \A u \in AtStreams' : tasks'[u].at = "closing" => Owns(streamsLock', u)
  BY <1>1, <1>2, <1>3, <1>5 DEF LocksInv, AtStreams
<1> QED BY <1>1, <1>5, <1>6, <1>7, <1>8 DEF LocksInv

\* A task ends as the owner of every lock it called for.
LEMMA EndLocks ==
  ASSUME LocksInv, JobsInv, NEW t \in TaskIds, t \in DOMAIN tasks, Ends(t),
         t \in Queued => Owns(swarm, t),
         t \in AtStreams => Owns(streamsLock, t)
  PROVE  LocksInv'
<1>1. /\ DOMAIN tasks' = DOMAIN tasks \ {t}
      /\ \A u \in DOMAIN tasks' : tasks'[u] = tasks[u]
  BY EndedTask
<1>2. /\ loop' = loop
      /\ swarm' = IF Owns(swarm, t) THEN Tail(swarm) ELSE swarm
      /\ streamsLock' = IF Owns(streamsLock, t) THEN Tail(streamsLock) ELSE streamsLock
  BY DEF Ends
<1>3. Queued' = Queued \ {t} /\ AtStreams' = AtStreams \ {t}
  BY <1>1 DEF Queued, AtStreams, OfType, Job
<1>4. t # Loop /\ LoopQueued' = LoopQueued /\ t \notin LoopQueued
  BY <1>2, LoopIsNoTask DEF LoopQueued
<1>5. /\ swarm' \in Seq(Int) /\ IsInjective(swarm') /\ Range(swarm') = Range(swarm) \ {t}
  <2>1. CASE Owns(swarm, t)
    BY <1>2, <2>1, QueueShrinks DEF LocksInv
  <2>2. CASE ~Owns(swarm, t)
    <3>1. t \notin Range(swarm)
      BY <1>4, <2>2 DEF LocksInv
    <3> QED BY <1>2, <2>2, <3>1 DEF LocksInv
  <2> QED BY <2>1, <2>2
<1>6. /\ streamsLock' \in Seq(Int) /\ IsInjective(streamsLock')
      /\ Range(streamsLock') = Range(streamsLock) \ {t}
  <2>1. CASE Owns(streamsLock, t)
    BY <1>2, <2>1, QueueShrinks DEF LocksInv
  <2>2. CASE ~Owns(streamsLock, t)
    <3>1. t \notin Range(streamsLock)
      BY <2>2 DEF LocksInv
    <3> QED BY <1>2, <2>2, <3>1 DEF LocksInv
  <2> QED BY <2>1, <2>2
<1>7. Range(swarm') = LoopQueued' \cup Queued' /\ Range(streamsLock') = AtStreams'
  BY <1>3, <1>4, <1>5, <1>6 DEF LocksInv
<1>8. \A y : y # t /\ Owns(swarm, y) => Owns(swarm', y)
  BY <1>2 DEF Owns
<1>9. \A u \in Queued' : tasks'[u].at \in Holding => Owns(swarm', u)
  <2> SUFFICES ASSUME NEW u \in Queued', tasks'[u].at \in Holding
               PROVE  Owns(swarm', u)
    OBVIOUS
  <2>1. u # t /\ u \in Queued /\ tasks'[u] = tasks[u]
    BY <1>1, <1>3 DEF Queued
  <2> QED BY <1>8, <2>1 DEF LocksInv
<1>10. loop' = "select" => Owns(swarm', Loop)
  BY <1>2, <1>4, <1>8 DEF LocksInv
<1>11. \A u \in AtStreams' : tasks'[u].at = "closing" => Owns(streamsLock', u)
  <2> SUFFICES ASSUME NEW u \in AtStreams', tasks'[u].at = "closing"
               PROVE  Owns(streamsLock', u)
    OBVIOUS
  <2>1. u # t /\ u \in AtStreams /\ tasks'[u] = tasks[u]
    BY <1>1, <1>3 DEF AtStreams
  <2>2. Owns(streamsLock, u)
    BY <2>1 DEF LocksInv
  <2> QED BY <1>2, <2>1, <2>2 DEF Owns
<1> QED BY <1>2, <1>5, <1>6, <1>7, <1>9, <1>10, <1>11 DEF LocksInv

\* The tasks that may end own what EndLocks asks for.
LEMMA HandlersOwn ==
  ASSUME LocksInv, NEW t \in TaskIds,
         (\E type \in {"Connected", "Discovered", "PeerExpired"} : Handles(t, type))
           \/ (At(t, "streams") /\ t \in OfType("Inbound") /\ Owns(streamsLock, t))
           \/ Ready(t) \/ At(t, "closing")
  PROVE  /\ t \in DOMAIN tasks
         /\ t \in Queued => Owns(swarm, t)
         /\ t \in AtStreams => Owns(streamsLock, t)
<1>1. CASE \E type \in {"Connected", "Discovered", "PeerExpired"} : Handles(t, type)
  BY <1>1 DEF Handles, At, AtStreams
<1>2. CASE At(t, "streams") /\ t \in OfType("Inbound") /\ Owns(streamsLock, t)
  BY <1>2 DEF At, Queued
<1>3. CASE Ready(t) \/ At(t, "closing")
  BY <1>3 DEF Ready, At, Queued, AtStreams, Holding, LocksInv
<1> QED BY <1>1, <1>2, <1>3

LEMMA LocksStep ==
  ASSUME LocksInv, JobsInv, TasksInv, [LoopNext]_loopVars
  PROVE  LocksInv'
<1>1. CASE UNCHANGED loopVars
  BY <1>1, LocksKept DEF loopVars
<1>2. CASE (\E command \in Commands : Call(command)) \/ StreamArrives
  BY <1>2, LocksKept DEF Call, StreamArrives
<1>3. CASE TakeSwarm \/ EnterSelect \/ Leave
  BY <1>3, TakeLocks, EnterLocks, LeaveLocks
<1>4. CASE AcceptFails
  BY <1>4, LoopUnlocks DEF AcceptFails
<1>5. CASE OnCommand \/ OnStream
  BY <1>5, TurnLocks DEF OnCommand, OnStream
<1>6. CASE OnExit \/ Panics
  BY <1>6, TurnLocks DEF OnExit, Panics
<1>7. CASE OnSwarmEvent
  <2>1. EndTurn("top") /\ (UNCHANGED tasks \/ \E job : Spawn(job))
    BY <1>7, EventSpawns DEF OnSwarmEvent
  <2> QED BY <2>1, TurnLocks
<1>8. ASSUME NEW t \in TaskIds, TaskStep(t)
      PROVE  LocksInv'
  <2>1. CASE LockSwarm(t) \/ LockStreams(t)
    BY <2>1, MoveLocks
  <2>2. CASE (HandleDiscovered(t) /\ ~Ends(t)) \/ StartsClosing(t)
    BY <2>2, StayLocks DEF HandleDiscovered, StartsClosing
  <2>3. CASE (HandleDiscovered(t) /\ Ends(t)) \/ HandleConnected(t) \/ HandlePeerExpired(t)
    <3>1. Ends(t) /\ \E type \in {"Connected", "Discovered", "PeerExpired"} : Handles(t, type)
      BY <2>3 DEF HandleDiscovered, HandleConnected, HandlePeerExpired
    <3> QED BY <3>1, HandlersOwn, EndLocks
  <2>4. CASE HandleInbound(t)
    BY <2>4, HandlersOwn, EndLocks DEF HandleInbound
  <2>5. CASE HandleCommand(t) \/ Transfer(t) \/ Closes(t)
    <3>1. (Ready(t) \/ At(t, "closing")) /\ Ends(t)
      BY <2>5 DEF HandleCommand, Transfer, Closes, Answers
    <3> QED BY <3>1, HandlersOwn, EndLocks
  <2> QED BY <1>8, <2>1, <2>2, <2>3, <2>4, <2>5 DEF TaskStep, Works
<1> QED BY <1>1, <1>2, <1>3, <1>4, <1>5, <1>6, <1>7, <1>8 DEF LoopNext, TaskStep

-----------------------------------------------------------------------------
(***************************************************************************)
(* The steps preserve the types.                                           *)
(***************************************************************************)

LEMMA ChannelStep ==
  ASSUME ChannelInv, JobsInv, TasksInv, [LoopNext]_loopVars
  PROVE  ChannelInv'
<1>1. CASE UNCHANGED channelVars
  BY <1>1 DEF ChannelInv, channelVars
<1>2. ASSUME NEW command \in Commands, Call(command)
      PROVE  ChannelInv'
  <2> DEFINE m == [type |-> "Command", id |-> calls + 1, command |-> command]
  <2>1. calls' = calls + 1 /\ commands' = Append(commands, m) /\ answered' = answered
    BY <1>2 DEF Call
  <2>2. m \in Sent /\ m.id = calls + 1
    BY DEF Sent, ChannelInv
  <2> HIDE DEF m
  <2>3. commands' \in Seq(Sent)
    BY <2>1, <2>2 DEF ChannelInv
  <2>4. ASSUME NEW i \in DOMAIN commands' PROVE commands'[i].id \in 1..calls'
    <3>1. (i \in DOMAIN commands /\ commands'[i] = commands[i]) \/ commands'[i] = m
      BY <2>1, <2>2, <2>4 DEF ChannelInv
    <3> QED BY <2>1, <2>2, <3>1 DEF ChannelInv
  <2> QED BY <2>1, <2>3, <2>4 DEF ChannelInv
<1>3. CASE OnCommand \/ OnExit
  <2>1. commands # << >> /\ commands' = Tail(commands) /\ calls' = calls
    BY <1>3 DEF OnCommand, OnExit
  <2>2. commands' \in Seq(Sent)
    BY <2>1 DEF ChannelInv
  <2>3. \A i \in DOMAIN commands' : i + 1 \in DOMAIN commands /\ commands'[i] = commands[i + 1]
    BY <2>1 DEF ChannelInv
  <2>4. 1 \in DOMAIN commands /\ Head(commands) = commands[1]
    BY <2>1 DEF ChannelInv
  <2>5. answered' \subseteq 1..calls
    BY <1>3, <2>4 DEF OnCommand, OnExit, ChannelInv
  <2> QED BY <2>1, <2>2, <2>3, <2>5 DEF ChannelInv
<1>4. ASSUME NEW t \in TaskIds, TaskStep(t)
      PROVE  ChannelInv'
  <2>1. CASE (Ready(t) \/ At(t, "closing")) /\ Answers(t)
    <3>1. t \in DOMAIN tasks /\ tasks[t].job.type = "Command"
      BY <2>1 DEF Ready, At, OfType, Job, TasksInv
    <3>2. Job(t).id \in 1..calls
      BY <3>1 DEF Job, JobsInv, Serves
    <3> QED BY <2>1, <3>2 DEF Answers, Ends, ChannelInv
  <2>2. CASE UNCHANGED channelVars
    BY <1>1, <2>2
  <2> QED BY <1>4, <2>1, <2>2 DEF TaskStep, Works, LockSwarm, LockStreams, Moves, Ends,
                                  HandleConnected, HandleDiscovered, HandlePeerExpired,
                                  HandleInbound, HandleCommand, StartsClosing, Transfer, Closes,
                                  channelVars
<1> QED BY <1>1, <1>2, <1>3, <1>4 DEF LoopNext, loopVars, StreamArrives, TakeSwarm, EnterSelect,
                                      AcceptFails, Panics, Leave, OnStream, OnSwarmEvent, TaskStep

LEMMA SpawnJobs ==
  ASSUME JobsInv, NEW job, Spawn(job), calls' = calls, Serves(job)
  PROVE  JobsInv'
<1>1. PICK new \in TaskIds \ DOMAIN tasks :
           /\ DOMAIN tasks' = DOMAIN tasks \cup {new}
           /\ tasks'[new].job = job /\ tasks'[new].at = "spawned"
           /\ \A t \in DOMAIN tasks : tasks'[t] = tasks[t]
  BY SpawnedTask
<1> QED BY <1>1 DEF JobsInv, Serves

LEMMA JobsStep ==
  ASSUME ChannelInv, JobsInv, RemotesInv, TasksInv, [LoopNext]_loopVars
  PROVE  JobsInv'
<1>1. CASE UNCHANGED <<tasks, calls>>
  BY <1>1 DEF JobsInv, Serves
<1>2. ASSUME NEW command \in Commands, Call(command)
      PROVE  JobsInv'
  BY <1>2 DEF Call, JobsInv, Serves, ChannelInv
<1>3. CASE OnCommand
  <2>1. 1 \in DOMAIN commands /\ Head(commands) = commands[1] /\ Head(commands) \in Sent
    BY <1>3 DEF OnCommand, ChannelInv
  <2>2. Serves(Head(commands))
    BY <2>1 DEF Serves, Sent, ChannelInv
  <2> QED BY <1>3, <2>2, SpawnJobs DEF OnCommand
<1>4. CASE OnStream
  BY <1>4, SpawnJobs DEF OnStream, Serves, channelVars
<1>5. CASE OnSwarmEvent
  <2>1. calls' = calls
    BY <1>5 DEF OnSwarmEvent, channelVars
  <2>2. CASE UNCHANGED tasks
    BY <1>1, <2>1, <2>2
  <2>3. ASSUME NEW p \in Remotes, Connected(p) PROVE JobsInv'
    BY <2>1, <2>3, SpawnJobs DEF Connected, Serves
  <2>4. ASSUME NEW p \in Remotes, PeerExpired(p) PROVE JobsInv'
    BY <2>1, <2>4, SpawnJobs DEF PeerExpired, Serves
  <2>5. ASSUME NEW via \in Remotes, NEW named \in SUBSET Remotes, Discovered(via, named)
        PROVE  JobsInv'
    BY <2>1, <2>5, SpawnJobs DEF Discovered, Serves
  <2> QED BY <1>5, <2>2, <2>3, <2>4, <2>5 DEF OnSwarmEvent, Unhandled
<1>6. CASE Leave
  BY <1>6 DEF Leave, JobsInv
<1>7. ASSUME NEW t \in TaskIds, TaskStep(t)
      PROVE  JobsInv'
  <2>1. CASE Ends(t)
    <3>1. calls' = calls
      BY <2>1 DEF Ends
    <3> QED BY <2>1, <3>1, EndedTask DEF JobsInv, Serves
  <2>2. ASSUME NEW place, Moves(t, place), t \in DOMAIN tasks
        PROVE  JobsInv'
    <3>1. calls' = calls
      BY <2>2 DEF Moves, channelVars
    <3>2. DOMAIN tasks' = DOMAIN tasks /\ \A u \in DOMAIN tasks : tasks'[u].job = tasks[u].job
      BY <2>2, MovedTask
    <3> QED BY <3>1, <3>2 DEF JobsInv, Serves
  <2> QED BY <1>7, <2>1, <2>2, TaskMovesOrEnds
<1> QED BY <1>1, <1>2, <1>3, <1>4, <1>5, <1>6, <1>7
        DEF LoopNext, loopVars, channelVars, StreamArrives, TakeSwarm, EnterSelect, AcceptFails,
            OnExit, Panics, TaskStep

\* The sets of peers hold peers.
LEMMA OneMoreIsMore ==
  ASSUME NEW requests \in [Remotes -> Nat], NEW S
  PROVE  OneMore(requests, S) \in [Remotes -> Nat]
BY DEF OneMore

LEMMA RemotesOfEvents ==
  ASSUME RemotesInv, Unhandled, UNCHANGED <<rendezvous_points, outrun, peers>>
  PROVE  RemotesInv'
<1> USE DEF RemotesInv, netVars
<1>1. found' = found
  BY DEF Unhandled
<1>2. CASE AddressesChange
  BY <1>1, <1>2, OneMoreIsMore DEF AddressesChange
<1>3. ASSUME NEW p \in Remotes, DialFails(p) \/ ConnectionCloses(p) \/ DiscoverFails(p)
      PROVE  RemotesInv'
  BY <1>1, <1>3 DEF DialFails, ConnectionCloses, DiscoverFails, clientVars
<1>4. ASSUME NEW p \in Remotes, RegisterEnds(p)
      PROVE  RemotesInv'
  <2>1. registers' \in [Remotes -> Nat]
    BY <1>4 DEF RegisterEnds
  <2>2. registered' \subseteq Remotes /\ missed' \subseteq Remotes
    BY <1>4 DEF RegisterEnds
  <2> QED BY <1>1, <1>4, <2>1, <2>2 DEF RegisterEnds
<1>5. ASSUME NEW p \in Remotes, DeregisterEnds(p)
      PROVE  RemotesInv'
  <2>1. withdrawals' \in [Remotes -> Nat]
    BY <1>5 DEF DeregisterEnds
  <2>2. registered' \subseteq Remotes /\ missed' \subseteq Remotes
    BY <1>5 DEF DeregisterEnds
  <2> QED BY <1>1, <1>5, <2>1, <2>2 DEF DeregisterEnds
<1>6. ASSUME NEW p \in Remotes, RegistrationExpired(p)
      PROVE  RemotesInv'
  BY <1>1, <1>6 DEF RegistrationExpired
<1>7. CASE UNCHANGED pollVars
  BY <1>1, <1>7 DEF pollVars, swarmVars, clientVars
<1> QED BY <1>2, <1>3, <1>4, <1>5, <1>6, <1>7 DEF Unhandled

LEMMA RemotesStep ==
  ASSUME JobsInv, RemotesInv, [LoopNext]_loopVars
  PROVE  RemotesInv'
<1> USE DEF RemotesInv, netVars, swarmVars, pointVars, clientVars, nodeVars
<1>1. CASE UNCHANGED loopVars
  BY <1>1 DEF loopVars
<1>2. CASE (\E command \in Commands : Call(command)) \/ StreamArrives
  BY <1>2 DEF Call, StreamArrives
<1>3. CASE TakeSwarm \/ EnterSelect \/ AcceptFails \/ Leave
  BY <1>3 DEF TakeSwarm, EnterSelect, AcceptFails, Leave
<1>4. CASE OnCommand \/ OnExit \/ OnStream \/ Panics
  BY <1>4 DEF OnCommand, OnExit, OnStream, Panics, EndTurn, pollVars
<1>5. CASE OnSwarmEvent
  <2>1. UNCHANGED <<rendezvous_points, outrun, peers>>
    BY <1>5 DEF OnSwarmEvent, EndTurn
  <2>2. ASSUME NEW p \in Remotes, Connected(p) PROVE RemotesInv'
    BY <2>1, <2>2 DEF Connected
  <2>3. ASSUME NEW p \in Remotes, PeerExpired(p) PROVE RemotesInv'
    BY <2>1, <2>3 DEF PeerExpired, Restrict
  <2>4. ASSUME NEW via \in Remotes, NEW named \in SUBSET Remotes, Discovered(via, named)
        PROVE  RemotesInv'
    BY <2>1, <2>4 DEF Discovered
  <2>5. CASE Unhandled
    BY <2>1, <2>5, RemotesOfEvents
  <2> QED BY <1>5, <2>2, <2>3, <2>4, <2>5 DEF OnSwarmEvent
<1>6. ASSUME NEW t \in TaskIds, TaskStep(t)
      PROVE  RemotesInv'
  <2>1. CASE LockSwarm(t) \/ LockStreams(t) \/ StartsClosing(t)
    BY <2>1 DEF LockSwarm, LockStreams, StartsClosing, Moves
  <2>2. CASE HandleConnected(t)
    <3>1. registers' \in [Remotes -> Nat] /\ missed' \subseteq Remotes
      BY <2>2, OneMoreIsMore DEF HandleConnected, PointOf
    <3> QED BY <2>2, <3>1 DEF HandleConnected, Ends
  <2>3. CASE HandleDiscovered(t)
    <3>1. Job(t).peers \subseteq Remotes
      BY <2>3 DEF HandleDiscovered, Handles, OfType, Job, JobsInv, Serves
    <3>2. \E S \in SUBSET Remotes : peers' = Recorded(t, S)
      BY <2>3, <3>1 DEF HandleDiscovered
    <3>3. DOMAIN peers' \subseteq Remotes
      BY <3>2 DEF Recorded
    <3>4. UNCHANGED <<pointVars, connected, querying, found>>
      BY <2>3 DEF HandleDiscovered, Ends, Moves
    <3> QED BY <3>3, <3>4
  <2>4. CASE HandlePeerExpired(t)
    <3>1. DOMAIN peers' \subseteq DOMAIN peers
      BY <2>4 DEF HandlePeerExpired
    <3>2. UNCHANGED <<pointVars, connected, querying, found>>
      BY <2>4 DEF HandlePeerExpired, Ends
    <3> QED BY <3>1, <3>2
  <2>5. CASE HandleInbound(t) \/ Transfer(t) \/ Closes(t)
    BY <2>5 DEF HandleInbound, Transfer, Closes, Answers, Ends
  <2>6. CASE HandleCommand(t)
    <3> DEFINE c == Asked(t)
    <3>1. UNCHANGED <<connected, found, peers>>
      BY <2>6 DEF HandleCommand, Answers, Ends
    <3>2. c \in Commands
      BY <2>6 DEF HandleCommand, Ready, At, OfType, Asked, Job, JobsInv, Serves
    <3>3. CASE AddRendezvous(c)
      <4>1. c.peer \in Remotes \cup {Nobody}
        BY <3>2, <3>3, EventLoopAssumption DEF AddRendezvous
      <4> QED BY <3>1, <3>3, <4>1 DEF AddRendezvous
    <3>4. CASE RemoveRendezvous(c)
      <4>1. c.peer \in Remotes
        BY <3>2, <3>4, EventLoopAssumption DEF RemoveRendezvous
      <4>2. withdrawals' \in [Remotes -> Nat]
        BY <3>4, OneMoreIsMore DEF RemoveRendezvous
      <4> QED BY <3>1, <3>4, <4>1, <4>2 DEF RemoveRendezvous
    <3>5. CASE UpdateRemotes(c)
      BY <3>1, <3>5 DEF UpdateRemotes
    <3>6. CASE OpenStream(c) \/ Subscribe(c) \/ Unsubscribe(c) \/ OnlyAnswers(c)
      BY <3>1, <3>6 DEF OpenStream, Subscribe, Unsubscribe, OnlyAnswers
    <3> QED BY <2>6, <3>3, <3>4, <3>5, <3>6 DEF HandleCommand
  <2> QED BY <1>6, <2>1, <2>2, <2>3, <2>4, <2>5, <2>6 DEF TaskStep, Works
<1> QED BY <1>1, <1>2, <1>3, <1>4, <1>5, <1>6 DEF LoopNext, TaskStep

-----------------------------------------------------------------------------
(***************************************************************************)
(* The bound of the streams.                                               *)
(***************************************************************************)

InFlight == Cardinality(OfType("Inbound"))
Coming == IF incoming THEN 1 ELSE 0

LEMMA SpawnCounts ==
  ASSUME JobsInv, NEW job, Spawn(job)
  PROVE  /\ job.type = "Inbound" => InFlight' = InFlight + 1
         /\ job.type # "Inbound" => InFlight' = InFlight
<1>1. PICK new \in TaskIds \ DOMAIN tasks :
           /\ DOMAIN tasks' = DOMAIN tasks \cup {new}
           /\ tasks'[new].job = job /\ tasks'[new].at = "spawned"
           /\ \A t \in DOMAIN tasks : tasks'[t] = tasks[t]
  BY SpawnedTask
<1>2. new \notin OfType("Inbound")
  BY DEF OfType
<1>3. CASE job.type = "Inbound"
  <2>1. OfType("Inbound")' = OfType("Inbound") \cup {new}
    BY <1>1, <1>3 DEF OfType, Job
  <2> QED BY <1>2, <1>3, <2>1, InboundFinite, FS_AddElement DEF InFlight
<1>4. CASE job.type # "Inbound"
  <2>1. OfType("Inbound")' = OfType("Inbound")
    BY <1>1, <1>4 DEF OfType, Job
  <2> QED BY <1>4, <2>1 DEF InFlight
<1> QED BY <1>3, <1>4

LEMMA EndCounts ==
  ASSUME JobsInv, NEW t, Ends(t)
  PROVE  /\ t \in OfType("Inbound") => InFlight' = InFlight - 1
         /\ t \notin OfType("Inbound") => InFlight' = InFlight
<1>1. OfType("Inbound")' = OfType("Inbound") \ {t}
  BY EndedTask DEF OfType, Job
<1>2. CASE t \in OfType("Inbound")
  BY <1>1, <1>2, InboundFinite, FS_RemoveElement DEF InFlight
<1>3. CASE t \notin OfType("Inbound")
  <2>1. OfType("Inbound")' = OfType("Inbound")
    BY <1>1, <1>3
  <2> QED BY <1>3, <2>1 DEF InFlight
<1> QED BY <1>2, <1>3

LEMMA MoveCounts ==
  ASSUME TasksInv, NEW t \in DOMAIN tasks, NEW place, Moves(t, place)
  PROVE  InFlight' = InFlight
<1>1. OfType("Inbound")' = OfType("Inbound")
  BY MovedTask DEF OfType, Job
<1> QED BY <1>1 DEF InFlight

LEMMA Counting ==
  ASSUME JobsInv
  PROVE  /\ InFlight \in Nat
         /\ Streaming = opened + InFlight + Coming
BY InboundFinite, FS_CardinalityType DEF InFlight, Coming, Streaming

LEMMA ComingCounts ==
  ASSUME incoming \in BOOLEAN, incoming' \in BOOLEAN
  PROVE  /\ Coming \in {0, 1} /\ Coming' \in {0, 1}
         /\ incoming' = incoming => Coming' = Coming
         /\ incoming = FALSE => Coming = 0
         /\ incoming = TRUE => Coming = 1
         /\ incoming' = FALSE => Coming' = 0
         /\ incoming' = TRUE => Coming' = 1
BY DEF Coming

\* A step that opens no stream, and brings none on its way.
LEMMA BoundKept ==
  ASSUME BoundInv, JobsInv, JobsInv', UNCHANGED <<streams, opened>>,
         InFlight' <= InFlight, incoming' \in {incoming, FALSE}
  PROVE  BoundInv'
<1>1. /\ InFlight \in Nat /\ InFlight' \in Nat
      /\ Streaming = opened + InFlight + Coming
      /\ Streaming' = opened' + InFlight' + Coming'
  <2>1. JobsInv => InFlight \in Nat /\ Streaming = opened + InFlight + Coming
    BY Counting
  <2>2. (JobsInv => InFlight \in Nat
                    /\ Streaming = opened + InFlight + Coming)'
    BY Counting, PTL
  <2> QED BY <2>1, <2>2
<1>2. opened' = opened /\ streams' = streams /\ incoming' \in BOOLEAN
  BY DEF BoundInv
<1>3. Streaming <= MaxStreams /\ opened \in Nat /\ MaxStreams \in Nat
  BY EventLoopAssumption DEF BoundInv
<1>4. Coming \in {0, 1} /\ (Coming' = Coming \/ Coming' = 0)
  <2>1. incoming' = incoming \/ incoming' = FALSE
    OBVIOUS
  <2> QED BY <1>2, <2>1, ComingCounts DEF BoundInv
<1>5. Streaming' <= MaxStreams
  <2>1. InFlight' <= InFlight
    OBVIOUS
  <2> HIDE DEF BoundInv
  <2> QED BY <1>1, <1>2, <1>3, <1>4, <2>1
<1> QED BY <1>2, <1>5 DEF BoundInv

\* A stream enters the table: it was on its way, or there is room for it.
LEMMA BoundOpens ==
  ASSUME BoundInv, JobsInv, JobsInv', Opens, incoming' = incoming,
         \/ InFlight' = InFlight - 1
         \/ InFlight' = InFlight /\ Streaming < MaxStreams
  PROVE  BoundInv'
<1>1. JobsInv => InFlight \in Nat /\ Streaming = opened + InFlight + Coming
  BY Counting
<1>2. (JobsInv => InFlight \in Nat /\ Streaming = opened + InFlight + Coming)'
  BY Counting, PTL
<1>3. opened' = opened + 1 /\ streams' = streams \cup {opened + 1}
  BY DEF Opens
<1>4. /\ opened \in Nat /\ MaxStreams \in Nat /\ Streaming <= MaxStreams
      /\ incoming \in BOOLEAN
  BY EventLoopAssumption DEF BoundInv
<1>5. Coming \in Nat /\ Coming' = Coming
  BY <1>4, ComingCounts
<1>6. Streaming' <= MaxStreams
  BY <1>1, <1>2, <1>3, <1>4, <1>5
<1> QED BY <1>3, <1>4, <1>6 DEF BoundInv

LEMMA BoundStep ==
  ASSUME ChannelInv, BoundInv, JobsInv, JobsInv', TasksInv, [LoopNext]_loopVars
  PROVE  BoundInv'
<1>1. InFlight \in Nat /\ Streaming = opened + InFlight + Coming
  BY Counting
<1>2. (JobsInv => InFlight \in Nat /\ Streaming = opened + InFlight + Coming)'
  BY Counting, PTL
<1>3. MaxStreams \in Nat /\ opened \in Nat /\ incoming \in BOOLEAN
  BY EventLoopAssumption DEF BoundInv
<1>4. CASE UNCHANGED <<tasks, streams, opened>> /\ incoming' \in {incoming, FALSE}
  <2>1. InFlight' = InFlight
    BY <1>4 DEF InFlight, OfType, Job
  <2>2. InFlight' <= InFlight
    BY <1>1, <2>1
  <2>3. UNCHANGED <<streams, opened>> /\ incoming' \in {incoming, FALSE}
    BY <1>4
  <2> QED BY <2>2, <2>3, BoundKept
<1>5. CASE StreamArrives
  <2>1. /\ incoming = FALSE /\ incoming' = TRUE /\ Streaming < MaxStreams
        /\ tasks' = tasks /\ opened' = opened /\ streams' = streams
    BY <1>3, <1>5 DEF StreamArrives, nodeVars, streamVars
  <2>2. InFlight' = InFlight
    BY <2>1 DEF InFlight, OfType, Job
  <2>3. Coming = 0 /\ Coming' = 1
    BY <2>1, ComingCounts
  <2>4. Streaming' <= MaxStreams
    BY <1>1, <1>2, <1>3, <2>1, <2>2, <2>3
  <2> QED BY <2>1, <2>4 DEF BoundInv
<1>6. CASE OnStream
  <2>1. /\ incoming = TRUE /\ incoming' = FALSE /\ Spawn([type |-> "Inbound"])
        /\ opened' = opened /\ streams' = streams
    BY <1>3, <1>6 DEF OnStream, EndTurn, streamVars
  <2>2. InFlight' = InFlight + 1
    BY <2>1, SpawnCounts
  <2>3. Coming = 1 /\ Coming' = 0
    BY <2>1, ComingCounts
  <2>4. Streaming' <= MaxStreams
    BY <1>1, <1>2, <1>3, <2>1, <2>2, <2>3 DEF BoundInv
  <2> QED BY <2>1, <2>4 DEF BoundInv
<1>7. CASE OnCommand \/ OnSwarmEvent
  <2>1. UNCHANGED <<streams, opened>> /\ incoming' = FALSE
    BY <1>7 DEF OnCommand, OnSwarmEvent, EndTurn, streamVars
  <2>2. UNCHANGED tasks \/ \E job : Spawn(job) /\ job.type # "Inbound"
    <3>1. CASE OnCommand
      <4>1. commands # << >> /\ Spawn(Head(commands))
        BY <3>1 DEF OnCommand
      <4>2. Head(commands) \in Sent
        BY <4>1 DEF ChannelInv
      <4> QED BY <4>1, <4>2 DEF Sent
    <3> QED BY <1>7, <3>1, EventSpawns
  <2>3. InFlight' <= InFlight
    <3>1. CASE UNCHANGED tasks
      BY <1>1, <3>1 DEF InFlight, OfType, Job
    <3> QED BY <1>1, <2>2, <3>1, SpawnCounts
  <2> QED BY <2>1, <2>3, BoundKept
<1>8. CASE Leave
  <2>1. UNCHANGED <<streams, opened, incoming>> /\ tasks' = << >>
    BY <1>8 DEF Leave, nodeVars, streamVars
  <2>2. InFlight' = 0
    <3>1. OfType("Inbound")' = {}
      BY <2>1 DEF OfType
    <3> QED BY <3>1, FS_EmptySet DEF InFlight
  <2> QED BY <1>1, <2>1, <2>2, BoundKept
<1>9. ASSUME NEW t \in TaskIds, TaskStep(t)
      PROVE  BoundInv'
  <2>1. incoming' = incoming
    BY <1>9, TaskMovesOrEnds DEF Ends, Moves
  <2>2. CASE (LockSwarm(t) \/ LockStreams(t) \/ (HandleDiscovered(t) /\ ~Ends(t)))
    <3>1. t \in DOMAIN tasks /\ (\E place : Moves(t, place)) /\ UNCHANGED <<streams, opened>>
      BY <2>2 DEF LockSwarm, LockStreams, HandleDiscovered, Handles, At, nodeVars, streamVars
    <3>2. InFlight' = InFlight
      BY <3>1, MoveCounts
    <3> QED BY <1>1, <2>1, <3>1, <3>2, BoundKept
  <2>3. CASE StartsClosing(t)
    <3>1. InFlight' = InFlight /\ opened' = opened /\ streams' \subseteq streams
      BY <2>3, MoveCounts DEF StartsClosing, Ready, At, Removes
    <3>2. Streaming' <= MaxStreams
      BY <1>1, <1>2, <2>1, <3>1 DEF BoundInv, Coming
    <3> QED BY <1>3, <2>1, <3>1, <3>2 DEF BoundInv
  <2>4. CASE Ends(t) /\ UNCHANGED <<streams, opened>>
    <3>1. InFlight' <= InFlight
      BY <1>1, <2>4, EndCounts
    <3> QED BY <2>1, <2>4, <3>1, BoundKept
  <2>5. CASE HandleInbound(t)
    <3>1. Opens /\ InFlight' = InFlight - 1
      BY <2>5, EndCounts DEF HandleInbound
    <3> QED BY <2>1, <3>1, BoundOpens
  <2>6. CASE HandleCommand(t)
    <3>1. Ends(t) /\ InFlight' = InFlight
      BY <2>6, EndCounts DEF HandleCommand, Ready, OfType, Answers
    <3>2. CASE Streaming < MaxStreams /\ Opens
      BY <2>1, <3>1, <3>2, BoundOpens
    <3>3. CASE UNCHANGED streamVars
      BY <2>4, <3>1, <3>3 DEF streamVars
    <3> QED BY <2>6, <3>2, <3>3
            DEF HandleCommand, OpenStream, Subscribe, Unsubscribe, AddRendezvous, RemoveRendezvous,
                UpdateRemotes, OnlyAnswers
  <2>7. CASE (HandleDiscovered(t) /\ Ends(t)) \/ HandleConnected(t) \/ HandlePeerExpired(t)
             \/ Transfer(t) \/ Closes(t)
    BY <2>4, <2>7 DEF HandleDiscovered, HandleConnected, HandlePeerExpired, Transfer, Closes,
                      Answers, streamVars
  <2> QED BY <1>9, <2>2, <2>3, <2>5, <2>6, <2>7 DEF TaskStep, Works
<1> QED BY <1>4, <1>5, <1>6, <1>7, <1>8, <1>9
        DEF LoopNext, loopVars, nodeVars, streamVars, Call, TakeSwarm, EnterSelect, AcceptFails,
            OnExit, Panics, EndTurn, TaskStep

LEMMA LoopInvInit == LoopInit => LoopInv
<1> SUFFICES ASSUME LoopInit PROVE LoopInv
  OBVIOUS
<1> USE DEF LoopInit
<1>1. ChannelInv
  BY DEF ChannelInv, Sent
<1>2. JobsInv
  BY DEF JobsInv
<1>3. OfType("Inbound") = {} /\ Queued = {} /\ AtStreams = {} /\ LoopQueued = {}
  BY DEF OfType, Queued, AtStreams, LoopQueued
<1>4. BoundInv
  <2>1. Streaming = 0
    <3>1. Cardinality(OfType("Inbound")) = 0
      BY <1>3, FS_EmptySet
    <3> HIDE DEF LoopInit
    <3>2. opened = 0 /\ incoming = FALSE
      BY DEF LoopInit
    <3> QED BY <3>1, <3>2 DEF Streaming
  <2>2. streams \subseteq 1..opened /\ opened \in Nat
    OBVIOUS
  <2>3. incoming \in BOOLEAN
    OBVIOUS
  <2>4. Streaming <= MaxStreams
    BY <2>1, EventLoopAssumption
  <2> QED BY <2>2, <2>3, <2>4 DEF BoundInv
<1>5. LocksInv
  <2>1. << >> \in Seq(Int) /\ IsInjective(<< >>) /\ Range(<< >>) = {}
    BY DEF IsInjective, Range
  <2> QED BY <1>3, <2>1 DEF LocksInv
<1>6. RemotesInv
  BY EventLoopAssumption DEF RemotesInv
<1> QED BY <1>1, <1>2, <1>4, <1>5, <1>6 DEF LoopInv

LEMMA LoopStep ==
  ASSUME LoopInv, TasksInv, [LoopNext]_loopVars
  PROVE  LoopInv'
<1>1. ChannelInv' /\ JobsInv' /\ LocksInv' /\ RemotesInv'
  BY ChannelStep, JobsStep, LocksStep, RemotesStep DEF LoopInv
<1>2. BoundInv'
  BY <1>1, BoundStep DEF LoopInv
<1> QED BY <1>1, <1>2 DEF LoopInv

LEMMA LoopInvariant == LoopSpec => [](LoopInv /\ TasksInv)
<1>1. LoopInit => TasksInv
  BY DEF LoopInit, TasksInv
<1>2. TasksInv /\ [LoopNext]_loopVars => TasksInv'
  BY TasksStep
<1>3. LoopInv /\ TasksInv /\ [LoopNext]_loopVars => LoopInv'
  BY LoopStep
<1> QED BY <1>1, <1>2, <1>3, LoopInvInit, PTL DEF LoopSpec

\* The types, and the queues of the two locks: every task that called lock() and
\* has not ended stands in the queue once, and no command waits for the streams or
\* closes one, no task waits for itself and the loop does not listen, but as the
\* owner of the swarm (network.rs 134-151, 224-226, 258-279, 401-457).
THEOREM LoopTypeCorrect == LoopSpec => []EventLoopTypeOK
<1>1. ASSUME LoopInv PROVE EventLoopTypeOK
  <2>1. \A t \in DOMAIN tasks : Job(t).type \in {"Command", "Inbound", "Connected", "Discovered",
                                                 "PeerExpired"}
    BY <1>1 DEF LoopInv, JobsInv, Serves, Job
  <2>2. Range(streamsLock) = {t \in DOMAIN tasks : At(t, "streams") \/ At(t, "closing")}
    BY <1>1 DEF LoopInv, LocksInv, AtStreams, At
  <2>3. Range(swarm) = (IF loop \in {"waiting", "select"} THEN {Loop} ELSE {})
                         \cup {t \in DOMAIN tasks \ OfType("Inbound") : ~At(t, "spawned")}
    BY <1>1 DEF LoopInv, LocksInv, LoopQueued, Queued, At
  <2>4. \A t \in DOMAIN tasks \ OfType("Inbound") :
          At(t, "streams") \/ At(t, "closing") \/ At(t, "peers") => Owns(swarm, t)
    BY <1>1 DEF LoopInv, LocksInv, Queued, Holding, At
  <2>5. opened <= MaxStreams
    <3>1. InFlight \in Nat /\ Streaming = opened + InFlight + Coming
      BY <1>1, Counting DEF LoopInv
    <3>2. Coming \in {0, 1}
      BY DEF Coming
    <3>3. MaxStreams \in Nat /\ opened \in Nat /\ Streaming <= MaxStreams
      BY <1>1, EventLoopAssumption DEF LoopInv, BoundInv
    <3> QED BY <3>1, <3>2, <3>3
  <2> QED BY <1>1, <2>1, <2>2, <2>3, <2>4, <2>5
          DEF EventLoopTypeOK, LoopInv, ChannelInv, JobsInv, BoundInv, LocksInv, RemotesInv
<1>2. LoopInv => EventLoopTypeOK
  BY <1>1
<1> QED BY <1>2, LoopInvariant, PTL

-----------------------------------------------------------------------------
(***************************************************************************)
(* The table of streams.                                                   *)
(***************************************************************************)

\* The ids given so far bound the ids in use: a new stream is neither closed,
\* nor being closed, nor broken.
StreamInv == /\ StreamsAreAnnounced
             /\ opened \in Nat
             /\ broken \subseteq 1..opened
             /\ Closing \subseteq 1..opened
             /\ \A e \in events : e.stream \in 1..opened

LEMMA StreamsKept ==
  ASSUME StreamInv, UNCHANGED streamVars, Closing' = Closing
  PROVE  StreamInv'
BY DEF StreamInv, StreamsAreAnnounced, streamVars

ClosingTasks == {t \in DOMAIN tasks : tasks[t].at = "closing"}

\* The streams being closed stay the same beside a new task, and while a task
\* that closes none moves on or ends.
LEMMA SameClosing ==
  ASSUME ClosingTasks' = ClosingTasks,
         \A t \in ClosingTasks : tasks'[t].job = tasks[t].job
  PROVE  Closing' = Closing
<1>1. \A s : s \in Closing <=> \E t \in ClosingTasks : s = tasks[t].job.command.stream
  BY DEF Closing, ClosingTasks, At, Asked, Job
<1>2. \A s : s \in Closing' <=> \E t \in ClosingTasks' : s = tasks'[t].job.command.stream
  BY DEF Closing, ClosingTasks, At, Asked, Job
<1> QED BY <1>1, <1>2

\* An event adds its stream to those told of by its type, and by no other.
LEMMA ToldOfOneMore ==
  ASSUME NEW E, NEW e, NEW type
  PROVE  /\ e.type = type => Told(E \cup {e}, type) = Told(E, type) \cup {e.stream}
         /\ e.type # type => Told(E \cup {e}, type) = Told(E, type)
<1>1. CASE e.type = type
  <2>1. {d \in E \cup {e} : d.type = type} = {d \in E : d.type = type} \cup {e}
    BY <1>1
  <2> QED BY <1>1, <2>1 DEF Told
<1>2. CASE e.type # type
  <2>1. {d \in E \cup {e} : d.type = type} = {d \in E : d.type = type}
    BY <1>2
  <2> QED BY <1>2, <2>1 DEF Told
<1> QED BY <1>1, <1>2

LEMMA StreamOpened ==
  ASSUME StreamInv, Opens, Closing' = Closing
  PROVE  StreamInv'
<1> DEFINE new == opened + 1
           e == [type |-> "StreamOpened", stream |-> new]
<1>1. opened' = new /\ streams' = streams \cup {new} /\ broken' = broken
      /\ events' = events \cup {e}
  BY DEF Opens
<1>2. e.type = "StreamOpened" /\ e.stream = new /\ e.type # "StreamClosed"
  OBVIOUS
<1>3. opened \in Nat /\ new \in 1..new /\ 1..opened \subseteq 1..new /\ new \notin 1..opened
  BY DEF StreamInv
<1> HIDE DEF e, new
<1>4. /\ Told(events', "StreamOpened") = Told(events, "StreamOpened") \cup {new}
      /\ Told(events', "StreamClosed") = Told(events, "StreamClosed")
  BY <1>1, <1>2, ToldOfOneMore
<1>5. new \notin Told(events, "StreamClosed") \cup Closing \cup broken
  BY <1>3 DEF StreamInv, Told
<1>6. StreamsAreAnnounced'
  BY <1>1, <1>4, <1>5 DEF StreamInv, StreamsAreAnnounced
<1> QED BY <1>1, <1>2, <1>3, <1>6 DEF StreamInv, new

LEMMA SpawnCloses ==
  ASSUME NEW job, Spawn(job)
  PROVE  Closing' = Closing
<1>1. PICK new \in TaskIds \ DOMAIN tasks :
           /\ DOMAIN tasks' = DOMAIN tasks \cup {new}
           /\ tasks'[new].job = job /\ tasks'[new].at = "spawned"
           /\ \A t \in DOMAIN tasks : tasks'[t] = tasks[t]
  BY SpawnedTask
<1>2. ClosingTasks' = ClosingTasks /\ \A t \in ClosingTasks : tasks'[t].job = tasks[t].job
  BY <1>1 DEF ClosingTasks
<1> QED BY <1>2, SameClosing

\* A task that is not closing and moves to another place.
LEMMA MoveCloses ==
  ASSUME TasksInv, NEW t \in DOMAIN tasks, tasks[t].at # "closing", NEW place, Moves(t, place)
  PROVE  /\ place # "closing" => Closing' = Closing
         /\ place = "closing" => Closing' = Closing \cup {Asked(t).stream}
<1>1. /\ DOMAIN tasks' = DOMAIN tasks
      /\ tasks'[t].job = tasks[t].job /\ tasks'[t].at = place
      /\ \A u \in DOMAIN tasks : u # t => tasks'[u] = tasks[u]
  BY MovedTask
<1>2. CASE place # "closing"
  <2>1. ClosingTasks' = ClosingTasks /\ \A u \in ClosingTasks : tasks'[u].job = tasks[u].job
    BY <1>1, <1>2 DEF ClosingTasks
  <2> QED BY <1>2, <2>1, SameClosing
<1>3. CASE place = "closing"
  <2>1. ClosingTasks' = ClosingTasks \cup {t} /\ t \notin ClosingTasks
    BY <1>1, <1>3 DEF ClosingTasks
  <2>2. \A u \in ClosingTasks' : tasks'[u].job = tasks[u].job
    BY <1>1, <2>1 DEF ClosingTasks
  <2>3. \A s : s \in Closing <=> \E u \in ClosingTasks : s = tasks[u].job.command.stream
    BY DEF Closing, ClosingTasks, At, Asked, Job
  <2>4. \A s : s \in Closing' <=> \E u \in ClosingTasks' : s = tasks'[u].job.command.stream
    BY DEF Closing, ClosingTasks, At, Asked, Job
  <2>5. Asked(t).stream = tasks[t].job.command.stream
    BY DEF Asked, Job
  <2> QED BY <1>3, <2>1, <2>2, <2>3, <2>4, <2>5
<1> QED BY <1>2, <1>3

LEMMA EndCloses ==
  ASSUME NEW t \in DOMAIN tasks, Ends(t)
  PROVE  /\ tasks[t].at # "closing" => Closing' = Closing
         /\ tasks[t].at = "closing" => /\ Asked(t).stream \in Closing
                                       /\ Closing' \subseteq Closing
                                       /\ Closing \subseteq Closing' \cup {Asked(t).stream}
<1>1. /\ DOMAIN tasks' = DOMAIN tasks \ {t}
      /\ \A u \in DOMAIN tasks' : tasks'[u] = tasks[u]
  BY EndedTask
<1>2. CASE tasks[t].at # "closing"
  <2>1. ClosingTasks' = ClosingTasks /\ \A u \in ClosingTasks : tasks'[u].job = tasks[u].job
    BY <1>1, <1>2 DEF ClosingTasks
  <2> QED BY <1>2, <2>1, SameClosing
<1>3. CASE tasks[t].at = "closing"
  <2>1. /\ t \in ClosingTasks /\ ClosingTasks' = ClosingTasks \ {t}
        /\ \A u \in ClosingTasks' : tasks'[u].job = tasks[u].job
    BY <1>1, <1>3 DEF ClosingTasks
  <2>2. \A s : s \in Closing <=> \E u \in ClosingTasks : s = tasks[u].job.command.stream
    BY DEF Closing, ClosingTasks, At, Asked, Job
  <2>3. \A s : s \in Closing' <=> \E u \in ClosingTasks' : s = tasks'[u].job.command.stream
    BY DEF Closing, ClosingTasks, At, Asked, Job
  <2>4. Asked(t).stream = tasks[t].job.command.stream
    BY DEF Asked, Job
  <2> QED BY <1>3, <2>1, <2>2, <2>3, <2>4
<1> QED BY <1>2, <1>3

\* A stream leaves the table, and its closing begins.
LEMMA StreamLeaves ==
  ASSUME StreamInv, TasksInv, NEW t \in TaskIds, StartsClosing(t)
  PROVE  StreamInv'
<1> DEFINE id == Asked(t).stream
<1>1. t \in DOMAIN tasks /\ tasks[t].at # "closing" /\ Moves(t, "closing")
  BY DEF StartsClosing, Ready, At
<1>2. Closing' = Closing \cup {id}
  BY <1>1, MoveCloses
<1>3. /\ id \in streams /\ streams' = streams \ {id}
      /\ opened' = opened /\ events' = events /\ broken' = broken
  BY DEF StartsClosing, Knows, Removes
<1>4. id \in 1..opened
  <2>1. id \in Told(events, "StreamOpened")
    BY <1>3 DEF StreamInv, StreamsAreAnnounced
  <2>2. PICK d \in events : d.stream = id
    BY <2>1 DEF Told
  <2> QED BY <2>2 DEF StreamInv
<1>5. StreamsAreAnnounced'
  BY <1>2, <1>3 DEF StreamInv, StreamsAreAnnounced
<1> QED BY <1>2, <1>3, <1>4, <1>5 DEF StreamInv

\* Its closing ends: its end is announced, or it is broken.
LEMMA StreamCloses ==
  ASSUME StreamInv, NEW t \in TaskIds, Closes(t)
  PROVE  StreamInv'
<1> DEFINE id == Asked(t).stream
           e == [type |-> "StreamClosed", stream |-> id]
<1>1. t \in DOMAIN tasks /\ tasks[t].at = "closing" /\ Ends(t)
  BY DEF Closes, At, Answers
<1>2. id \in Closing /\ Closing' \subseteq Closing /\ Closing \subseteq Closing' \cup {id}
  BY <1>1, EndCloses
<1>3. /\ streams' = streams /\ opened' = opened
      /\ \/ events' = events \cup {e} /\ broken' = broken
         \/ broken' = broken \cup {id} /\ events' = events
  BY DEF Closes
<1>4. id \in 1..opened
  BY <1>2 DEF StreamInv
<1>5. CASE events' = events \cup {e} /\ broken' = broken
  <2>1. e.type = "StreamClosed" /\ e.stream = id /\ e.type # "StreamOpened"
    OBVIOUS
  <2> HIDE DEF e, id
  <2>2. Told(events', "StreamOpened") = Told(events, "StreamOpened")
    <3>1. e.type # "StreamOpened"
      BY <2>1
    <3>2. Told(events \cup {e}, "StreamOpened") = Told(events, "StreamOpened")
      BY <3>1, ToldOfOneMore
    <3>3. events' = events \cup {e}
      BY <1>5
    <3> QED BY <3>2, <3>3
  <2>3. Told(events', "StreamClosed") = Told(events, "StreamClosed") \cup {id}
    BY <1>5, <2>1, ToldOfOneMore
  <2>4. StreamsAreAnnounced'
    BY <1>2, <1>3, <1>5, <2>2, <2>3 DEF StreamInv, StreamsAreAnnounced
  <2> QED BY <1>2, <1>3, <1>4, <1>5, <2>1, <2>4 DEF StreamInv
<1>6. CASE broken' = broken \cup {id} /\ events' = events
  <2>1. StreamsAreAnnounced'
    BY <1>2, <1>3, <1>6 DEF StreamInv, StreamsAreAnnounced
  <2> QED BY <1>2, <1>3, <1>4, <1>6, <2>1 DEF StreamInv
<1> QED BY <1>3, <1>5, <1>6

LEMMA StreamStep ==
  ASSUME StreamInv, TasksInv, [LoopNext]_loopVars
  PROVE  StreamInv'
<1>1. CASE UNCHANGED <<tasks, streamVars>>
  <2>1. Closing' = Closing
    BY <1>1, SameClosing DEF ClosingTasks
  <2> QED BY <1>1, <2>1, StreamsKept
<1>2. ASSUME NEW job, Spawn(job), UNCHANGED streamVars PROVE StreamInv'
  BY <1>2, SpawnCloses, StreamsKept
<1>3. CASE OnCommand \/ OnStream
  BY <1>2, <1>3 DEF OnCommand, OnStream, EndTurn
<1>4. CASE OnSwarmEvent
  <2>1. UNCHANGED streamVars
    BY <1>4 DEF OnSwarmEvent, EndTurn
  <2> QED BY <1>1, <1>2, <1>4, <2>1, EventSpawns
<1>5. CASE Leave
  <2>1. /\ broken' = broken \cup Closing /\ tasks' = << >>
        /\ streams' = streams /\ opened' = opened /\ events' = events
    BY <1>5 DEF Leave
  <2>2. Closing' = {}
    BY <2>1 DEF Closing, At
  <2> QED BY <2>1, <2>2 DEF StreamInv, StreamsAreAnnounced
<1>6. ASSUME NEW t \in TaskIds, TaskStep(t)
      PROVE  StreamInv'
  <2>1. CASE LockSwarm(t) \/ LockStreams(t) \/ (HandleDiscovered(t) /\ ~Ends(t))
    <3>1. /\ t \in DOMAIN tasks /\ tasks[t].at # "closing" /\ UNCHANGED streamVars
          /\ \E place : Moves(t, place) /\ place # "closing"
      BY <2>1 DEF LockSwarm, LockStreams, HandleDiscovered, Handles, At, nodeVars
    <3> QED BY <3>1, MoveCloses, StreamsKept
  <2>2. CASE StartsClosing(t)
    BY <2>2, StreamLeaves
  <2>3. CASE Closes(t)
    BY <2>3, StreamCloses
  <2>4. ASSUME t \in DOMAIN tasks, tasks[t].at # "closing", Ends(t), UNCHANGED streamVars \/ Opens
        PROVE  StreamInv'
    BY <2>4, EndCloses, StreamsKept, StreamOpened
  <2>5. CASE HandleConnected(t) \/ HandlePeerExpired(t) \/ (HandleDiscovered(t) /\ Ends(t))
    BY <2>4, <2>5 DEF HandleConnected, HandlePeerExpired, HandleDiscovered, Handles, At
  <2>6. CASE HandleInbound(t) \/ Transfer(t)
    BY <2>4, <2>6 DEF HandleInbound, Transfer, Ready, At, Answers
  <2>7. CASE HandleCommand(t)
    <3>1. t \in DOMAIN tasks /\ tasks[t].at # "closing" /\ Ends(t)
      BY <2>7 DEF HandleCommand, Ready, At, Answers
    <3>2. UNCHANGED streamVars \/ Opens
      BY <2>7 DEF HandleCommand, OpenStream, Subscribe, Unsubscribe, AddRendezvous,
                  RemoveRendezvous, UpdateRemotes, OnlyAnswers
    <3> QED BY <2>4, <3>1, <3>2
  <2> QED BY <1>6, <2>1, <2>2, <2>3, <2>5, <2>6, <2>7 DEF TaskStep, Works
<1> QED BY <1>1, <1>3, <1>4, <1>5, <1>6
        DEF LoopNext, loopVars, nodeVars, Call, StreamArrives, TakeSwarm, EnterSelect, AcceptFails,
            OnExit, Panics, EndTurn, TaskStep

\* The table of streams is what the events told, but for the streams that are
\* being closed and those whose close() failed or was aborted with the loop
\* (network.rs 237-279, 439-457).
THEOREM StreamsAnnounced == LoopSpec => []StreamsAreAnnounced
<1>1. LoopInit => StreamInv
  BY DEF LoopInit, StreamInv, StreamsAreAnnounced, Told, Closing, At
<1>2. StreamInv /\ TasksInv /\ [LoopNext]_loopVars => StreamInv'
  BY StreamStep
<1>3. StreamInv => StreamsAreAnnounced
  BY DEF StreamInv
<1> QED BY <1>1, <1>2, <1>3, LoopInvariant, PTL DEF LoopSpec

-----------------------------------------------------------------------------
(***************************************************************************)
(* The rendezvous nodes.                                                   *)
(***************************************************************************)

\* A new task comes beside those awaited.
LEMMA SpawnAwaits ==
  ASSUME NEW job, Spawn(job)
  PROVE  /\ Awaited \subseteq Awaited'
         /\ job.type = "Connected" => job.peer \in Awaited'
<1>1. PICK new \in TaskIds \ DOMAIN tasks :
           /\ DOMAIN tasks' = DOMAIN tasks \cup {new}
           /\ tasks'[new].job = job /\ tasks'[new].at = "spawned"
           /\ \A t \in DOMAIN tasks : tasks'[t] = tasks[t]
  BY SpawnedTask
<1> QED BY <1>1 DEF Awaited, OfType, Job

\* A task that moves on, or ends and was of another kind, takes no peer along.
LEMMA MoveAwaits ==
  ASSUME TasksInv, NEW t \in DOMAIN tasks, NEW place, Moves(t, place)
  PROVE  Awaited \subseteq Awaited'
<1>1. DOMAIN tasks' = DOMAIN tasks /\ \A u \in DOMAIN tasks : tasks'[u].job = tasks[u].job
  BY MovedTask
<1> QED BY <1>1 DEF Awaited, OfType, Job

LEMMA EndAwaits ==
  ASSUME NEW t, Ends(t)
  PROVE  /\ Awaited \subseteq Awaited' \cup {Job(t).peer}
         /\ t \notin OfType("Connected") => Awaited \subseteq Awaited'
<1>1. DOMAIN tasks' = DOMAIN tasks \ {t} /\ \A u \in DOMAIN tasks' : tasks'[u] = tasks[u]
  BY EndedTask
<1> QED BY <1>1 DEF Awaited, OfType, Job

LEMMA PointsKept ==
  ASSUME PointsAreRegisteredAt, UNCHANGED pointVars, Awaited \subseteq Awaited',
         loop' # "left" => loop # "left"
  PROVE  PointsAreRegisteredAt'
<1>1. Attached' = Attached
  BY DEF Attached, pointVars, clientVars
<1> QED BY <1>1 DEF PointsAreRegisteredAt, pointVars

LEMMA PointsKeptByAll ==
  ASSUME PointsAreRegisteredAt, UNCHANGED <<tasks, pointVars>>, loop' # "left" => loop # "left"
  PROVE  PointsAreRegisteredAt'
<1>1. Awaited' = Awaited
  BY DEF Awaited, OfType, Job
<1> QED BY <1>1, PointsKept

\* Events without a handler: the client's own, and those of libp2p.
LEMMA PointsOfClient ==
  ASSUME PointsAreRegisteredAt, RemotesInv, Unhandled, loop # "left",
         UNCHANGED <<rendezvous_points, outrun>>
  PROVE  PointsAreRegisteredAt'
<1>1. Awaited' = Awaited
  BY DEF Unhandled, Awaited, OfType, Job
<1>2. ASSUME Attached' \subseteq Attached,
             rendezvous_points \cap (Attached \cup missed \cup dialing)
               \subseteq Attached' \cup missed' \cup dialing'
      PROVE  PointsAreRegisteredAt'
  BY <1>1, <1>2 DEF PointsAreRegisteredAt
<1>3. registers \in [Remotes -> Nat] /\ registered \subseteq Remotes
  BY DEF RemotesInv
<1>4. CASE AddressesChange
  <2>1. /\ registered' = registered /\ missed' = missed /\ dialing' = dialing
        /\ registers' \in {registers, OneMore(registers, registered)}
    BY <1>4 DEF AddressesChange
  <2>2. \A p \in Remotes : /\ registers[p] > 0 => registers'[p] > 0
                           /\ registers'[p] > 0 => registers[p] > 0 \/ p \in registered
    BY <1>3, <2>1 DEF OneMore
  <2> QED BY <1>2, <2>1, <2>2 DEF Attached
<1>5. ASSUME NEW p \in Remotes, DialFails(p) \/ ConnectionCloses(p) \/ DiscoverFails(p)
      PROVE  PointsAreRegisteredAt'
  <2>1. Attached' = Attached
    BY <1>5 DEF DialFails, ConnectionCloses, DiscoverFails, Attached, clientVars
  <2> QED BY <1>2, <1>5, <2>1 DEF DialFails, ConnectionCloses, DiscoverFails
<1>6. ASSUME NEW p \in Remotes, RegisterEnds(p)
      PROVE  PointsAreRegisteredAt'
  <2>1. /\ registers[p] > 0 /\ dialing' = dialing
        /\ \A q \in Remotes : registers'[q] > 0 => registers[q] > 0
        /\ \A q \in Remotes \ {p} : registers'[q] = registers[q]
    BY <1>3, <1>6 DEF RegisterEnds
  <2>2. \/ registered' = registered \cup {p} /\ missed' = missed \ {p}
        \/ registered' = registered /\ missed' = missed \cup ({p} \cap rendezvous_points)
    BY <1>6 DEF RegisterEnds
  <2> QED BY <1>2, <2>1, <2>2 DEF Attached
<1>7. ASSUME NEW p \in Remotes, DeregisterEnds(p) \/ RegistrationExpired(p)
      PROVE  PointsAreRegisteredAt'
  <2>1. /\ dialing' = dialing /\ registers' = registers
        /\ \/ registered' = registered \ {p} /\ missed' = missed \cup ({p} \cap rendezvous_points)
           \/ registered' = registered /\ missed' = missed
    BY <1>7 DEF DeregisterEnds, RegistrationExpired
  <2> QED BY <1>2, <2>1 DEF Attached
<1>8. CASE UNCHANGED pollVars
  <2>1. Attached' = Attached /\ missed' = missed /\ dialing' = dialing
    BY <1>8 DEF pollVars, clientVars, Attached
  <2> QED BY <1>2, <2>1
<1> QED BY <1>4, <1>5, <1>6, <1>7, <1>8 DEF Unhandled

LEMMA PointsOfEvents ==
  ASSUME PointsAreRegisteredAt, RemotesInv, OnSwarmEvent
  PROVE  PointsAreRegisteredAt'
<1>1. loop # "left" /\ loop' # "left" /\ UNCHANGED <<rendezvous_points, outrun>>
  BY DEF OnSwarmEvent, EndTurn
<1>2. ASSUME NEW p \in Remotes, Connected(p)
      PROVE  PointsAreRegisteredAt'
  <2>1. Awaited \subseteq Awaited' /\ p \in Awaited'
    BY <1>2, SpawnAwaits DEF Connected
  <2>2. dialing' = dialing \ {p} /\ missed' = missed /\ Attached' = Attached
    BY <1>2 DEF Connected, Attached, clientVars
  <2> QED BY <1>1, <2>1, <2>2 DEF PointsAreRegisteredAt
<1>3. ASSUME NEW p \in Remotes, PeerExpired(p)
      PROVE  PointsAreRegisteredAt'
  <2>1. Awaited \subseteq Awaited'
    BY <1>3, SpawnAwaits DEF PeerExpired
  <2> QED BY <1>1, <1>3, <2>1, PointsKept DEF PeerExpired, pointVars
<1>4. ASSUME NEW via \in Remotes, NEW named \in SUBSET Remotes, Discovered(via, named)
      PROVE  PointsAreRegisteredAt'
  <2>1. Awaited \subseteq Awaited'
    BY <1>4, SpawnAwaits DEF Discovered
  <2> QED BY <1>1, <1>4, <2>1, PointsKept DEF Discovered, pointVars
<1>5. CASE Unhandled
  BY <1>1, <1>5, PointsOfClient
<1> QED BY <1>2, <1>3, <1>4, <1>5 DEF OnSwarmEvent

\* The task of a connection registers, or misses the node for want of an address.
LEMMA PointsOfConnected ==
  ASSUME PointsAreRegisteredAt, RemotesInv, NEW t \in TaskIds, HandleConnected(t)
  PROVE  PointsAreRegisteredAt'
<1> DEFINE points == PointOf(Job(t).peer)
<1>1. /\ points \subseteq rendezvous_points /\ rendezvous_points \subseteq Remotes
      /\ rendezvous_points \cap {Job(t).peer} = points
  BY DEF PointOf, RemotesInv
<1>2. /\ Awaited \subseteq Awaited' \cup {Job(t).peer}
      /\ UNCHANGED <<loop, dialing, rendezvous_points, outrun, registered>>
  BY EndAwaits DEF HandleConnected, Ends
<1>3. registers \in [Remotes -> Nat]
  BY DEF RemotesInv
<1>4. CASE accessible
  <2>1. registers' = OneMore(registers, points) /\ missed' = missed \ points
    BY <1>4 DEF HandleConnected
  <2> HIDE DEF points
  <2>2. \A p \in Remotes : /\ p \in points \/ registers[p] > 0 => registers'[p] > 0
                           /\ registers'[p] > 0 => registers[p] > 0 \/ p \in points
    BY <1>3, <2>1 DEF OneMore
  <2>3. Attached' = Attached \cup points
    BY <1>1, <1>2, <2>2 DEF Attached
  <2> QED BY <1>1, <1>2, <2>1, <2>3 DEF PointsAreRegisteredAt
<1>5. CASE ~accessible
  <2>1. registers' = registers /\ missed' = missed \cup points
    BY <1>5 DEF HandleConnected
  <2>2. Attached' = Attached
    BY <1>2, <2>1 DEF Attached
  <2> HIDE DEF points
  <2> QED BY <1>1, <1>2, <2>1, <2>2 DEF PointsAreRegisteredAt
<1> QED BY <1>4, <1>5

\* The commands change the rendezvous nodes under the locks.
LEMMA PointsOfCommands ==
  ASSUME PointsAreRegisteredAt, RemotesInv, NEW t \in TaskIds, HandleCommand(t)
  PROVE  PointsAreRegisteredAt'
<1> DEFINE c == Asked(t)
<1>1. t \notin OfType("Connected") /\ loop' = loop
  BY DEF HandleCommand, Ready, OfType, Answers, Ends
<1>2. Awaited \subseteq Awaited'
  BY <1>1, EndAwaits DEF HandleCommand, Answers
<1>3. CASE OpenStream(c) \/ Subscribe(c) \/ Unsubscribe(c) \/ UpdateRemotes(c) \/ OnlyAnswers(c)
  BY <1>1, <1>2, <1>3, PointsKept DEF OpenStream, Subscribe, Unsubscribe, UpdateRemotes,
                                      OnlyAnswers
<1>4. CASE AddRendezvous(c)
  <2>1. Attached' = Attached /\ outrun' = outrun
    BY <1>4 DEF AddRendezvous, Attached, clientVars
  <2> QED BY <1>1, <1>2, <1>4, <2>1 DEF AddRendezvous, PointsAreRegisteredAt
<1>5. CASE RemoveRendezvous(c)
  <2>1. /\ rendezvous_points' = rendezvous_points \ {c.peer}
        /\ registered' = registered \ {c.peer} /\ missed' = missed \ {c.peer}
        /\ outrun' = (outrun \ {c.peer}) \cup {p \in {c.peer} : registers[p] > 0}
        /\ dialing' = dialing /\ registers' = registers
    BY <1>5 DEF RemoveRendezvous
  <2>2. Attached' \subseteq Attached /\ Attached \ {c.peer} \subseteq Attached'
    BY <2>1 DEF Attached
  <2>3. c.peer \in Attached' => registers[c.peer] > 0
    BY <2>1 DEF Attached
  <2> QED BY <1>1, <1>2, <2>1, <2>2, <2>3 DEF PointsAreRegisteredAt
<1> QED BY <1>3, <1>4, <1>5 DEF HandleCommand

LEMMA PointStep ==
  ASSUME PointsAreRegisteredAt, RemotesInv, TasksInv, [LoopNext]_loopVars
  PROVE  PointsAreRegisteredAt'
<1> USE DEF nodeVars
<1>1. CASE UNCHANGED loopVars
  BY <1>1, PointsKeptByAll DEF loopVars
<1>2. CASE (\E command \in Commands : Call(command)) \/ StreamArrives
  BY <1>2, PointsKeptByAll DEF Call, StreamArrives
<1>3. CASE TakeSwarm \/ EnterSelect \/ AcceptFails
  BY <1>3, PointsKeptByAll DEF TakeSwarm, EnterSelect, AcceptFails
<1>4. CASE Leave
  <2>1. Attached' = Attached
    BY <1>4 DEF Leave, Attached, pointVars, clientVars
  <2> QED BY <1>4, <2>1 DEF Leave, PointsAreRegisteredAt, pointVars
<1>5. CASE OnExit \/ Panics
  BY <1>5, PointsKeptByAll DEF OnExit, Panics, EndTurn, pointVars, pollVars
<1>6. CASE OnCommand \/ OnStream
  <2>1. Awaited \subseteq Awaited'
    BY <1>6, SpawnAwaits DEF OnCommand, OnStream
  <2> QED BY <1>6, <2>1, PointsKept DEF OnCommand, OnStream, EndTurn, pointVars, pollVars
<1>7. CASE OnSwarmEvent
  BY <1>7, PointsOfEvents
<1>8. ASSUME NEW t \in TaskIds, TaskStep(t)
      PROVE  PointsAreRegisteredAt'
  <2>1. CASE HandleConnected(t)
    BY <2>1, PointsOfConnected
  <2>2. CASE HandleCommand(t)
    BY <2>2, PointsOfCommands
  <2>3. ASSUME UNCHANGED pointVars, ~HandleConnected(t),
               Ends(t) => t \notin OfType("Connected")
        PROVE  PointsAreRegisteredAt'
    <3>1. loop' = loop
      BY <1>8, TaskMovesOrEnds DEF Ends, Moves
    <3>2. Awaited \subseteq Awaited'
      BY <1>8, <2>3, TaskMovesOrEnds, EndAwaits, MoveAwaits
    <3> QED BY <2>3, <3>1, <3>2, PointsKept
  <2>4. CASE ~HandleConnected(t) /\ ~HandleCommand(t)
    <3>1. UNCHANGED pointVars
      BY <1>8, <2>4 DEF TaskStep, Works, LockSwarm, LockStreams, HandleDiscovered,
                        HandlePeerExpired, HandleInbound, StartsClosing, Transfer, Closes
    <3>2. Ends(t) => t \notin OfType("Connected")
      <4>1. CASE LockSwarm(t) \/ LockStreams(t) \/ StartsClosing(t)
        <5>1. t \in DOMAIN tasks /\ t \in DOMAIN tasks'
          BY <4>1 DEF LockSwarm, LockStreams, StartsClosing, Ready, At, Moves
        <5> QED BY <5>1, EndedTask
      <4>2. CASE HandleDiscovered(t) \/ HandlePeerExpired(t) \/ HandleInbound(t) \/ Transfer(t)
        BY <4>2 DEF HandleDiscovered, HandlePeerExpired, HandleInbound, Transfer, Handles, Ready,
                    OfType
      <4>3. CASE Closes(t)
        BY <4>3 DEF Closes, At, OfType, Job, TasksInv
      <4> QED BY <1>8, <2>4, <4>1, <4>2, <4>3 DEF TaskStep, Works
    <3> QED BY <2>3, <2>4, <3>1, <3>2
  <2> QED BY <2>1, <2>2, <2>4
<1> QED BY <1>1, <1>2, <1>3, <1>4, <1>5, <1>6, <1>7, <1>8 DEF LoopNext, TaskStep

\* The node registers, also with new addresses, with its rendezvous nodes and
\* those removed while a Register was under way, and with nobody else, and forgets
\* none of its nodes (network.rs 153-160, 347-385, client.rs 157-168, 409-424).
THEOREM PointsRegisteredAt == LoopSpec => []PointsAreRegisteredAt
<1>1. LoopInit => PointsAreRegisteredAt
  BY DEF LoopInit, PointsAreRegisteredAt, Attached
<1>2. PointsAreRegisteredAt /\ RemotesInv /\ TasksInv /\ [LoopNext]_loopVars
        => PointsAreRegisteredAt'
  BY PointStep
<1>3. LoopInv => RemotesInv
  BY DEF LoopInv
<1> QED BY <1>1, <1>2, <1>3, LoopInvariant, PTL DEF LoopSpec

-----------------------------------------------------------------------------
(***************************************************************************)
(* The commands.                                                           *)
(***************************************************************************)

\* A step that takes no command, and ends no task that handles one.
LEMMA HandledKept ==
  ASSUME CommandsAreHandledOnce, UNCHANGED <<calls, commands, answered>>,
         Handlers' = Handlers,
         \A t \in Handlers : tasks'[t].job = tasks[t].job,
         loop' # "left" => loop # "left"
  PROVE  CommandsAreHandledOnce'
<1>1. Taken' = Taken
  BY DEF Taken
<1>2. \A t \in Handlers : Job(t)' = Job(t)
  BY DEF Job
<1> QED BY <1>1, <1>2 DEF CommandsAreHandledOnce

LEMMA SpawnHandlers ==
  ASSUME NEW job, Spawn(job)
  PROVE  \E new \in DOMAIN tasks' \ DOMAIN tasks :
           /\ tasks'[new].job = job
           /\ \A t \in Handlers : tasks'[t].job = tasks[t].job
           /\ job.type = "Command" => Handlers' = Handlers \cup {new}
           /\ job.type # "Command" => Handlers' = Handlers
<1>1. PICK new \in TaskIds \ DOMAIN tasks :
           /\ DOMAIN tasks' = DOMAIN tasks \cup {new}
           /\ tasks'[new].job = job /\ tasks'[new].at = "spawned"
           /\ \A t \in DOMAIN tasks : tasks'[t] = tasks[t]
  BY SpawnedTask
<1>2. new \in DOMAIN tasks' \ DOMAIN tasks
  BY <1>1
<1>3. \A t \in Handlers : tasks'[t].job = tasks[t].job
  BY <1>1 DEF Handlers, OfType
<1>4. /\ job.type = "Command" => Handlers' = Handlers \cup {new}
      /\ job.type # "Command" => Handlers' = Handlers
  BY <1>1 DEF Handlers, OfType, Job
<1> QED BY <1>1, <1>2, <1>3, <1>4

\* The loop takes the oldest command: those behind it keep their order.
LEMMA TakenFromChannel ==
  ASSUME ChannelInv, CommandsAreHandledOnce, commands # << >>, commands' = Tail(commands),
         calls' = calls
  PROVE  /\ Head(commands).id = Taken + 1
         /\ Taken \in Nat /\ Taken' = Taken + 1
         /\ \A i \in DOMAIN commands' : commands'[i].id = Taken' + i
<1>1. /\ Len(commands) \in Nat /\ Len(commands) > 0 /\ Head(commands) = commands[1]
      /\ DOMAIN commands = 1..Len(commands)
      /\ Len(commands') = Len(commands) - 1 /\ DOMAIN commands' = 1..(Len(commands) - 1)
      /\ \A i \in 1..(Len(commands) - 1) : commands'[i] = commands[i + 1]
  BY DEF ChannelInv
<1>2. calls \in Nat /\ commands[1].id \in 1..calls /\ commands[1].id = Taken + 1
  BY <1>1 DEF ChannelInv, CommandsAreHandledOnce
<1>3. Taken \in Nat /\ Taken' = Taken + 1
  BY <1>1, <1>2 DEF Taken
<1>4. ASSUME NEW i \in DOMAIN commands' PROVE commands'[i].id = Taken' + i
  <2>1. i + 1 \in DOMAIN commands /\ commands'[i] = commands[i + 1] /\ i \in Nat
    BY <1>1
  <2>2. commands[i + 1].id = Taken + (i + 1)
    BY <2>1 DEF CommandsAreHandledOnce
  <2> QED BY <1>3, <2>1, <2>2
<1> QED BY <1>1, <1>2, <1>3, <1>4

LEMMA HandledStep ==
  ASSUME ChannelInv, CommandsAreHandledOnce, TasksInv, [LoopNext]_loopVars
  PROVE  CommandsAreHandledOnce'
<1>1. ASSUME UNCHANGED <<tasks, calls, commands, answered>>, loop' # "left" => loop # "left"
      PROVE  CommandsAreHandledOnce'
  BY <1>1, HandledKept DEF Handlers, OfType, Job
<1>2. ASSUME NEW command \in Commands, Call(command)
      PROVE  CommandsAreHandledOnce'
  <2> DEFINE m == [type |-> "Command", id |-> calls + 1, command |-> command]
  <2>1. /\ calls' = calls + 1 /\ commands' = Append(commands, m)
        /\ UNCHANGED <<loop, tasks, answered>>
    BY <1>2 DEF Call
  <2>2. m \in Sent /\ m.id = calls + 1
    BY DEF Sent, ChannelInv
  <2> HIDE DEF m
  <2>3. /\ Len(commands) \in Nat /\ calls \in Nat /\ DOMAIN commands = 1..Len(commands)
        /\ Len(commands') = Len(commands) + 1
        /\ DOMAIN commands' = 1..(Len(commands) + 1)
        /\ \A i \in 1..Len(commands) : commands'[i] = commands[i]
        /\ commands'[Len(commands) + 1] = m
    BY <2>1, <2>2 DEF ChannelInv
  <2>4. Taken' = Taken /\ Taken \in Int
    BY <2>1, <2>3 DEF Taken
  <2>5. ASSUME NEW i \in DOMAIN commands' PROVE commands'[i].id = Taken' + i
    <3>1. CASE i \in 1..Len(commands)
      BY <2>3, <2>4, <3>1 DEF CommandsAreHandledOnce
    <3>2. CASE i = Len(commands) + 1
      BY <2>2, <2>3, <2>4, <3>2 DEF Taken
    <3> QED BY <2>3, <3>1, <3>2
  <2>6. Handlers' = Handlers /\ \A t \in Handlers : Job(t)' = Job(t)
    BY <2>1 DEF Handlers, OfType, Job
  <2> QED BY <2>1, <2>4, <2>5, <2>6 DEF CommandsAreHandledOnce
<1>3. CASE OnCommand
  <2>1. /\ commands # << >> /\ commands' = Tail(commands) /\ Spawn(Head(commands))
        /\ calls' = calls /\ answered' = answered /\ loop = "select" /\ loop' = "top"
    BY <1>3 DEF OnCommand, EndTurn
  <2>2. /\ Head(commands).id = Taken + 1 /\ Taken \in Nat /\ Taken' = Taken + 1
        /\ \A i \in DOMAIN commands' : commands'[i].id = Taken' + i
    BY <2>1, TakenFromChannel
  <2>3. Head(commands).type = "Command"
    <3>1. Head(commands) \in Sent
      BY <2>1 DEF ChannelInv
    <3> QED BY <3>1 DEF Sent
  <2>4. PICK new \in DOMAIN tasks' \ DOMAIN tasks :
          /\ tasks'[new].job = Head(commands)
          /\ \A t \in Handlers : tasks'[t].job = tasks[t].job
          /\ Handlers' = Handlers \cup {new}
    BY <2>1, <2>3, SpawnHandlers
  <2>5. Job(new)'.id = Taken + 1 /\ \A t \in Handlers : Job(t)' = Job(t)
    BY <2>2, <2>4 DEF Job
  <2>6. \A t \in Handlers : Job(t).id \in 1..Taken
    BY DEF CommandsAreHandledOnce
  <2>7. \A t, u \in Handlers' : Job(t)'.id = Job(u)'.id => t = u
    BY <2>2, <2>4, <2>5, <2>6 DEF CommandsAreHandledOnce
  <2>8. \A t \in Handlers' : Job(t)'.id \in (1..Taken') \ answered'
    BY <2>1, <2>2, <2>4, <2>5 DEF CommandsAreHandledOnce
  <2>9. ASSUME NEW id \in (1..Taken') \ answered' PROVE \E t \in Handlers' : Job(t)'.id = id
    <3>1. CASE id = Taken + 1
      BY <2>4, <2>5, <3>1
    <3>2. CASE id \in 1..Taken
      BY <2>1, <2>4, <2>5, <3>2 DEF CommandsAreHandledOnce
    <3> QED BY <2>2, <3>1, <3>2
  <2>10. answered' \subseteq 1..Taken'
    BY <2>1, <2>2 DEF CommandsAreHandledOnce
  <2> QED BY <2>2, <2>7, <2>8, <2>9, <2>10 DEF CommandsAreHandledOnce
<1>4. CASE OnExit
  <2>1. /\ commands # << >> /\ commands' = Tail(commands) /\ tasks' = tasks
        /\ calls' = calls /\ answered' = answered \cup {Head(commands).id}
        /\ loop = "select" /\ loop' = "leaving"
    BY <1>4 DEF OnExit, EndTurn
  <2>2. /\ Head(commands).id = Taken + 1 /\ Taken \in Nat /\ Taken' = Taken + 1
        /\ \A i \in DOMAIN commands' : commands'[i].id = Taken' + i
    BY <2>1, TakenFromChannel
  <2>3. Handlers' = Handlers /\ \A t \in Handlers : Job(t)' = Job(t)
    BY <2>1 DEF Handlers, OfType, Job
  <2>4. answered' \subseteq 1..Taken'
    <3>1. answered \subseteq 1..Taken
      BY DEF CommandsAreHandledOnce
    <3>2. answered' = answered \cup {Taken + 1}
      BY <2>1, <2>2
    <3>3. 1..Taken \subseteq 1..(Taken + 1) /\ Taken + 1 \in 1..(Taken + 1)
      BY <2>2
    <3> QED BY <2>2, <3>1, <3>2, <3>3
  <2>5. \A t \in Handlers : Job(t).id \in (1..Taken') \ answered'
    BY <2>1, <2>2 DEF CommandsAreHandledOnce
  <2>6. \A id \in (1..Taken') \ answered' : id \in (1..Taken) \ answered
    BY <2>1, <2>2
  <2> QED BY <2>1, <2>2, <2>3, <2>4, <2>5, <2>6 DEF CommandsAreHandledOnce
<1>5. CASE Leave
  <2>1. loop' = "left" /\ tasks' = << >> /\ UNCHANGED <<calls, commands, answered>>
    BY <1>5 DEF Leave, channelVars
  <2>2. Handlers' = {} /\ Taken' = Taken
    BY <2>1 DEF Handlers, OfType, Taken
  <2> QED BY <2>1, <2>2 DEF CommandsAreHandledOnce
<1>6. ASSUME NEW job, Spawn(job), job.type # "Command", UNCHANGED channelVars, loop # "left"
      PROVE  CommandsAreHandledOnce'
  <2>1. Handlers' = Handlers /\ \A t \in Handlers : tasks'[t].job = tasks[t].job
    BY <1>6, SpawnHandlers
  <2> QED BY <1>6, <2>1, HandledKept DEF channelVars
<1>7. CASE OnStream
  BY <1>6, <1>7 DEF OnStream, EndTurn
<1>8. CASE OnSwarmEvent
  <2>1. UNCHANGED channelVars /\ loop = "select"
    BY <1>8 DEF OnSwarmEvent, EndTurn
  <2>2. CASE UNCHANGED tasks
    BY <1>1, <2>1, <2>2 DEF channelVars
  <2> QED BY <1>6, <1>8, <2>1, <2>2, EventSpawns
<1>9. ASSUME NEW t \in TaskIds, TaskStep(t)
      PROVE  CommandsAreHandledOnce'
  <2>1. CASE t \in DOMAIN tasks /\ \E place : Moves(t, place)
    <3>1. UNCHANGED <<loop, calls, commands, answered>>
      BY <2>1 DEF Moves, channelVars
    <3>2. DOMAIN tasks' = DOMAIN tasks /\ \A u \in DOMAIN tasks : tasks'[u].job = tasks[u].job
      BY <2>1, MovedTask
    <3>3. Handlers' = Handlers /\ \A u \in Handlers : tasks'[u].job = tasks[u].job
      BY <3>2 DEF Handlers, OfType, Job
    <3> QED BY <3>1, <3>3, HandledKept
  <2>2. CASE Ends(t) /\ t \notin Handlers /\ answered' = answered
    <3>1. UNCHANGED <<loop, calls, commands>>
      BY <2>2 DEF Ends
    <3>2. Handlers' = Handlers /\ \A u \in Handlers : tasks'[u].job = tasks[u].job
      BY <2>2, EndedTask DEF Handlers, OfType, Job
    <3> QED BY <2>2, <3>1, <3>2, HandledKept
  <2>3. CASE (Ready(t) \/ At(t, "closing")) /\ Answers(t)
    <3>1. t \in Handlers /\ Ends(t) /\ answered' = answered \cup {Job(t).id}
      BY <2>3 DEF Ready, Answers, Handlers, At, OfType, Job, TasksInv
    <3>2. UNCHANGED <<loop, calls, commands>> /\ Taken' = Taken
      BY <3>1 DEF Ends, Taken
    <3>3. Handlers' = Handlers \ {t} /\ \A u \in Handlers' : Job(u)' = Job(u)
      BY <3>1, EndedTask DEF Handlers, OfType, Job
    <3>4. answered' \subseteq 1..Taken
      BY <3>1 DEF CommandsAreHandledOnce
    <3>5. \A u \in Handlers' : Job(u).id \in (1..Taken) \ answered'
      BY <3>1, <3>3 DEF CommandsAreHandledOnce
    <3>6. loop # "left" => \A id \in (1..Taken) \ answered' : \E u \in Handlers' : Job(u).id = id
      BY <3>1, <3>3 DEF CommandsAreHandledOnce
    <3> QED BY <3>2, <3>3, <3>4, <3>5, <3>6 DEF CommandsAreHandledOnce
  <2>4. CASE HandleCommand(t) \/ Transfer(t) \/ Closes(t)
    BY <2>3, <2>4 DEF HandleCommand, Transfer, Closes
  <2>5. CASE HandleConnected(t) \/ HandlePeerExpired(t) \/ HandleInbound(t)
    BY <2>2, <2>5 DEF HandleConnected, HandlePeerExpired, HandleInbound, Handles, OfType, Handlers
  <2>6. CASE HandleDiscovered(t)
    BY <2>1, <2>2, <2>6 DEF HandleDiscovered, Handles, At, OfType, Handlers
  <2>7. CASE LockSwarm(t) \/ LockStreams(t) \/ StartsClosing(t)
    BY <2>1, <2>7 DEF LockSwarm, LockStreams, StartsClosing, Ready, At
  <2> QED BY <1>9, <2>4, <2>5, <2>6, <2>7 DEF TaskStep, Works
<1> QED BY <1>1, <1>2, <1>3, <1>4, <1>5, <1>7, <1>8, <1>9
        DEF LoopNext, loopVars, channelVars, StreamArrives, TakeSwarm, EnterSelect, AcceptFails,
            Panics, EndTurn, TaskStep

\* No command is lost, and none is handled or answered twice, in whatever order
\* the tasks run, and a task that has not answered is aborted only when the loop is
\* left (network.rs 401-433).
THEOREM CommandsHandledOnce == LoopSpec => []CommandsAreHandledOnce
<1>1. LoopInit => CommandsAreHandledOnce
  BY DEF LoopInit, CommandsAreHandledOnce, Taken, Handlers, OfType
<1>2. ChannelInv /\ TasksInv /\ CommandsAreHandledOnce /\ [LoopNext]_loopVars
        => CommandsAreHandledOnce'
  BY HandledStep
<1>3. LoopInv => ChannelInv
  BY DEF LoopInv
<1> QED BY <1>1, <1>2, <1>3, LoopInvariant, PTL DEF LoopSpec

=============================================================================
