----------------------- MODULE RendezvousServerProofs -----------------------
(***************************************************************************)
(* What the rendezvous server keeps, proved for every set of nodes,        *)
(* commands and lifetimes, every resolution of the clock and every bound:  *)
(* through failing transactions, closing channels, crashes and restarts.   *)
(***************************************************************************)
EXTENDS RendezvousServer, RegistrationsProofs

-----------------------------------------------------------------------------
(***************************************************************************)
(* The process.                                                            *)
(***************************************************************************)

Request == [id : RequestIds, source : Nodes, command : Commands]

\* What ServerTypeOK says of the process, and that the queue is one.
ProcessInv == /\ running \in BOOLEAN
              /\ maxLifetime \in Lifetimes
              /\ phase \in {"expirations", "requests"}
              /\ inbox \in Seq(Request)
              /\ closed \subseteq {inbox[i].id : i \in DOMAIN inbox}
              /\ received \in 0..MaxRequests
              /\ \A r \in replies : r.id \in RequestIds

LEMMA ProcessKept ==
  ASSUME ProcessInv, UNCHANGED <<procVars, phase, innerVars, replies>>
  PROVE  ProcessInv'
BY DEF ProcessInv, procVars, innerVars, RequestIds, Request

LEMMA ProcessStops ==
  ASSUME ProcessInv, Stop, UNCHANGED <<maxLifetime, received, replies>>
  PROVE  ProcessInv'
<1>1. inbox' \in Seq(Request) /\ closed' \subseteq {inbox'[i].id : i \in DOMAIN inbox'}
  BY DEF Stop
<1> QED BY <1>1 DEF Stop, ProcessInv, RequestIds, Request

\* A request joins the queue.
LEMMA ProcessReceives ==
  ASSUME ProcessInv, NEW n \in Nodes, NEW c \in Commands,
         Receive(RendezvousRequest(received + 1, n, c))
  PROVE  ProcessInv'
<1> DEFINE request == RendezvousRequest(received + 1, n, c)
<1>1. received + 1 \in RequestIds /\ received' \in 0..MaxRequests
  BY ServerAssumption DEF Receive, ProcessInv, RequestIds
<1>2. request \in Request
  BY <1>1 DEF RendezvousRequest, Request
<1>3. inbox' \in Seq(Request)
  BY <1>2 DEF Receive, ProcessInv
<1>4. closed' \subseteq {inbox'[i].id : i \in DOMAIN inbox'}
  <2>1. inbox' = Append(inbox, request) /\ closed' = closed
    BY DEF Receive
  <2>2. \A i \in DOMAIN inbox : i \in DOMAIN inbox' /\ inbox'[i] = inbox[i]
    BY <2>1 DEF ProcessInv
  <2> QED BY <2>1, <2>2 DEF ProcessInv
<1> QED BY <1>1, <1>3, <1>4 DEF Receive, ProcessInv, procVars, outVars, RequestIds, Request

\* The head of the queue is answered, or its channel is gone and the process
\* ends.
LEMMA ProcessResponds ==
  ASSUME ProcessInv, inbox # << >>, NEW response, NEW evt, Respond(Head(inbox), response, evt)
  PROVE  ProcessInv'
<1> DEFINE request == Head(inbox)
<1>1. request \in Request /\ Tail(inbox) \in Seq(Request)
  BY DEF ProcessInv
<1>2. CASE request.id \in closed
  <2>1. Stop /\ UNCHANGED <<maxLifetime, received, replies>>
    BY <1>2 DEF Respond
  <2> QED BY <2>1, ProcessStops
<1>3. CASE request.id \notin closed
  <2>1. inbox' = Tail(inbox) /\ closed' = closed
        /\ replies' = replies \cup {[id |-> request.id, response |-> response]}
        /\ phase' = "expirations" /\ UNCHANGED <<procVars, received>>
    BY <1>3 DEF Respond
  <2>2. closed' \subseteq {inbox'[i].id : i \in DOMAIN inbox'}
    <3> SUFFICES ASSUME NEW id \in closed
                 PROVE  \E i \in DOMAIN inbox' : inbox'[i].id = id
      BY <2>1
    <3>1. PICK i \in DOMAIN inbox : inbox[i].id = id
      BY DEF ProcessInv
    <3>2. i # 1 /\ i \in 1..Len(inbox)
      BY <1>3, <3>1 DEF ProcessInv
    <3>3. i - 1 \in DOMAIN inbox' /\ inbox'[i - 1] = inbox[i]
      BY <2>1, <3>2 DEF ProcessInv
    <3> QED BY <3>1, <3>3
  <2>3. \A r \in replies' : r.id \in RequestIds
    BY <1>1, <2>1 DEF ProcessInv, Request
  <2> QED BY <1>1, <2>1, <2>2, <2>3 DEF ProcessInv, procVars, RequestIds, Request
<1> QED BY <1>2, <1>3

LEMMA ProcessStep ==
  ASSUME ProcessInv, [ServerNext]_serverVars
  PROVE  ProcessInv'
<1>1. CASE UNCHANGED serverVars
  BY <1>1, ProcessKept DEF serverVars, outVars
<1>2. CASE ServerTick
  BY <1>2, ProcessKept DEF ServerTick, outVars
<1>3. ASSUME NEW n \in Nodes, NEW c \in Commands, Receive(RendezvousRequest(received + 1, n, c))
      PROVE  ProcessInv'
  BY <1>3, ProcessReceives
<1>4. ASSUME NEW i \in DOMAIN inbox, ChannelCloses(i)
      PROVE  ProcessInv'
  BY <1>4 DEF ChannelCloses, ProcessInv, procVars, outVars, RequestIds, Request
<1>5. CASE Crash
  BY <1>5, ProcessStops DEF Crash, outVars
<1>6. ASSUME NEW l \in Lifetimes, Restart(l)
      PROVE  ProcessInv'
  BY <1>6 DEF Restart, ProcessInv, innerVars, outVars, RequestIds, Request
<1>7. CASE AnnounceExpired
  BY <1>7, ProcessKept DEF AnnounceExpired
<1>8. CASE NothingExpired \/ PollFails \/ NothingReceived
  BY <1>8 DEF NothingExpired, PollFails, NothingReceived, ProcessInv, procVars, innerVars,
              outVars, RequestIds, Request
<1>9. CASE HandleRequest
  <2>1. inbox # << >> /\ \E response, evt : Respond(Head(inbox), response, evt)
    <3>1. CASE HandleRegister \/ HandleDeregister \/ HandleDiscover
      BY <3>1 DEF HandleRegister, HandleDeregister, HandleDiscover, Handling
    <3>2. CASE HandleFind \/ HandleGroups \/ HandleFails
      BY <3>2 DEF HandleFind, HandleGroups, HandleFails, Handling
    <3> QED BY <1>9, <3>1, <3>2 DEF HandleRequest
  <2> QED BY <2>1, ProcessResponds
<1> QED BY <1>1, <1>2, <1>3, <1>4, <1>5, <1>6, <1>7, <1>8, <1>9
       DEF ServerNext, ServerEnvironment, Poll

LEMMA ProcessInvariant == ServerSpec => []ProcessInv
<1>1. ServerInit => ProcessInv
  BY ServerAssumption DEF ServerInit, ProcessInv, RequestIds, Request
<1>2. ProcessInv /\ [ServerNext]_serverVars => ProcessInv'
  BY ProcessStep
<1> QED BY <1>1, <1>2, PTL DEF ServerSpec

-----------------------------------------------------------------------------
(***************************************************************************)
(* The server is a store: whatever it does to the two databases is one of  *)
(* the store's operations.                                                 *)
(***************************************************************************)

LEMMA HandleStep ==
  ASSUME ProcessInv, HandleRequest
  PROVE  [StoreNext]_storeVars
<1> USE DEF storeVars
<1>1. ASSUME inbox # << >>
      PROVE  Head(inbox) \in Request
  BY <1>1 DEF ProcessInv
<1>2. maxLifetime \in Lifetimes
  BY DEF ProcessInv
<1>3. CASE HandleRegister
  <2> DEFINE request == Head(inbox)
  <2>1. /\ request \in Request /\ request.command.type = "Register"
        /\ Register(request.source, request.command.addresses, maxLifetime)
        /\ UNCHANGED now
    BY <1>1, <1>3 DEF HandleRegister, Handling
  <2>2. request.source \in Nodes /\ request.command \in Command
    BY <2>1, ServerAssumption DEF Request
  <2>3. request.command.addresses \in Addresses
    BY <2>1, <2>2 DEF Command
  <2> QED BY <1>2, <2>1, <2>2, <2>3 DEF StoreNext, StoreWrite
<1>4. CASE HandleDeregister
  <2> DEFINE request == Head(inbox)
  <2>1. request \in Request /\ Deregister(request.source) /\ UNCHANGED now
    BY <1>1, <1>4 DEF HandleDeregister, Handling
  <2> QED BY <2>1 DEF Request, StoreNext, StoreWrite
<1>5. CASE HandleDiscover \/ HandleFind \/ HandleGroups \/ HandleFails
  BY <1>5 DEF HandleDiscover, HandleFind, HandleGroups, HandleFails
<1> QED BY <1>3, <1>4, <1>5 DEF HandleRequest

LEMMA ServerStep ==
  ProcessInv /\ [ServerNext]_serverVars => [StoreNext]_storeVars
<1> SUFFICES ASSUME ProcessInv, [ServerNext]_serverVars
             PROVE  [StoreNext]_storeVars
  OBVIOUS
<1> USE DEF storeVars
<1>1. CASE UNCHANGED serverVars
  BY <1>1 DEF serverVars
<1>2. CASE ServerEnvironment
  BY <1>2 DEF ServerEnvironment, ServerTick, StoreTick, StoreNext, Receive, ChannelCloses,
              Crash, Restart
<1>3. maxLifetime \in Lifetimes
  BY DEF ProcessInv
<1>4. CASE AnnounceExpired
  BY <1>3, <1>4 DEF AnnounceExpired, StoreNext, StorePoll
<1>5. CASE NothingExpired
  BY <1>3, <1>5 DEF NothingExpired, PollIdle, StoreNext, StorePoll
<1>6. CASE PollFails \/ NothingReceived
  BY <1>6 DEF PollFails, NothingReceived
<1>7. CASE HandleRequest
  BY <1>7, HandleStep
<1> QED BY <1>1, <1>2, <1>4, <1>5, <1>6, <1>7 DEF ServerNext, Poll

\* Crashes, restarts with another lifetime, failing transactions and closing
\* channels included, the server changes its databases only by the store's
\* operations (server.rs 120-303): all that holds of the store holds in it.
THEOREM ServerImplementsStore == ServerSpec => StoreSpec
<1>1. ServerInit => StoreInit
  BY DEF ServerInit
<1> QED BY <1>1, ServerStep, ProcessInvariant, PTL DEF ServerSpec, StoreSpec

LEMMA ServerStoreInvariant == ServerSpec => []StoreInv
BY ServerImplementsStore, StoreInvariant, PTL

\* The types of the process and of its store.
THEOREM ServerTypeCorrect == ServerSpec => []ServerTypeOK
<1>1. ASSUME ProcessInv, StoreInv
      PROVE  ServerTypeOK
  <2>1. \A i \in DOMAIN inbox : inbox[i] \in Request
    BY <1>1 DEF ProcessInv
  <2> QED BY <1>1, <2>1 DEF ProcessInv, StoreInv, ServerTypeOK, Request
<1> QED BY <1>1, ProcessInvariant, ServerStoreInvariant, PTL

-----------------------------------------------------------------------------
(***************************************************************************)
(* The server implements the directory.                                    *)
(***************************************************************************)

LEMMA NextIsAsked ==
  ASSUME ProcessInv, NEW type, Handling(type)
  PROVE  Head(inbox) \in NextAsked(type) /\ Head(inbox) \in Request
<1>1. inbox # << >> /\ inbox \in Seq(Request) /\ Head(inbox).command.type = type
  BY DEF Handling, ProcessInv
<1>2. Head(inbox) \in Request /\ Head(inbox) = inbox[1] /\ 1 \in DOMAIN inbox
  BY <1>1
<1> QED BY <1>1, <1>2 DEF Handling, NextAsked, Range

LEMMA RegisterIsServed ==
  ASSUME ProcessInv, StoreInv, HandleRegister
  PROVE  Dir!DirNext
<1> DEFINE request == Head(inbox)
           k == KeyOf(request.source)
           new == Registered(request.source, request.command.addresses, maxLifetime)
           content == [discoverability |-> request.source.discoverability,
                       addresses |-> request.command.addresses, ttl |-> maxLifetime]
           publish == [type |-> "Publish", key |-> k, content |-> content]
<1>1. request \in NextAsked("Register") /\ request \in Request
  BY NextIsAsked DEF HandleRegister
<1>2. publish \in AskedOfDirectory
  BY <1>1 DEF AskedOfDirectory
<1>3. /\ request.source \in Nodes /\ request.command.addresses \in Addresses
      /\ maxLifetime \in Lifetimes
  BY <1>1, ServerAssumption DEF NextAsked, Request, Command, ProcessInv
<1>4. KeyOf(new.identity) = k /\ new.lastRegistration = now
  BY <1>3, RegisteredIsFiled DEF StoreInv
<1>5. /\ new.identity.discoverability = request.source.discoverability
      /\ new.addresses = request.command.addresses /\ new.ttl = maxLifetime
  <2>1. CASE k \in DOMAIN rdb
    <3>1. rdb[k].identity \in NodeIdentifier
      BY <2>1 DEF StoreInv, StoreTypeOK, Registration
    <3> QED BY <2>1, <3>1 DEF Registered, Merge, NodeIdentifier
  <2>2. CASE k \notin DOMAIN rdb
    BY <2>2 DEF Registered
  <2> QED BY <2>1, <2>2
<1>6. now' = now /\ rdb' = DbPut(rdb, k, new)
  BY <1>4 DEF HandleRegister, Register
<1> HIDE DEF new, k
<1>7. Published' = [x \in DOMAIN Published \cup {k} |->
                      IF x = k THEN [content |-> content, since |-> now] ELSE Published[x]]
  BY <1>4, <1>5, <1>6 DEF Published, DbPut
<1>8. Published' = Dir!Served(publish)
  BY <1>7 DEF Dir!Served
<1> QED BY <1>2, <1>6, <1>8 DEF Dir!DirNext

LEMMA DeregisterIsServed ==
  ASSUME ProcessInv, HandleDeregister
  PROVE  Dir!DirNext
<1> DEFINE request == Head(inbox)
           withdraw == [type |-> "Withdraw", key |-> KeyOf(request.source)]
<1>1. request \in NextAsked("Deregister")
  BY NextIsAsked DEF HandleDeregister
<1>2. withdraw \in AskedOfDirectory
  BY <1>1 DEF AskedOfDirectory
<1>3. now' = now /\ rdb' = DbDelete(rdb, KeyOf(request.source))
  BY DEF HandleDeregister, Deregister
<1>4. Published' = Dir!Served(withdraw)
  BY <1>3 DEF Published, DbDelete, Dir!Served
<1> QED BY <1>2, <1>3, <1>4 DEF Dir!DirNext

LEMMA DirectoryNext ==
  ASSUME ProcessInv, StoreInv, [ServerNext]_serverVars
  PROVE  [Dir!DirNext]_<<Published, now>>
<1>1. CASE ServerTick
  BY <1>1 DEF ServerTick, Tick, Dir!DirNext, Dir!Tick, Published
<1>2. CASE HandleRegister \/ HandleDeregister
  BY <1>2, RegisterIsServed, DeregisterIsServed
<1>3. CASE UNCHANGED <<rdb, now>>
  BY <1>3 DEF Published
<1>4. CASE AnnounceExpired
  <2>1. PICK e \in edb : rdb' = DbDelete(rdb, e)
    BY <1>4 DEF AnnounceExpired, PollExpires
  <2>2. DOMAIN rdb \ {e} = DOMAIN rdb
    BY EntriesAreNoKeys DEF StoreInv
  <2>3. Published' = Published
    BY <2>1, <2>2 DEF DbDelete, Published
  <2> QED BY <1>4, <2>3 DEF AnnounceExpired
<1>5. CASE NothingExpired \/ PollFails \/ NothingReceived
  BY <1>3, <1>5 DEF NothingExpired, PollDropsEntry, PollIdle, PollFails, NothingReceived, storeVars
<1>6. CASE HandleDiscover \/ HandleFind \/ HandleGroups \/ HandleFails
  BY <1>3, <1>6 DEF HandleDiscover, HandleFind, HandleGroups, HandleFails, storeVars
<1>7. CASE ServerEnvironment \/ UNCHANGED serverVars
  BY <1>1, <1>3, <1>7 DEF serverVars, storeVars, ServerEnvironment, Receive, ChannelCloses, Crash,
                          Restart
<1> QED BY <1>2, <1>4, <1>5, <1>6, <1>7 DEF ServerNext, Poll, HandleRequest

\* An entry of the directory changes only when the server handles a request to
\* register or deregister it, and then to what that request says (server.rs
\* 209-240): expiry, merging, failures, crashes and restarts are invisible in it.
THEOREM ServerImplementsDirectory == ServerSpec => ImplementsDirectory
<1>1. ServerInit => Dir!DirInit
  BY DEF ServerInit, StoreInit, Dir!DirInit, Published
<1>2. ProcessInv /\ StoreInv /\ [ServerNext]_serverVars => [Dir!DirNext]_<<Published, now>>
  BY DirectoryNext
<1> QED BY <1>1, <1>2, ProcessInvariant, ServerStoreInvariant, PTL
        DEF ServerSpec, ImplementsDirectory, Dir!DirSpec

-----------------------------------------------------------------------------
(***************************************************************************)
(* The store holds what was accepted last.                                 *)
(***************************************************************************)

\* What accepted says of the registration under a key.
Agrees(reg, a) == /\ reg.identity.peer = a.node.peer
                  /\ reg.identity.discoverability = a.node.discoverability
                  /\ reg.addresses = a.addresses
                  /\ reg.lastRegistration = a.since
                  /\ reg.ttl = a.ttl

LEMMA HeldKept ==
  ASSUME HoldsWhatItAccepted, accepted' = accepted,
         DOMAIN rdb' = DOMAIN rdb, \A k \in DOMAIN rdb : rdb'[k] = rdb[k]
  PROVE  HoldsWhatItAccepted'
BY DEF HoldsWhatItAccepted

LEMMA RegisterHeld ==
  ASSUME StoreInv, HoldsWhatItAccepted, ProcessInv, HandleRegister
  PROVE  HoldsWhatItAccepted'
<1> DEFINE request == Head(inbox)
           n == request.source
           k == KeyOf(n)
           new == Registered(n, request.command.addresses, maxLifetime)
           a == Accepted(request)
<1>1. /\ request \in Request
      /\ request.command.type = "Register"
      /\ Register(n, request.command.addresses, maxLifetime)
      /\ accepted' = DbPut(accepted, k, a)
  BY DEF HandleRegister, Handling, ProcessInv
<1>2. n \in Nodes /\ request.command.addresses \in Addresses /\ maxLifetime \in Lifetimes
  BY <1>1, ServerAssumption DEF Request, Command, ProcessInv
<1>3. new \in Registration /\ KeyOf(new.identity) = k /\ new.lastRegistration = now
  BY <1>2, RegisteredIsFiled DEF StoreInv
<1>4. rdb' = DbPut(rdb, k, new)
  BY <1>1, <1>3 DEF Register
<1>5. Agrees(new, a)
  <2>1. n \in NodeIdentifier /\ new.identity \in NodeIdentifier
    BY <1>2, <1>3, IdentificationAssumption DEF Registration
  <2>2. new.identity.peer = n.peer
    BY <1>3, <2>1, KeysTellPeers
  <2>3. new.identity.discoverability = n.discoverability
    <3>1. CASE k \in DOMAIN rdb
      <4>1. rdb[k].identity \in NodeIdentifier
        BY <3>1 DEF StoreInv, StoreTypeOK, Registration
      <4> QED BY <3>1, <4>1 DEF Registered, Merge, NodeIdentifier
    <3>2. CASE k \notin DOMAIN rdb
      BY <3>2 DEF Registered
    <3> QED BY <3>1, <3>2
  <2>4. new.addresses = request.command.addresses /\ new.ttl = maxLifetime
    BY DEF Registered
  <2> QED BY <1>3, <2>2, <2>3, <2>4 DEF Agrees, Accepted
<1> HIDE DEF new, a, k
<1>6. DOMAIN rdb' = DOMAIN accepted'
  BY <1>1, <1>4 DEF DbPut, HoldsWhatItAccepted
<1>7. \A x \in DOMAIN rdb' : Agrees(rdb'[x], accepted'[x])
  BY <1>1, <1>4, <1>5 DEF DbPut, HoldsWhatItAccepted, Agrees
<1> QED BY <1>6, <1>7 DEF HoldsWhatItAccepted, Agrees

LEMMA DeregisterHeld ==
  ASSUME HoldsWhatItAccepted, NEW k, rdb' = DbDelete(rdb, k), accepted' = DbDelete(accepted, k)
  PROVE  HoldsWhatItAccepted'
BY DEF HoldsWhatItAccepted, DbDelete

LEMMA HeldStep ==
  ASSUME StoreInv, ProcessInv, HoldsWhatItAccepted, [ServerNext]_serverVars
  PROVE  HoldsWhatItAccepted'
<1>1. CASE UNCHANGED <<rdb, accepted>>
  BY <1>1, HeldKept
<1>2. CASE AnnounceExpired
  <2>1. PICK e \in edb : rdb' = DbDelete(rdb, e) /\ accepted' = accepted
    BY <1>2 DEF AnnounceExpired, PollExpires
  <2>2. e \notin DOMAIN rdb
    BY EntriesAreNoKeys DEF StoreInv
  <2>3. DOMAIN rdb' = DOMAIN rdb /\ \A k \in DOMAIN rdb : rdb'[k] = rdb[k]
    BY <2>1, <2>2 DEF DbDelete
  <2> QED BY <2>1, <2>3, HeldKept
<1>3. CASE HandleRegister
  BY <1>3, RegisterHeld
<1>4. CASE HandleDeregister
  BY <1>4, DeregisterHeld DEF HandleDeregister, Deregister
<1>5. CASE UNCHANGED serverVars
  BY <1>1, <1>5 DEF serverVars, storeVars, outVars
<1>6. CASE ServerEnvironment
  BY <1>1, <1>6 DEF ServerEnvironment, ServerTick, Receive, ChannelCloses, Crash, Restart,
                    storeVars, outVars
<1>7. CASE NothingExpired \/ PollFails \/ NothingReceived
  BY <1>1, <1>7 DEF NothingExpired, PollDropsEntry, PollIdle, PollFails, NothingReceived,
                    storeVars, outVars
<1>8. CASE HandleDiscover \/ HandleFind \/ HandleGroups \/ HandleFails
  BY <1>1, <1>8 DEF HandleDiscover, HandleFind, HandleGroups, HandleFails, storeVars
<1> QED BY <1>2, <1>3, <1>4, <1>5, <1>6, <1>7, <1>8 DEF ServerNext, Poll, HandleRequest

\* The store holds the last registration accepted for each key and nothing
\* else: merging identities, cleaning the index, failing transactions, crashes
\* and restarts neither lose nor revive nor outdate one.
THEOREM HoldsAccepted == ServerSpec => []HoldsWhatItAccepted
<1>1. ServerInit => HoldsWhatItAccepted
  BY DEF ServerInit, StoreInit, HoldsWhatItAccepted
<1>2. StoreInv /\ ProcessInv /\ HoldsWhatItAccepted /\ [ServerNext]_serverVars
      => HoldsWhatItAccepted'
  BY HeldStep
<1> QED BY <1>1, <1>2, ProcessInvariant, ServerStoreInvariant, PTL DEF ServerSpec

-----------------------------------------------------------------------------
(***************************************************************************)
(* Discover.                                                               *)
(***************************************************************************)

\* The keys of such names have three segments, and a prefix of a key tells
\* namespaces and groups apart.
OneSegmentNames ==
  /\ \A n \in Nodes : Len(n.namespace) = 1 /\ Len(GroupOf(n)) = 1
  /\ \A c \in Commands : c.type = "Discover" => Len(c.group) <= 1

\* What was accepted under a key came from a node of that key.
AcceptedUnderOwnKey ==
  \A k \in DOMAIN accepted : accepted[k].node \in Nodes /\ KeyOf(accepted[k].node) = k

LEMMA AcceptedStep ==
  ASSUME ProcessInv, AcceptedUnderOwnKey, [ServerNext]_serverVars
  PROVE  AcceptedUnderOwnKey'
<1> USE DEF AcceptedUnderOwnKey
<1>1. CASE UNCHANGED accepted
  BY <1>1
<1>2. CASE HandleRegister
  <2>1. Head(inbox).source \in Nodes
    <3>1. inbox # << >> /\ inbox \in Seq(Request)
      BY <1>2 DEF HandleRegister, Handling, ProcessInv
    <3>2. Head(inbox) \in Request
      BY <3>1
    <3> QED BY <3>2 DEF Request
  <2>2. accepted' = DbPut(accepted, KeyOf(Head(inbox).source), Accepted(Head(inbox)))
    BY <1>2 DEF HandleRegister
  <2> QED BY <2>1, <2>2 DEF DbPut, Accepted
<1>3. CASE HandleDeregister
  BY <1>3 DEF HandleDeregister, DbDelete
<1>4. CASE UNCHANGED serverVars \/ ServerEnvironment \/ AnnounceExpired \/ NothingExpired
           \/ PollFails \/ NothingReceived
  BY <1>1, <1>4 DEF serverVars, outVars, ServerEnvironment, ServerTick, Receive, ChannelCloses,
                    Crash, Restart, AnnounceExpired, NothingExpired, PollFails, NothingReceived
<1>5. CASE HandleDiscover \/ HandleFind \/ HandleGroups \/ HandleFails
  BY <1>1, <1>5 DEF HandleDiscover, HandleFind, HandleGroups, HandleFails
<1> QED BY <1>2, <1>3, <1>4, <1>5 DEF ServerNext, Poll, HandleRequest

\* The registrations that a Discover command of node about group is answered
\* with are those that Discoverable tells from what was accepted.
LEMMA DiscoverAnswers ==
  ASSUME OneSegmentNames, StoreInv, HoldsWhatItAccepted, AcceptedUnderOwnKey,
         NEW n \in Nodes, NEW group \in Name \cup {NoGroup}, Len(group) <= 1,
         Requester = n
  PROVE  {KeyOf(p.identity) : p \in Discover(n, group)} =
         {k \in DOMAIN accepted : Discoverable(accepted[k], group)}
<1>1. DOMAIN rdb = DOMAIN accepted /\ \A k \in DOMAIN rdb : KeyOf(rdb[k].identity) = k
  BY DEF HoldsWhatItAccepted, StoreInv, FiledUnderOwnKey
<1>2. ASSUME NEW k \in DOMAIN accepted
      PROVE  (IsPrefix(n.namespace \o group, k) /\ k # KeyOf(n) /\ Visible(rdb[k].identity, n))
               <=> Discoverable(accepted[k], group)
  <2> DEFINE a == accepted[k].node
             id == rdb[k].identity
  <2>1. a \in Nodes /\ a \in NodeIdentifier /\ n \in NodeIdentifier /\ KeyOf(a) = k
    BY <1>2, IdentificationAssumption DEF AcceptedUnderOwnKey
  <2>2. id \in NodeIdentifier /\ KeyOf(id) = k
    BY <1>1, <1>2 DEF StoreInv, StoreTypeOK, Registration
  <2>3. Len(k) = 3
    <3>1. Len(a.namespace) = 1 /\ Len(GroupOf(a)) = 1
      BY <2>1 DEF OneSegmentNames
    <3>2. Len(KeyOf(a)) = Len(a.namespace) + Len(GroupOf(a)) + 1
      BY <2>1, KeyParts
    <3> QED BY <2>1, <3>1, <3>2
  <2>4. GroupOf(id) = GroupOf(a)
    BY <2>1, <2>2, <2>3, ShortKeysTellNames
  <2>5. id.discoverability = a.discoverability
    BY <1>1, <1>2 DEF HoldsWhatItAccepted
  <2>6. IsPrefix(n.namespace \o group, k)
          <=> a.namespace = n.namespace /\ (group # NoGroup => GroupOf(a) = group)
    <3>1. n.namespace \in Name /\ Len(n.namespace) = 1
      BY <2>1 DEF NodeIdentifier, OneSegmentNames
    <3> QED BY <2>1, <2>3, <3>1, PrefixTellsNames
  <2>7. Visible(id, n) <=> \/ a.discoverability = "Namespace"
                           \/ a.discoverability = "Group" /\ GroupOf(a) = GroupOf(n)
    BY <2>4, <2>5 DEF Visible
  <2> HIDE DEF id
  <2> QED BY <2>1, <2>6, <2>7 DEF Discoverable, id
<1>3. {KeyOf(p.identity) : p \in Discover(n, group)} =
      {k \in DOMAIN rdb : /\ IsPrefix(n.namespace \o group, k) /\ k # KeyOf(n)
                          /\ Visible(rdb[k].identity, n)}
  BY <1>1 DEF Discover, KeysUnder
<1> QED BY <1>1, <1>2, <1>3

LEMMA DiscoverStep ==
  ASSUME OneSegmentNames, ProcessInv, StoreInv, HoldsWhatItAccepted, AcceptedUnderOwnKey,
         [ServerNext]_serverVars, NEW r \in NewReplies("Discover")
  PROVE  {KeyOf(p.identity) : p \in r.response.peers} =
         {k \in DOMAIN accepted : Discoverable(accepted[k], Head(inbox).command.group)}
<1>1. r \in replies' /\ r \notin replies /\ r.response.type = "Discover"
  BY DEF NewReplies
<1>2. CASE HandleDiscover
  <2> DEFINE request == Head(inbox)
             answer == DiscoverOk(Discover(request.source, request.command.group))
  <2>1. request \in Request /\ request.command.type = "Discover"
    BY <1>2 DEF HandleDiscover, Handling, ProcessInv
  <2>2. request.command.group \in Name \cup {NoGroup} /\ Len(request.command.group) <= 1
    BY <2>1, ServerAssumption DEF Request, Command, OneSegmentNames
  <2>3. r.response = answer
    BY <1>1, <1>2 DEF HandleDiscover, Respond
  <2>4. r.response.peers = Discover(request.source, request.command.group)
    BY <2>3 DEF DiscoverOk
  <2> QED BY <2>1, <2>2, <2>4, DiscoverAnswers DEF Request, Requester
<1>3. ASSUME NEW response, NEW evt, Respond(Head(inbox), response, evt),
             response.type # "Discover"
      PROVE  FALSE
  BY <1>1, <1>3 DEF Respond
<1>4. CASE HandleRegister
  BY <1>3, <1>4 DEF HandleRegister, RegisterOk
<1>5. CASE HandleDeregister \/ HandleFind \/ HandleGroups
  BY <1>3, <1>5 DEF HandleDeregister, HandleFind, HandleGroups, DeregisterOk, FindOk, GroupsOk
<1>6. CASE HandleFails
  BY <1>3, <1>6 DEF HandleFails, Failed
<1>7. CASE UNCHANGED replies
  BY <1>1, <1>7
<1>8. CASE UNCHANGED serverVars \/ ServerEnvironment \/ AnnounceExpired \/ NothingExpired
           \/ PollFails \/ NothingReceived
  BY <1>7, <1>8 DEF serverVars, outVars, ServerEnvironment, ServerTick, Receive, ChannelCloses,
                    Crash, Restart, AnnounceExpired, NothingExpired, PollFails, NothingReceived
<1> QED BY <1>2, <1>4, <1>5, <1>6, <1>8 DEF ServerNext, Poll, HandleRequest

\* Where namespaces and groups have one segment, a Discover response names
\* exactly the peers that the source may see: the scan by prefix, the merged
\* identities and the two spellings of the default group make no difference.
THEOREM DiscoverExact == OneSegmentNames => (ServerSpec => DiscoverIsExact)
<1>1. ServerInit => AcceptedUnderOwnKey
  BY DEF ServerInit, AcceptedUnderOwnKey
<1>2. ProcessInv /\ AcceptedUnderOwnKey /\ [ServerNext]_serverVars => AcceptedUnderOwnKey'
  BY AcceptedStep
<1>3. SUFFICES ASSUME OneSegmentNames
               PROVE  ServerSpec => DiscoverIsExact
  OBVIOUS
<1>4. ProcessInv /\ StoreInv /\ HoldsWhatItAccepted /\ AcceptedUnderOwnKey
      /\ [ServerNext]_serverVars
      => [\A r \in NewReplies("Discover") :
            {KeyOf(p.identity) : p \in r.response.peers} =
            {k \in DOMAIN accepted : Discoverable(accepted[k], Head(inbox).command.group)}]_serverVars
  BY <1>3, DiscoverStep
<1> QED BY <1>1, <1>2, <1>4, HoldsAccepted, ProcessInvariant, ServerStoreInvariant, PTL
        DEF ServerSpec, DiscoverIsExact

=============================================================================
