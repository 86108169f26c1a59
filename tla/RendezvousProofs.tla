-------------------------- MODULE RendezvousProofs --------------------------
(***************************************************************************)
(* Client, network and server together, proved for every set of nodes,     *)
(* commands and lifetimes: each side behaves as it does by itself, so what *)
(* was proved of it there holds here, and what the client believes of the  *)
(* server, and the server has promised, is so.                             *)
(***************************************************************************)
EXTENDS Rendezvous, RendezvousClientProofs, RendezvousServerProofs

-----------------------------------------------------------------------------
(***************************************************************************)
(* The inductive invariant.                                                *)
(***************************************************************************)

\* The request i of the client, if it is not answered yet, is this command.
Asks(i, command) ==
  i \in DOMAIN processing_requests => processing_requests[i].command = command

\* The response would do for the request i of the client.
Suits(i, response) ==
  i \in DOMAIN processing_requests => response \in Answers(processing_requests[i].command)

OriginInv == /\ origin \in Seq(Nat)
             /\ Len(origin) = received
             /\ \A i \in 1..received : origin[i] <= sent

\* What travels for the client, in either direction, is what it asked for, or
\* suits that; a request of another node never gets the client's id.
WireInv ==
  \A m \in wire : /\ m.id \in 1..sent
                  /\ m.command \in ClientCommands
                  /\ Asks(m.id, m.command)

InboxInv ==
  \A i \in DOMAIN inbox :
    /\ inbox[i].id \in 1..received
    /\ origin[inbox[i].id] # Stranger => Asks(origin[inbox[i].id], inbox[i].command)
    /\ origin[inbox[i].id] # Stranger => inbox[i].source = Self

RepliesInv ==
  \A r \in replies : /\ r.id \in 1..received
                     /\ origin[r.id] # Stranger => Suits(origin[r.id], r.response)

\* The store holds what the client expects to be answered with.
StoredInv == \A k \in DOMAIN rdb : rdb[k] \in Stored

ServerInv == ProcessInv /\ StoreInv /\ StoredInv

NetworkInv == OriginInv /\ WireInv /\ InboxInv /\ RepliesInv

-----------------------------------------------------------------------------
(***************************************************************************)
(* The responses of the server suit the requests.                          *)
(***************************************************************************)

LEMMA StoredGrows ==
  ASSUME now \in Nat, now' \in Nat, now <= now', NEW r \in Stored
  PROVE  r \in Stored'
BY DEF Stored, Merged

LEMMA AnswersGrow ==
  ASSUME now \in Nat, now' \in Nat, now <= now', NEW command \in Command,
         NEW r \in Answers(command)
  PROVE  r \in Answers(command)'
<1>1. \A t \in 0..now : t \in 0..now'
  OBVIOUS
<1>2. Stored \subseteq Stored'
  BY StoredGrows
<1>3. ASSUME NEW R \in FiledOnce
      PROVE  R \in FiledOnce'
  <2>1. PICK f \in UNION {[K -> Stored] : K \in SUBSET Key} :
          R = Range(f) /\ \A k \in DOMAIN f : KeyOf(f[k].identity) = k
    BY <1>3 DEF FiledOnce
  <2>2. f \in UNION {[K -> Stored'] : K \in SUBSET Key}
    BY <1>2, <2>1
  <2> QED BY <2>1, <2>2 DEF FiledOnce
<1>4. CASE r \in {Failure, Failed(command.type)}
  BY <1>4 DEF Answers
<1>5. CASE command.type = "Register" /\ r \in {RegisterOk(t + l) : t \in 0..now, l \in Lifetimes}
  BY <1>1, <1>5 DEF Answers
<1>6. CASE command.type = "Find" /\ r \in {FindOk({q}) : q \in Stored} \cup {FindOk({})}
  BY <1>2, <1>6 DEF Answers
<1>7. CASE command.type = "Discover" /\ r \in {DiscoverOk(R) : R \in FiledOnce}
  BY <1>3, <1>7 DEF Answers
<1>8. CASE \/ command.type = "Deregister" /\ r = DeregisterOk
           \/ command.type = "Groups" /\ r \in {GroupsOk(G) : G \in SUBSET SpelledGroups}
  BY <1>8 DEF Answers
<1>9. command.type \in CommandTypes
  BY DEF Command, CommandTypes
<1>10. \/ r \in {Failure, Failed(command.type)}
       \/ command.type = "Register" /\ r \in {RegisterOk(t + l) : t \in 0..now, l \in Lifetimes}
       \/ command.type = "Find" /\ r \in {FindOk({q}) : q \in Stored} \cup {FindOk({})}
       \/ command.type = "Discover" /\ r \in {DiscoverOk(R) : R \in FiledOnce}
       \/ command.type = "Deregister" /\ r = DeregisterOk
       \/ command.type = "Groups" /\ r \in {GroupsOk(G) : G \in SUBSET SpelledGroups}
  BY <1>9 DEF Answers, CommandTypes
<1> QED BY <1>4, <1>5, <1>6, <1>7, <1>8, <1>10

\* What the server responds to a request is an answer to its command.
LEMMA ServerAnswers ==
  ASSUME ServerInv, HandleRequest
  PROVE  /\ inbox # << >> /\ Head(inbox) \in Request /\ Head(inbox) = inbox[1]
         /\ now' = now
         /\ \E response \in Answers(Head(inbox).command) : \E evt :
              /\ Respond(Head(inbox), response, evt)
              /\ evt.type # "ExpiredRegistration"
<1> DEFINE request == Head(inbox)
           command == request.command
<1>1. inbox # << >> /\ now' = now
  BY DEF HandleRequest, HandleRegister, HandleDeregister, HandleDiscover, HandleFind, HandleGroups,
         HandleFails, Handling, storeVars
<1>2. request \in Request /\ request = inbox[1] /\ command \in Command
  <2>1. inbox \in Seq(Request)
    BY DEF ServerInv, ProcessInv
  <2>2. request \in Request /\ request = inbox[1]
    BY <1>1, <2>1
  <2> QED BY <2>2, ServerAssumption DEF Request
<1>3. now \in Nat /\ maxLifetime \in Lifetimes
  BY DEF ServerInv, StoreInv, StoreTypeOK, ProcessInv
<1> HIDE DEF request
<1>4. CASE HandleRegister
  <2> DEFINE created == Registered(request.source, command.addresses, maxLifetime)
             answer == RegisterOk(created.lastRegistration + maxLifetime)
             evt == [type |-> "CreatedRegistration", registration |-> created]
  <2>1. command.type = "Register" /\ Respond(request, answer, evt)
    BY <1>4 DEF HandleRegister, Handling, request
  <2>2. created.lastRegistration = now /\ now \in 0..now
    BY <1>3 DEF Registered
  <2>3. answer \in Answers(command)
    BY <1>3, <2>1, <2>2 DEF Answers
  <2> QED BY <1>1, <1>2, <2>1, <2>3 DEF request
<1>5. CASE HandleDeregister
  <2> DEFINE evt == [type |-> "RemovedRegistration", source |-> request.source]
  <2>1. command.type = "Deregister" /\ Respond(request, DeregisterOk, evt)
    BY <1>5 DEF HandleDeregister, Handling, request
  <2>2. DeregisterOk \in Answers(command)
    BY <2>1 DEF Answers
  <2> QED BY <1>1, <1>2, <2>1, <2>2 DEF request
<1>6. CASE HandleDiscover
  <2> DEFINE R == Discover(request.source, command.group)
             evt == [type |-> "ServedDiscovery", source |-> request.source]
  <2>1. command.type = "Discover" /\ Respond(request, DiscoverOk(R), evt)
    BY <1>6 DEF HandleDiscover, Handling, request
  <2>2. R \in FiledOnce
    <3> DEFINE K == {k \in KeysUnder(request.source.namespace, command.group) :
                       k # KeyOf(request.source) /\ Visible(rdb[k].identity, request.source)}
               f == [k \in K |-> rdb[k]]
    <3>1. K \subseteq DOMAIN rdb /\ K \in SUBSET Key
      BY DEF KeysUnder, ServerInv, StoreInv, StoreTypeOK
    <3>2. R = {rdb[k] : k \in K}
      BY DEF Discover
    <3> HIDE DEF K
    <3>3. f \in [K -> Stored] /\ \A k \in DOMAIN f : KeyOf(f[k].identity) = k
      BY <3>1 DEF ServerInv, StoredInv, StoreInv, FiledUnderOwnKey
    <3>4. Range(f) = R
      BY <3>2 DEF Range
    <3> QED BY <3>1, <3>3, <3>4 DEF FiledOnce
  <2>3. DiscoverOk(R) \in Answers(command)
    BY <2>1, <2>2 DEF Answers
  <2> QED BY <1>1, <1>2, <2>1, <2>3 DEF request
<1>7. CASE HandleFind
  <2> DEFINE evt == [type |-> "ServedFind", source |-> request.source]
  <2>1. command.type = "Find" /\ Respond(request, FindOk(Get(command.key)), evt)
    BY <1>7 DEF HandleFind, Handling, request
  <2>2. Get(command.key) = {} \/ \E q \in Stored : Get(command.key) = {q}
    BY DEF Get, ServerInv, StoredInv
  <2>3. FindOk(Get(command.key)) \in {FindOk({q}) : q \in Stored} \cup {FindOk({})}
    BY <2>2
  <2>4. FindOk(Get(command.key)) \in Answers(command)
    BY <2>1, <2>3 DEF Answers
  <2> QED BY <1>1, <1>2, <2>1, <2>4 DEF request
<1>8. CASE HandleGroups
  <2> DEFINE G == Groups(request.source.namespace)
             evt == [type |-> "ServedGroups", source |-> request.source]
  <2>1. command.type = "Groups" /\ Respond(request, GroupsOk(G), evt)
    BY <1>8 DEF HandleGroups, Handling, request
  <2>2. ASSUME NEW k \in DOMAIN rdb
        PROVE  \E n \in Nodes : rdb[k].identity.group = n.group
    <3> DEFINE id == rdb[k].identity
    <3>1. id \in Merged
      BY DEF ServerInv, StoredInv, Stored
    <3> HIDE DEF id
    <3>2. PICK n \in Nodes, m \in Nodes : id = [n EXCEPT !.discoverability = m.discoverability]
      BY <3>1 DEF Merged, Merge
    <3>3. n \in NodeIdentifier
      BY IdentificationAssumption
    <3>4. id.group = n.group
      BY <3>2, <3>3 DEF NodeIdentifier
    <3> QED BY <3>4 DEF id
  <2>3. G \in SUBSET SpelledGroups
    BY <2>2 DEF Groups, KeysUnder, SpelledGroups
  <2>4. GroupsOk(G) \in Answers(command)
    BY <2>1, <2>3 DEF Answers
  <2> QED BY <1>1, <1>2, <2>1, <2>4 DEF request
<1>9. CASE HandleFails
  <2> DEFINE evt == [type |-> "Failure", source |-> request.source]
  <2>1. Respond(request, Failed(command.type), evt)
    BY <1>9 DEF HandleFails, request
  <2>2. Failed(command.type) \in Answers(command)
    BY DEF Answers
  <2> QED BY <1>1, <1>2, <2>1, <2>2 DEF request
<1> QED BY <1>4, <1>5, <1>6, <1>7, <1>8, <1>9 DEF HandleRequest

\* What register() stores is a registration of a node, merged or not, of now.
LEMMA StoredStep ==
  ASSUME StoreInv, StoredInv, [StoreNext]_storeVars
  PROVE  StoredInv'
<1>1. now \in Nat /\ now' \in Nat /\ now <= now'
  BY DEF StoreInv, StoreTypeOK, StoreNext, StoreTick, Tick, storeVars
<1>2. Stored \subseteq Stored'
  BY <1>1, StoredGrows
<1>3. ASSUME DOMAIN rdb' \subseteq DOMAIN rdb, \A k \in DOMAIN rdb' : rdb'[k] = rdb[k]
      PROVE  StoredInv'
  BY <1>2, <1>3 DEF StoredInv
<1>4. ASSUME NEW n \in Nodes, NEW a \in Addresses, NEW l \in Lifetimes, Register(n, a, l)
      PROVE  StoredInv'
  <2> DEFINE created == Registered(n, a, l)
             k == KeyOf(n)
  <2>1. created.identity \in Merged
    <3>1. CASE k \in DOMAIN rdb
      <4> DEFINE id == rdb[k].identity
      <4>1. id \in Merged
        BY <3>1 DEF StoredInv, Stored
      <4>2. created.identity = Merge(id, n)
        BY <3>1 DEF Registered
      <4> HIDE DEF id, created
      <4>3. PICK x \in Nodes, m \in Nodes : id = Merge(x, m)
        BY <4>1 DEF Merged
      <4>4. Merge(id, n) = Merge(x, n)
        BY <4>3, IdentificationAssumption DEF Merge, NodeIdentifier
      <4> QED BY <4>2, <4>4 DEF Merged
    <3>2. CASE k \notin DOMAIN rdb
      <4>1. n = Merge(n, n)
        BY IdentificationAssumption DEF Merge, NodeIdentifier
      <4>2. n \in Merged
        BY <4>1 DEF Merged
      <4>3. Registered(n, a, l).identity = n
        BY <3>2 DEF Registered
      <4> QED BY <4>2, <4>3
    <3> QED BY <3>1, <3>2
  <2>2. created = [identity |-> created.identity, addresses |-> a, lastRegistration |-> now,
                   ttl |-> l]
    BY DEF Registered
  <2>3. created \in Stored
    <3> DEFINE id == created.identity
    <3> HIDE DEF id
    <3>1. created = [identity |-> id, addresses |-> a, lastRegistration |-> now, ttl |-> l]
      BY <2>2 DEF id
    <3> QED BY <1>1, <2>1, <3>1 DEF Stored, id
  <2>4. rdb' = DbPut(rdb, KeyOf(created.identity), created)
    BY <1>4 DEF Register
  <2> HIDE DEF created
  <2> QED BY <1>2, <2>3, <2>4 DEF StoredInv, DbPut
<1>5. ASSUME NEW k, rdb' = DbDelete(rdb, k)
      PROVE  StoredInv'
  BY <1>3, <1>5 DEF DbDelete
<1>6. CASE StoreTick \/ UNCHANGED storeVars
  BY <1>3, <1>6 DEF StoreTick, storeVars
<1>7. CASE StoreWrite
  BY <1>4, <1>5, <1>7 DEF StoreWrite, Deregister
<1>8. CASE StorePoll
  BY <1>3, <1>5, <1>8 DEF StorePoll, PollExpires, PollDropsEntry
<1> QED BY <1>6, <1>7, <1>8 DEF StoreNext

-----------------------------------------------------------------------------
(***************************************************************************)
(* Each side behaves as by itself.                                         *)
(***************************************************************************)

\* What the client's calls send.
LEMMA CallsSend ==
  ASSUME ClientInv, ClientCalls
  PROVE  /\ now' = now /\ sent' \in Nat /\ sent <= sent'
         /\ \A id \in DOMAIN processing_requests :
              id \in DOMAIN processing_requests'
                /\ processing_requests'[id] = processing_requests[id]
         /\ \A id \in DOMAIN processing_requests' \ DOMAIN processing_requests :
              /\ id \in sent + 1 .. sent'
              /\ processing_requests'[id].command \in ClientCommands
<1>1. ASSUME NEW targets \in SUBSET Servers, IsFiniteSet(targets), NEW command \in ClientCommands,
             SendRequests(targets, command), UNCHANGED <<now, outcomes>>
      PROVE  /\ now' = now /\ sent' \in Nat /\ sent <= sent'
             /\ \A id \in DOMAIN processing_requests :
                  id \in DOMAIN processing_requests'
                    /\ processing_requests'[id] = processing_requests[id]
             /\ \A id \in DOMAIN processing_requests' \ DOMAIN processing_requests :
                  /\ id \in sent + 1 .. sent'
                  /\ processing_requests'[id].command \in ClientCommands
  <2>1. command \in Command
    BY ClientAssumption DEF ClientCommands, Command
  <2>2. RequestsInv'
    BY <1>1, <2>1, SendRequestsKeeps DEF ClientInv
  <2>3. sent' \in Nat
    BY <2>2 DEF RequestsInv
  <2> QED BY <1>1, <2>1, <2>3, SendRequestsKeeps DEF ClientInv
<1>2. ASSUME UNCHANGED <<now, requestVars>>
      PROVE  /\ now' = now /\ sent' \in Nat /\ sent <= sent'
             /\ UNCHANGED processing_requests
  BY <1>2 DEF requestVars, ClientInv, RequestsInv
<1>3. ASSUME NEW s \in Servers
      PROVE  {s} \in SUBSET Servers /\ IsFiniteSet({s})
  BY FS_Singleton
<1>4. CASE \E s \in Servers : RegisterAt(s)
  <2>1. PICK s \in Servers : RegisterAt(s)
    BY <1>4
  <2>2. RegisterCommand \in ClientCommands
    BY <2>1 DEF RegisterAt, RegisterCommand, ClientCommands, ClientInv, TaskInv
  <2> QED BY <1>1, <1>3, <2>1, <2>2 DEF RegisterAt
<1>5. CASE \E s \in Servers : DeregisterAt(s)
  <2>1. PICK s \in Servers : DeregisterAt(s)
    BY <1>5
  <2>2. [type |-> "Deregister"] \in ClientCommands
    BY DEF ClientCommands
  <2> QED BY <1>1, <1>3, <2>1, <2>2 DEF DeregisterAt
<1>6. CASE \E s \in Servers, c \in Queries : Query(s, c)
  <2>1. PICK s \in Servers, c \in Queries : Query(s, c)
    BY <1>6
  <2>2. c \in ClientCommands
    BY DEF ClientCommands
  <2> QED BY <1>1, <1>3, <2>1, <2>2 DEF Query
<1>7. ASSUME NEW a \in Addresses \cup {NoAddresses}, AddressesChange(a), a # NoAddresses
      PROVE  /\ SendRequests(DOMAIN rendezvous_points, [type |-> "Register", addresses |-> a])
             /\ UNCHANGED <<now, outcomes>>
             /\ DOMAIN rendezvous_points \in SUBSET Servers /\ IsFiniteSet(DOMAIN rendezvous_points)
             /\ [type |-> "Register", addresses |-> a] \in ClientCommands
  BY <1>7 DEF AddressesChange, ClientInv, TablesInv, ClientCommands
<1>8. CASE \E a \in Addresses \cup {NoAddresses} : AddressesChange(a)
  <2>1. PICK a \in Addresses \cup {NoAddresses} : AddressesChange(a)
    BY <1>8
  <2>2. CASE a # NoAddresses
    BY <1>1, <1>7, <2>1, <2>2
  <2>3. CASE a = NoAddresses
    BY <1>2, <2>1, <2>3 DEF AddressesChange
  <2> QED BY <2>2, <2>3
<1> QED BY <1>4, <1>5, <1>6, <1>8 DEF ClientCalls

\* What the client's own steps do to its requests.
LEMMA RunsForget ==
  ASSUME TimersFire \/ ClientPoll
  PROVE  /\ now' = now /\ sent' = sent
         /\ \A id \in DOMAIN processing_requests' :
              id \in DOMAIN processing_requests
                /\ processing_requests'[id] = processing_requests[id]
<1>1. ASSUME NEW type, Handle(type)
      PROVE  /\ now' = now /\ sent' = sent
             /\ \A id \in DOMAIN processing_requests' :
                  id \in DOMAIN processing_requests
                    /\ processing_requests'[id] = processing_requests[id]
  BY <1>1, RestrictProperties DEF Handle
<1>2. CASE HandleOutcome
  BY <1>1, <1>2 DEF HandleOutcome, HandleRegisterOk, HandleDeregisterOk, HandleDiscoverOk,
                    HandleFindOk, HandleGroupsOk, HandleFailure
<1>3. CASE TimersFire \/ NoOutcome \/ ArmPeerTimer \/ PeerExpires \/ NoPeerExpires
           \/ ArmRegistrationTimer \/ RegistrationExpires \/ NoRegistrationExpires
  BY <1>3 DEF TimersFire, TimerFires, NoOutcome, ArmPeerTimer, PeerExpires, NoPeerExpires,
              ArmRegistrationTimer, RegistrationExpires, NoRegistrationExpires, requestVars
<1> QED BY <1>2, <1>3 DEF ClientPoll

LEMMA ServerRunsKeepsTime == ASSUME ServerInv, Poll \/ Crash \/ \E l \in Lifetimes : Restart(l)
                             PROVE  now' = now /\ received' = received
<1>1. CASE HandleRequest
  BY <1>1, ServerAnswers DEF Respond
<1>2. CASE AnnounceExpired \/ NothingExpired \/ PollFails \/ NothingReceived \/ Crash
           \/ \E l \in Lifetimes : Restart(l)
  BY <1>2 DEF AnnounceExpired, NothingExpired, PollFails, NothingReceived, Crash, Restart,
              innerVars, storeVars
<1> QED BY <1>1, <1>2 DEF Poll

\* Each step of the composition is one the client may take by itself.
LEMMA StepOfClient ==
  ASSUME ClientInv, ServerInv, NetworkInv, [RendezvousNext]_rendezvousVars
  PROVE  [ClientNext]_clientVars
<1>1. ASSUME UNCHANGED <<now, clientPart>>
      PROVE  UNCHANGED clientVars
  BY <1>1 DEF clientPart, clientVars
<1>2. CASE Passes
  BY <1>2 DEF Passes, clientPart, ClientTick, ClientNext
<1>3. CASE ClientCallsOut \/ ClientRuns
  BY <1>3 DEF ClientCallsOut, ClientRuns, ClientNext
<1>4. CASE ServerRuns
  BY <1>1, <1>4, ServerRunsKeepsTime DEF ServerRuns
<1>5. ASSUME NEW m \in wire, Arrives(m)
      PROVE  UNCHANGED clientVars
  BY <1>1, <1>5 DEF Arrives, Receive, storeVars
<1>6. ASSUME NEW q \in StrangerRequests, StrangerAsks(q)
      PROVE  UNCHANGED clientVars
  BY <1>1, <1>6 DEF StrangerAsks, Receive, storeVars
<1>7. ASSUME NEW r \in replies, Returns(r)
      PROVE  ClientNext
  <2>1. origin[r.id] \in InFlight /\ Deliver(origin[r.id], r.response)
    BY <1>7 DEF Returns, Deliver
  <2>2. r.response \in Answers(processing_requests[origin[r.id]].command)
    BY <1>7, <2>1 DEF Returns, InFlight, NetworkInv, RepliesInv, Suits
  <2> QED BY <2>1, <2>2 DEF ClientNext, OutcomesArrive
<1>8. ASSUME NEW id \in InFlight, GivesUp(id)
      PROVE  ClientNext
  <2>1. Failure \in Answers(processing_requests[id].command)
    BY DEF Answers
  <2> QED BY <1>8, <2>1 DEF GivesUp, ClientNext, OutcomesArrive
<1>9. CASE UNCHANGED rendezvousVars
  BY <1>1, <1>9 DEF rendezvousVars
<1> QED BY <1>2, <1>3, <1>4, <1>5, <1>6, <1>7, <1>8, <1>9 DEF RendezvousNext

\* And one the server may take by itself.
LEMMA StepOfServer ==
  ASSUME ClientInv, NetworkInv, [RendezvousNext]_rendezvousVars
  PROVE  [ServerNext]_serverVars
<1>1. ASSUME UNCHANGED <<now, serverPart>>
      PROVE  UNCHANGED serverVars
  BY <1>1 DEF serverPart, serverVars, storeVars
<1>2. CASE Passes
  BY <1>2 DEF Passes, serverPart, ServerTick, ServerEnvironment, ServerNext
<1>3. CASE ClientCallsOut
  BY <1>1, <1>3, CallsSend DEF ClientCallsOut
<1>4. CASE ClientRuns
  BY <1>1, <1>4, RunsForget DEF ClientRuns
<1>5. CASE ServerRuns
  BY <1>5 DEF ServerRuns, ServerNext, ServerEnvironment
<1>6. ASSUME NEW m \in wire, Arrives(m)
      PROVE  ServerNext
  <2>1. m.command \in Commands
    BY RendezvousAssumption DEF NetworkInv, WireInv
  <2> QED BY <1>6, <2>1, RendezvousAssumption DEF Arrives, ServerNext, ServerEnvironment
<1>7. ASSUME NEW q \in StrangerRequests, StrangerAsks(q)
      PROVE  ServerNext
  <2>1. q.source \in Nodes /\ q.command \in Commands
    BY RendezvousAssumption
  <2> QED BY <1>7, <2>1 DEF StrangerAsks, ServerNext, ServerEnvironment
<1>8. ASSUME NEW r \in replies, Returns(r)
      PROVE  UNCHANGED serverVars
  BY <1>1, <1>8 DEF Returns, Deliver
<1>9. ASSUME NEW id \in InFlight, GivesUp(id)
      PROVE  UNCHANGED serverVars
  BY <1>1, <1>9 DEF GivesUp, Deliver
<1>10. CASE UNCHANGED rendezvousVars
  BY <1>1, <1>10 DEF rendezvousVars
<1> QED BY <1>2, <1>3, <1>4, <1>5, <1>6, <1>7, <1>8, <1>9, <1>10 DEF RendezvousNext

-----------------------------------------------------------------------------
(***************************************************************************)
(* The network.                                                            *)
(***************************************************************************)

\* No request that was sent changes, and none that was answered comes back.
Remembered ==
  \A id \in 1..sent :
    id \in DOMAIN processing_requests'
      => id \in DOMAIN processing_requests /\ processing_requests'[id] = processing_requests[id]

LEMMA WireKept ==
  ASSUME WireInv, sent \in Nat, sent' \in Nat, sent <= sent', Remembered,
         wire' \subseteq wire
  PROVE  WireInv'
BY DEF WireInv, Remembered, Asks

LEMMA InboxKept ==
  ASSUME InboxInv, OriginInv, sent \in Nat, received \in Nat, Remembered,
         UNCHANGED <<origin, received>>,
         \A i \in DOMAIN inbox' : \E j \in DOMAIN inbox : inbox'[i] = inbox[j]
  PROVE  InboxInv'
<1> SUFFICES ASSUME NEW i \in DOMAIN inbox'
             PROVE  /\ inbox'[i].id \in 1..received
                    /\ origin[inbox'[i].id] # Stranger =>
                         (origin[inbox'[i].id] \in DOMAIN processing_requests' =>
                            processing_requests'[origin[inbox'[i].id]].command = inbox'[i].command)
                    /\ origin[inbox'[i].id] # Stranger => inbox'[i].source = Self
  BY DEF InboxInv, Asks
<1>1. PICK j \in DOMAIN inbox : inbox'[i] = inbox[j]
  OBVIOUS
<1>2. inbox[j].id \in 1..received
  BY DEF InboxInv
<1>3. origin[inbox[j].id] # Stranger => origin[inbox[j].id] \in 1..sent
  BY <1>2 DEF OriginInv, Stranger
<1> QED BY <1>1, <1>2, <1>3 DEF InboxInv, Asks, Remembered

\* A response that suits a request goes on to suit it.
LEMMA SuitsOn ==
  ASSUME ClientInv, Remembered, now' \in Nat, now <= now',
         NEW i \in 1..sent, NEW response, Suits(i, response)
  PROVE  Suits(i, response)'
<1> SUFFICES ASSUME i \in DOMAIN processing_requests'
             PROVE  response \in Answers(processing_requests[i].command)'
  BY DEF Suits
<1>1. i \in DOMAIN processing_requests /\ processing_requests'[i] = processing_requests[i]
  BY DEF Remembered
<1>2. PICK c \in Command : c = processing_requests[i].command
  BY <1>1 DEF ClientInv, RequestsInv
<1>3. response \in Answers(c)
  BY <1>1, <1>2 DEF Suits
<1>4. response \in Answers(c)'
  BY <1>3, AnswersGrow DEF ClientInv, RequestsInv
<1>5. c = processing_requests'[i].command
  BY <1>1, <1>2
<1> QED BY <1>4, <1>5

LEMMA RepliesKept ==
  ASSUME ClientInv, RepliesInv, OriginInv, received \in Nat, Remembered,
         now' \in Nat, now <= now', UNCHANGED <<origin, received>>,
         \A r \in replies' \ replies : /\ r.id \in 1..received
                                       /\ origin[r.id] # Stranger => Suits(origin[r.id], r.response)
  PROVE  RepliesInv'
<1> SUFFICES ASSUME NEW r \in replies', r.id \in 1..received, origin[r.id] # Stranger
             PROVE  Suits(origin[r.id], r.response)'
  BY DEF RepliesInv
<1>1. PICK o : o = origin[r.id]
  OBVIOUS
<1>2. o \in 1..sent
  BY <1>1 DEF OriginInv, Stranger
<1>3. Suits(o, r.response)
  BY <1>1 DEF RepliesInv
<1>4. Suits(o, r.response)'
  BY <1>2, <1>3, SuitsOn
<1>5. o = origin'[r.id]
  BY <1>1
<1> QED BY <1>4, <1>5

\* A request reaches the server: of the client, or of another node.
LEMMA ArrivalKeeps ==
  ASSUME ClientInv, ServerInv, NetworkInv, NEW n \in Nodes, NEW c, NEW o \in 0..sent,
         Receive(RendezvousRequest(received + 1, n, c)), origin' = Append(origin, o),
         UNCHANGED <<now, sent, processing_requests>>, wire' \subseteq wire,
         o # Stranger => n = Self /\ Asks(o, c)
  PROVE  NetworkInv'
<1> DEFINE request == RendezvousRequest(received + 1, n, c)
<1>1. /\ received \in Nat /\ received' = received + 1
      /\ inbox' = Append(inbox, request) /\ replies' = replies
      /\ sent \in Nat
  BY DEF Receive, outVars, ServerInv, ProcessInv, ClientInv, RequestsInv
<1>2. inbox \in Seq(Request) /\ origin \in Seq(Nat) /\ o \in Nat /\ Len(origin) = received
  BY DEF ServerInv, ProcessInv, NetworkInv, OriginInv
<1>3. /\ origin' \in Seq(Nat) /\ Len(origin') = received + 1 /\ origin'[received + 1] = o
      /\ \A i \in 1..received : origin'[i] = origin[i]
  BY <1>1, <1>2
<1>4. OriginInv'
  <2>1. ASSUME NEW i \in 1..received + 1
        PROVE  origin'[i] <= sent
    <3> i \in 1..received \/ i = received + 1
      BY <1>1
    <3>1. CASE i = received + 1
      BY <1>1, <1>3, <3>1
    <3>2. CASE i \in 1..received
      BY <1>3, <3>2 DEF NetworkInv, OriginInv
    <3> QED BY <3>1, <3>2
  <2> QED BY <1>1, <1>3, <2>1 DEF OriginInv
<1>5. WireInv'
  BY <1>1 DEF NetworkInv, WireInv, Asks
<1>6. InboxInv'
  <2> SUFFICES ASSUME NEW i \in DOMAIN inbox'
               PROVE  /\ inbox'[i].id \in 1..received + 1
                      /\ origin'[inbox'[i].id] # Stranger =>
                           /\ Asks(origin'[inbox'[i].id], inbox'[i].command)
                           /\ inbox'[i].source = Self
    BY <1>1 DEF InboxInv, Asks
  <2>1. CASE i \in DOMAIN inbox
    <3>1. inbox'[i] = inbox[i] /\ inbox[i].id \in 1..received
      BY <1>1, <1>2, <2>1 DEF NetworkInv, InboxInv
    <3> QED BY <1>1, <1>3, <2>1, <3>1 DEF NetworkInv, InboxInv
  <2>2. CASE i \notin DOMAIN inbox
    <3>1. inbox'[i] = request
      BY <1>1, <1>2, <2>2
    <3>2. request.id = received + 1 /\ request.source = n /\ request.command = c
      BY DEF RendezvousRequest
    <3> QED BY <1>1, <1>3, <3>1, <3>2
  <2> QED BY <2>1, <2>2
<1>7. RepliesInv'
  <2> SUFFICES ASSUME NEW r \in replies
               PROVE  /\ r.id \in 1..received + 1
                      /\ origin'[r.id] # Stranger => Suits(origin[r.id], r.response)'
    BY <1>1 DEF RepliesInv
  <2>1. r.id \in 1..received /\ origin'[r.id] = origin[r.id]
        /\ (origin[r.id] # Stranger => Suits(origin[r.id], r.response))
    BY <1>3 DEF NetworkInv, RepliesInv
  <2>2. PICK x : x = origin[r.id]
    OBVIOUS
  <2>3. ASSUME x # Stranger
        PROVE  Suits(x, r.response)'
    <3>1. x \in 1..sent /\ Suits(x, r.response)
      BY <1>1, <2>1, <2>2, <2>3 DEF NetworkInv, OriginInv, Stranger
    <3>2. Remembered /\ now' \in Nat /\ now <= now'
      BY DEF Remembered, ClientInv, RequestsInv
    <3> QED BY <3>1, <3>2, SuitsOn
  <2>4. x = origin'[r.id]
    BY <2>1, <2>2
  <2> QED BY <1>1, <2>1, <2>3, <2>4
<1> QED BY <1>4, <1>5, <1>6, <1>7 DEF NetworkInv

\* Nothing arrives.
LEMMA NetworkKept ==
  ASSUME ClientInv, ServerInv, NetworkInv, Remembered,
         sent' \in Nat, sent <= sent', now' \in Nat, now <= now',
         UNCHANGED <<origin, received>>, WireInv',
         \A i \in DOMAIN inbox' : \E j \in DOMAIN inbox : inbox'[i] = inbox[j],
         \A r \in replies' \ replies : /\ r.id \in 1..received
                                       /\ origin[r.id] # Stranger => Suits(origin[r.id], r.response)
  PROVE  NetworkInv'
<1>1. sent \in Nat /\ received \in Nat
  BY DEF ClientInv, RequestsInv, ServerInv, ProcessInv
<1>2. OriginInv'
  <2>1. \A i \in 1..received : origin[i] \in Nat /\ origin[i] <= sent
    BY DEF NetworkInv, OriginInv
  <2> QED BY <1>1, <2>1 DEF NetworkInv, OriginInv
<1> QED BY <1>1, <1>2, InboxKept, RepliesKept DEF NetworkInv

\* What the server did with its queue.
LEMMA ServerEmpties ==
  ASSUME ServerInv, NetworkInv, Poll \/ Crash \/ \E l \in Lifetimes : Restart(l)
  PROVE  /\ \A i \in DOMAIN inbox' : \E j \in DOMAIN inbox : inbox'[i] = inbox[j]
         /\ \A r \in replies' \ replies : /\ r.id \in 1..received
                                          /\ origin[r.id] # Stranger => Suits(origin[r.id], r.response)
<1>1. CASE HandleRequest
  <2>1. PICK response \in Answers(Head(inbox).command) : \E evt : Respond(Head(inbox), response, evt)
    BY <1>1, ServerAnswers
  <2>2. inbox # << >> /\ Head(inbox) = inbox[1] /\ inbox \in Seq(Request)
    BY <1>1, ServerAnswers DEF ServerInv, ProcessInv
  <2>3. 1 \in DOMAIN inbox
    BY <2>2
  <2>4. inbox' = << >> \/ inbox' = Tail(inbox)
    BY <2>1 DEF Respond, Stop
  <2>5. \A i \in DOMAIN inbox' : \E j \in DOMAIN inbox : inbox'[i] = inbox[j]
    <3>1. \A i \in DOMAIN Tail(inbox) : i + 1 \in DOMAIN inbox /\ Tail(inbox)[i] = inbox[i + 1]
      BY <2>2
    <3>2. CASE inbox' = << >>
      BY <3>2
    <3>3. CASE inbox' = Tail(inbox)
      BY <3>1, <3>3
    <3> QED BY <2>4, <3>2, <3>3
  <2> DEFINE answer == [id |-> Head(inbox).id, response |-> response]
  <2>6. replies' \subseteq replies \cup {answer}
    BY <2>1 DEF Respond
  <2>7. answer.id \in 1..received
    BY <2>2, <2>3 DEF NetworkInv, InboxInv
  <2>8. ASSUME origin[answer.id] # Stranger
        PROVE  Suits(origin[answer.id], answer.response)
    BY <2>1, <2>2, <2>3, <2>8 DEF NetworkInv, InboxInv, Asks, Suits
  <2> QED BY <2>5, <2>6, <2>7, <2>8
<1>2. CASE AnnounceExpired \/ NothingExpired \/ PollFails \/ NothingReceived
           \/ \E l \in Lifetimes : Restart(l)
  BY <1>2 DEF AnnounceExpired, NothingExpired, PollFails, NothingReceived, Restart, innerVars,
              outVars
<1>3. CASE Crash
  BY <1>3 DEF Crash, Stop, outVars
<1> QED BY <1>1, <1>2, <1>3 DEF Poll

LEMMA NetworkStep ==
  ASSUME ClientInv, ServerInv, NetworkInv, [RendezvousNext]_rendezvousVars
  PROVE  NetworkInv'
<1>1. now \in Nat /\ sent \in Nat
  BY DEF ClientInv, RequestsInv
<1>2. ASSUME UNCHANGED <<processing_requests, sent, wire, origin, innerVars, replies>>,
             now' \in Nat, now <= now'
      PROVE  NetworkInv'
  <2>1. Remembered /\ UNCHANGED <<origin, received, wire, inbox>>
    BY <1>2 DEF Remembered, innerVars
  <2>2. WireInv'
    BY <1>1, <1>2, <2>1, WireKept DEF NetworkInv
  <2> QED BY <1>1, <1>2, <2>1, <2>2, NetworkKept
<1>3. CASE Passes \/ UNCHANGED rendezvousVars
  BY <1>1, <1>2, <1>3 DEF Passes, Tick, rendezvousVars, clientPart, serverPart, requestVars, outVars,
                             networkVars
<1>4. CASE ClientCallsOut
  <2>1. UNCHANGED <<origin, received, inbox, replies, now>> /\ sent' \in Nat /\ sent <= sent'
    BY <1>4, CallsSend DEF ClientCallsOut, serverPart, innerVars, outVars
  <2>2. Remembered
    <3> SUFFICES ASSUME NEW id \in 1..sent, id \in DOMAIN processing_requests'
                 PROVE  /\ id \in DOMAIN processing_requests
                        /\ processing_requests'[id] = processing_requests[id]
      BY DEF Remembered
    <3>1. id \notin sent + 1 .. sent'
      BY <1>1
    <3> QED BY <1>4, <3>1, CallsSend DEF ClientCallsOut
  <2>3. WireInv'
    <3> SUFFICES ASSUME NEW m \in wire'
                 PROVE  /\ m.id \in 1..sent'
                        /\ m.command \in ClientCommands
                        /\ m.id \in DOMAIN processing_requests'
                             => processing_requests'[m.id].command = m.command
      BY DEF WireInv, Asks
    <3>1. CASE m \in wire
      BY <1>1, <2>1, <2>2, <3>1 DEF NetworkInv, WireInv, Asks, Remembered
    <3>2. CASE m \in Sent
      <4>1. PICK i \in DOMAIN processing_requests' \ DOMAIN processing_requests :
              m = [id |-> i, command |-> processing_requests'[i].command]
        BY <3>2 DEF Sent
      <4>2. i \in sent + 1 .. sent' /\ processing_requests'[i].command \in ClientCommands
        BY <1>4, CallsSend DEF ClientCallsOut
      <4>3. i \in 1..sent'
        BY <1>1, <2>1, <4>2
      <4> QED BY <4>1, <4>2, <4>3
    <3> QED BY <1>4, <3>1, <3>2 DEF ClientCallsOut
  <2> QED BY <1>1, <2>1, <2>2, <2>3, NetworkKept
<1>5. CASE ClientRuns
  <2>1. Remembered /\ sent' = sent /\ now' = now
    BY <1>5, RunsForget DEF ClientRuns, Remembered
  <2>2. UNCHANGED <<origin, received, wire, inbox, replies>>
    BY <1>5 DEF ClientRuns, serverPart, innerVars, outVars, networkVars
  <2>3. WireInv'
    BY <1>1, <2>1, <2>2, WireKept DEF NetworkInv
  <2> QED BY <1>1, <2>1, <2>2, <2>3, NetworkKept
<1>6. CASE ServerRuns
  <2>1. now' = now /\ received' = received
    BY <1>6, ServerRunsKeepsTime DEF ServerRuns
  <2>2. UNCHANGED <<processing_requests, sent, origin, wire>>
    BY <1>6 DEF ServerRuns, clientPart, requestVars
  <2>3. WireInv' /\ Remembered
    BY <2>2 DEF NetworkInv, WireInv, Asks, Remembered
  <2> QED BY <1>1, <1>6, <2>1, <2>2, <2>3, NetworkKept, ServerEmpties DEF ServerRuns
<1>7. ASSUME NEW m \in wire, Arrives(m)
      PROVE  NetworkInv'
  <2>1. m.id \in 0..sent /\ Asks(m.id, m.command)
    BY <1>1 DEF NetworkInv, WireInv
  <2>2. UNCHANGED <<now, sent, processing_requests>> /\ wire' \subseteq wire
    BY <1>7 DEF Arrives, Receive, storeVars, clientPart, requestVars
  <2> QED BY <1>7, <2>1, <2>2, ArrivalKeeps, RendezvousAssumption DEF Arrives
<1>8. ASSUME NEW q \in StrangerRequests, StrangerAsks(q)
      PROVE  NetworkInv'
  <2>1. UNCHANGED <<now, sent, processing_requests>> /\ wire' \subseteq wire
    BY <1>8 DEF StrangerAsks, Receive, storeVars, clientPart, requestVars
  <2>2. Stranger \in 0..sent
    BY <1>1 DEF Stranger
  <2>3. q.source \in Nodes
    BY RendezvousAssumption
  <2> QED BY <1>8, <2>1, <2>2, <2>3, ArrivalKeeps DEF StrangerAsks
<1>9. ASSUME NEW r \in replies, Returns(r)
      PROVE  NetworkInv'
  BY <1>1, <1>2, <1>9 DEF Returns, Deliver, requestVars, serverPart, outVars, networkVars
<1>10. ASSUME NEW id \in InFlight, GivesUp(id)
       PROVE  NetworkInv'
  BY <1>1, <1>2, <1>10 DEF GivesUp, Deliver, requestVars, serverPart, outVars, networkVars
<1> QED BY <1>3, <1>4, <1>5, <1>6, <1>7, <1>8, <1>9, <1>10 DEF RendezvousNext

-----------------------------------------------------------------------------
(***************************************************************************)
(* Both sides, and the network between them.                               *)
(***************************************************************************)

CompositionInv == ClientInv /\ ServerInv /\ NetworkInv

LEMMA CompositionInit == RendezvousInit => CompositionInv
<1> SUFFICES ASSUME RendezvousInit PROVE CompositionInv
  OBVIOUS
<1>1. ClientInit /\ ServerInit /\ StoreInit
  BY DEF RendezvousInit, ServerInit
<1>2. ClientInv /\ StoreInv
  BY <1>1, ClientInvInit, StoreInvInit
<1>3. ProcessInv
  BY <1>1, ServerAssumption DEF ServerInit, ProcessInv, RequestIds, Request
<1>4. StoredInv
  BY <1>1 DEF StoreInit, StoredInv
<1>5. OriginInv
  BY <1>1 DEF RendezvousInit, ServerInit, OriginInv
<1>6. WireInv /\ InboxInv /\ RepliesInv
  BY <1>1 DEF RendezvousInit, ServerInit, WireInv, InboxInv, RepliesInv
<1> QED BY <1>2, <1>3, <1>4, <1>5, <1>6 DEF CompositionInv, ServerInv, NetworkInv

LEMMA ServerInvStep ==
  ASSUME ServerInv, [ServerNext]_serverVars
  PROVE  ServerInv'
<1>1. ProcessInv'
  BY ProcessStep DEF ServerInv
<1>2. [StoreNext]_storeVars
  BY ServerStep DEF ServerInv
<1>3. StoreInv' /\ StoredInv'
  BY <1>2, StoreInvNext, StoredStep DEF ServerInv
<1> QED BY <1>1, <1>3 DEF ServerInv

LEMMA CompositionStep ==
  ASSUME CompositionInv, [RendezvousNext]_rendezvousVars
  PROVE  CompositionInv' /\ [ClientNext]_clientVars /\ [ServerNext]_serverVars
BY StepOfClient, StepOfServer, ClientStep, ServerInvStep, NetworkStep DEF CompositionInv

LEMMA CompositionInvariant == RendezvousSpec => []CompositionInv
BY CompositionInit, CompositionStep, PTL DEF RendezvousSpec

\* The client of the composition is the client by itself: the answers it was
\* proved against, of any age and from any server, include all that this server
\* and this network, with lost, delayed and overtaken requests, give it.
THEOREM ComposedClient == RendezvousSpec => ImplementsClient
<1>1. RendezvousInit => ClientInit
  BY DEF RendezvousInit
<1>2. CompositionInv /\ [RendezvousNext]_rendezvousVars => [ClientNext]_clientVars
  BY CompositionStep
<1> QED BY <1>1, <1>2, CompositionInvariant, PTL DEF RendezvousSpec, ImplementsClient, ClientSpec

\* The server of the composition is the server by itself, so all that was
\* proved of that holds among these clients.
THEOREM ComposedServer == RendezvousSpec => ServerSpec
<1>1. RendezvousInit => ServerInit
  BY DEF RendezvousInit
<1>2. CompositionInv /\ [RendezvousNext]_rendezvousVars => [ServerNext]_serverVars
  BY CompositionStep
<1> QED BY <1>1, <1>2, CompositionInvariant, PTL DEF RendezvousSpec, ServerSpec

-----------------------------------------------------------------------------
(***************************************************************************)
(* What the server promised the client.                                    *)
(***************************************************************************)

\* What the server's response i gave still stands: the server holds the client
\* until then, if the lifetime stays the same, or a Deregister came after it.
Promised(i, until) ==
  \/ i \in withdrawn
  \/ until < now
  \/ /\ OwnKey \in DOMAIN rdb
     /\ LifetimeIsFixed => until <= Expiration(rdb[OwnKey])

\* The server answered the client's request with this time.
Gave(id, until) ==
  id # Stranger /\ \E r \in replies : /\ r.response.type = "Register"
                                      /\ origin[r.id] = id /\ r.response.expires = until

\* A promise is in a response, then in the queue of outcomes, then in the table.
PromisesInv ==
  /\ \A r \in replies :
       (r.response.type = "Register" /\ origin[r.id] # Stranger)
         => r.response.expires \in Nat /\ Promised(r.id, r.response.expires)
  /\ \A i \in DOMAIN outcomes :
       outcomes[i].response.type = "Register"
         => Gave(outcomes[i].id, outcomes[i].response.expires)
  /\ \A s \in DOMAIN rendezvous_points :
       Gave(rendezvous_points[s].uuid, rendezvous_points[s].until)

\* As long as nobody withdraws the client, no deregister() leaves an entry of its
\* own in the index.
OwnEntryInv ==
  withdrawn = {} => \A e \in edb : e[2] = OwnKey =>
                      /\ OwnKey \in DOMAIN rdb
                      /\ e = ExpirationKey(rdb[OwnKey].lastRegistration, OwnKey)

\* A registration of the client stays as it is, or is renewed, until it
\* is withdrawn.
OwnKept == /\ OwnKey \in DOMAIN rdb'
           /\ \/ rdb'[OwnKey] = rdb[OwnKey]
              \/ rdb'[OwnKey].lastRegistration = now /\ rdb'[OwnKey].ttl \in Lifetimes

LEMMA RegisterOwn ==
  ASSUME StoreInv, NEW n \in Nodes, NEW a \in Addresses, NEW l \in Lifetimes, Register(n, a, l)
  PROVE  /\ OwnKey \in DOMAIN rdb => OwnKept
         /\ OwnEntryInv /\ withdrawn' = withdrawn => OwnEntryInv'
         /\ KeyOf(n) = OwnKey => OwnKey \in DOMAIN rdb' /\ Expiration(rdb'[OwnKey]) = now + l
<1> DEFINE k == KeyOf(n)
           new == Registered(n, a, l)
<1>1. KeyOf(new.identity) = k /\ new.lastRegistration = now /\ new.ttl = l
  BY RegisteredIsFiled DEF StoreInv, Registered
<1>2. rdb' = DbPut(rdb, k, new) /\ edb' = (edb \ Replaced(k)) \cup {ExpirationKey(now, k)}
  BY <1>1 DEF Register
<1> HIDE DEF new, k
<1>3. /\ k \in DOMAIN rdb' /\ rdb'[k] = new
      /\ DOMAIN rdb \subseteq DOMAIN rdb'
      /\ \A x \in DOMAIN rdb : x # k => rdb'[x] = rdb[x]
  BY <1>2 DEF DbPut
<1>4. OwnKey \in DOMAIN rdb => OwnKept
  <2>1. CASE k = OwnKey
    BY <1>1, <1>3, <2>1 DEF OwnKept
  <2>2. CASE k # OwnKey
    BY <1>3, <2>2 DEF OwnKept
  <2> QED BY <2>1, <2>2
<1>5. ASSUME OwnEntryInv, withdrawn = {}, NEW e \in edb', e[2] = OwnKey
      PROVE  OwnKey \in DOMAIN rdb' /\ e = ExpirationKey(rdb'[OwnKey].lastRegistration, OwnKey)
  <2>1. CASE e = ExpirationKey(now, k)
    <3>1. k = OwnKey
      BY <1>5, <2>1 DEF ExpirationKey
    <3> QED BY <1>1, <1>3, <2>1, <3>1
  <2>2. CASE e \in edb /\ e \notin Replaced(k)
    <3>1. OwnKey \in DOMAIN rdb /\ e = ExpirationKey(rdb[OwnKey].lastRegistration, OwnKey)
      BY <1>5, <2>2 DEF OwnEntryInv
    <3>2. k # OwnKey
      BY <2>2, <3>1 DEF Replaced
    <3> QED BY <1>3, <3>1, <3>2
  <2> QED BY <1>2, <2>1, <2>2
<1>6. OwnEntryInv /\ withdrawn' = withdrawn => OwnEntryInv'
  BY <1>5 DEF OwnEntryInv
<1>7. KeyOf(n) = OwnKey => OwnKey \in DOMAIN rdb' /\ Expiration(rdb'[OwnKey]) = now + l
  BY <1>1, <1>3 DEF k, Expiration
<1> QED BY <1>4, <1>6, <1>7

LEMMA OwnStep ==
  ASSUME CompositionInv, OwnEntryInv, [RendezvousNext]_rendezvousVars
  PROVE  /\ withdrawn' = {} => withdrawn = {}
         /\ \A r \in replies : r.id \in withdrawn => r.id \in withdrawn'
         /\ OwnKey \in DOMAIN rdb => OwnKept \/ \A r \in replies : r.id \in withdrawn'
         /\ OwnEntryInv'
<1> DEFINE Goal == /\ withdrawn' = {} => withdrawn = {}
                   /\ \A r \in replies : r.id \in withdrawn => r.id \in withdrawn'
                   /\ OwnKey \in DOMAIN rdb => OwnKept \/ \A r \in replies : r.id \in withdrawn'
                   /\ OwnEntryInv'
<1>1. ASSUME \A k \in DOMAIN rdb : k \in DOMAIN rdb' /\ rdb'[k] = rdb[k],
             edb' \subseteq edb, withdrawn' = withdrawn
      PROVE  Goal
  BY <1>1 DEF OwnEntryInv, OwnKept
<1>2. CASE HandleRegister /\ withdrawn' = withdrawn
  <2> DEFINE request == Head(inbox)
  <2>1. request \in Request
    BY <1>2, ServerAnswers DEF HandleRequest, CompositionInv
  <2>2. request.command.type = "Register"
        /\ Register(request.source, request.command.addresses, maxLifetime)
    BY <1>2 DEF HandleRegister, Handling
  <2>3. request.source \in Nodes /\ request.command.addresses \in Addresses
    BY <2>1, <2>2, ServerAssumption DEF Request, Command
  <2>4. maxLifetime \in Lifetimes /\ StoreInv
    BY DEF CompositionInv, ServerInv, ProcessInv
  <2> QED BY <1>2, <2>2, <2>3, <2>4, RegisterOwn
<1>3. CASE HandleDeregister /\ ~Withdraws /\ withdrawn' = withdrawn
  <2> DEFINE k == KeyOf(Head(inbox).source)
  <2>1. Deregister(Head(inbox).source) /\ k # OwnKey
    BY <1>3 DEF HandleDeregister, Withdraws
  <2> HIDE DEF k
  <2>2. rdb' = DbDelete(rdb, k) /\ edb' = edb
    BY <2>1 DEF Deregister, k
  <2>3. OwnKey \in DOMAIN rdb => OwnKey \in DOMAIN rdb' /\ rdb'[OwnKey] = rdb[OwnKey]
    BY <2>1, <2>2 DEF DbDelete
  <2> QED BY <1>3, <2>2, <2>3 DEF OwnEntryInv, OwnKept
<1>4. CASE AnnounceExpired /\ withdrawn' = withdrawn
  <2>1. PICK e \in edb : rdb' = DbDelete(rdb, e) /\ edb' = edb \ {e}
    BY <1>4 DEF AnnounceExpired, PollExpires
  <2>2. e \notin DOMAIN rdb
    BY EntriesAreNoKeys DEF CompositionInv, ServerInv, StoreInv
  <2>3. \A k \in DOMAIN rdb : k \in DOMAIN rdb' /\ rdb'[k] = rdb[k]
    BY <2>1, <2>2 DEF DbDelete
  <2> QED BY <1>1, <1>4, <2>1, <2>3
<1>5. CASE NothingExpired /\ withdrawn' = withdrawn
  BY <1>1, <1>5 DEF NothingExpired, PollDropsEntry, PollIdle
<1>6. CASE UNCHANGED <<rdb, edb, withdrawn>>
  BY <1>1, <1>6
<1>7. CASE Withdraws /\ withdrawn' = {Head(inbox).id} \cup {r.id : r \in replies}
  BY <1>7 DEF OwnEntryInv
<1>8. CASE ServerRuns
  <2>1. CASE ~Withdraws
    <3>1. withdrawn' = withdrawn
      BY <1>8, <2>1 DEF ServerRuns
    <3>2. CASE PollFails \/ NothingReceived \/ HandleDiscover \/ HandleFind \/ HandleGroups
               \/ HandleFails \/ Crash \/ \E l \in Lifetimes : Restart(l)
      BY <1>6, <3>1, <3>2 DEF PollFails, NothingReceived, HandleDiscover, HandleFind, HandleGroups,
                              HandleFails, Crash, Restart, storeVars
    <3> HIDE DEF Goal
    <3> QED BY <1>2, <1>3, <1>4, <1>5, <1>8, <2>1, <3>1, <3>2 DEF ServerRuns, Poll, HandleRequest, Goal
  <2>2. CASE Withdraws
    <3>1. withdrawn' = {Head(inbox).id} \cup {r.id : r \in replies}
      BY <1>8, <2>2 DEF ServerRuns
    <3> QED BY <1>7, <2>2, <3>1
  <2> QED BY <2>1, <2>2
<1>9. CASE Passes \/ ClientCallsOut \/ ClientRuns \/ UNCHANGED rendezvousVars
  BY <1>6, <1>9 DEF Passes, ClientCallsOut, ClientRuns, rendezvousVars, serverPart, networkVars
<1>10. CASE \/ \E m \in wire : Arrives(m)
            \/ \E q \in StrangerRequests : StrangerAsks(q)
            \/ \E r \in replies : Returns(r)
            \/ \E id \in InFlight : GivesUp(id)
  BY <1>6, <1>10 DEF Arrives, StrangerAsks, Receive, storeVars, Returns, GivesUp, Deliver,
                     serverPart, networkVars
<1> HIDE DEF Goal
<1>11. Goal
  BY <1>8, <1>9, <1>10 DEF RendezvousNext, Goal
<1> QED BY <1>11 DEF Goal

\* A promise once made stands.
LEMMA PromiseStands ==
  ASSUME CompositionInv, OwnEntryInv, [RendezvousNext]_rendezvousVars,
         NEW r \in replies, NEW until \in Nat, Promised(r.id, until)
  PROVE  Promised(r.id, until)'
<1>1. now \in Nat /\ now' \in Nat /\ now <= now' /\ StoreInv /\ StoredInv /\ StoreInv'
  <2>1. [StoreNext]_storeVars
    BY CompositionStep, ServerStep DEF CompositionInv, ServerInv
  <2> QED BY <2>1, StoreInvNext DEF StoreInv, StoreTypeOK, StoreNext, StoreTick, Tick, storeVars,
                                    CompositionInv, ServerInv
<1>2. CASE r.id \in withdrawn
  BY <1>2, OwnStep DEF Promised
<1>3. CASE until < now
  BY <1>1, <1>3 DEF Promised
<1>4. CASE OwnKey \in DOMAIN rdb /\ (LifetimeIsFixed => until <= Expiration(rdb[OwnKey]))
  <2>1. CASE \A x \in replies : x.id \in withdrawn'
    BY <2>1 DEF Promised
  <2>2. CASE OwnKept
    <3>1. CASE rdb'[OwnKey] = rdb[OwnKey]
      BY <1>4, <2>2, <3>1 DEF OwnKept, Promised, Expiration
    <3>2. CASE rdb'[OwnKey].lastRegistration = now /\ rdb'[OwnKey].ttl \in Lifetimes
      <4> DEFINE old == rdb[OwnKey]
                 new == rdb'[OwnKey]
      <4>1. old \in Stored
        BY <1>1, <1>4 DEF StoredInv
      <4>2. old.lastRegistration \in 0..now /\ old.ttl \in Lifetimes
        BY <4>1 DEF Stored
      <4>3. ASSUME LifetimeIsFixed
            PROVE  until <= Expiration(new)
        <5>1. old.ttl = new.ttl /\ old.ttl \in Nat
          BY <3>2, <4>2, <4>3, LifetimesAssumption DEF LifetimeIsFixed
        <5> HIDE DEF old, new
        <5>2. until <= Expiration(old)
          BY <1>4, <4>3 DEF old
        <5>3. new.lastRegistration = now
          BY <3>2 DEF new
        <5> QED BY <1>1, <4>2, <5>1, <5>2, <5>3 DEF Expiration
      <4> QED BY <2>2, <4>3 DEF OwnKept, Promised, Expiration
    <3> QED BY <2>2, <3>1, <3>2 DEF OwnKept
  <2> QED BY <1>4, <2>1, <2>2, OwnStep
<1> QED BY <1>2, <1>3, <1>4 DEF Promised

\* A Register response for the client is a promise.
LEMMA RegisterPromises ==
  ASSUME CompositionInv, OwnEntryInv, ServerRuns, NEW r \in replies' \ replies,
         r.response.type = "Register", origin[r.id] # Stranger
  PROVE  r.response.expires \in Nat /\ Promised(r.id, r.response.expires)'
<1> DEFINE request == Head(inbox)
<1>1. HandleRequest
  BY DEF ServerRuns, Poll, Crash, Restart, AnnounceExpired, NothingExpired, PollFails,
         NothingReceived, outVars
<1>2. /\ inbox # << >> /\ request \in Request /\ request = inbox[1] /\ 1 \in DOMAIN inbox
  <2>1. inbox \in Seq(Request)
    BY DEF CompositionInv, ServerInv, ProcessInv
  <2> QED BY <1>1, <2>1, ServerAnswers DEF CompositionInv
<1>3. ASSUME NEW response, NEW evt, Respond(request, response, evt)
      PROVE  r.id = request.id /\ r.response = response
  BY <1>3 DEF Respond
<1> DEFINE answer == RegisterOk(Registered(request.source, request.command.addresses,
                                           maxLifetime).lastRegistration + maxLifetime)
<1>4. HandleRegister /\ r.id = request.id /\ r.response = answer
  <2>1. CASE HandleRegister
    BY <1>3, <2>1 DEF HandleRegister
  <2>2. CASE HandleDeregister \/ HandleDiscover
    BY <1>3, <2>2 DEF HandleDeregister, HandleDiscover, DeregisterOk, DiscoverOk
  <2>3. CASE HandleFind \/ HandleGroups \/ HandleFails
    BY <1>3, <2>3 DEF HandleFind, HandleGroups, HandleFails, FindOk, GroupsOk, Failed
  <2> QED BY <1>1, <2>1, <2>2, <2>3 DEF HandleRequest
<1>5. request.source = Self
  BY <1>2, <1>4 DEF CompositionInv, NetworkInv, InboxInv
<1>6. maxLifetime \in Lifetimes /\ maxLifetime \in Nat /\ now \in Nat /\ StoreInv
  BY LifetimesAssumption DEF CompositionInv, ServerInv, ProcessInv, StoreInv, StoreTypeOK
<1>7. request.command.type = "Register"
      /\ Register(request.source, request.command.addresses, maxLifetime)
  BY <1>4 DEF HandleRegister, Handling
<1>8. request.source \in Nodes /\ request.command.addresses \in Addresses
  BY <1>2, <1>7, ServerAssumption DEF Request, Command
<1>9. OwnKey \in DOMAIN rdb' /\ Expiration(rdb'[OwnKey]) = now + maxLifetime
  BY <1>5, <1>6, <1>7, <1>8, RegisterOwn DEF OwnKey
<1>10. r.response.expires = now + maxLifetime
  BY <1>4 DEF Registered, RegisterOk
<1>11. r.response.expires \in Nat /\ r.response.expires <= Expiration(rdb'[OwnKey])
  BY <1>6, <1>9, <1>10
<1> QED BY <1>9, <1>11 DEF Promised, Expiration

\* The responses that the server gave keep their requests.
LEMMA OriginStays ==
  ASSUME CompositionInv, [RendezvousNext]_rendezvousVars, NEW i \in 1..received
  PROVE  origin'[i] = origin[i]
<1>1. origin \in Seq(Nat) /\ Len(origin) = received
  BY DEF CompositionInv, NetworkInv, OriginInv
<1>2. ASSUME NEW o, origin' = Append(origin, o)
      PROVE  origin'[i] = origin[i]
  BY <1>1, <1>2
<1>3. CASE Passes \/ ClientCallsOut \/ ClientRuns \/ ServerRuns \/ UNCHANGED rendezvousVars
           \/ (\E r \in replies : Returns(r)) \/ \E id \in InFlight : GivesUp(id)
  BY <1>3 DEF Passes, ClientCallsOut, ClientRuns, ServerRuns, rendezvousVars, Returns, GivesUp,
              networkVars
<1>4. CASE \/ \E m \in wire : Arrives(m)
           \/ \E q \in StrangerRequests : StrangerAsks(q)
  BY <1>2, <1>4 DEF Arrives, StrangerAsks
<1> QED BY <1>3, <1>4 DEF RendezvousNext

\* What comes in for the client.
LEMMA OutcomesCome ==
  ASSUME CompositionInv, [RendezvousNext]_rendezvousVars, NEW i \in DOMAIN outcomes',
         outcomes'[i].response.type = "Register"
  PROVE  \/ \E j \in DOMAIN outcomes : outcomes'[i] = outcomes[j]
         \/ Gave(outcomes'[i].id, outcomes'[i].response.expires)
<1>1. outcomes \in Seq(Outcome)
  BY DEF CompositionInv, ClientInv, RequestsInv
<1>2. CASE outcomes' = outcomes
  BY <1>2
<1>3. CASE outcomes # << >> /\ outcomes' = Tail(outcomes)
  <2>1. i + 1 \in DOMAIN outcomes /\ Tail(outcomes)[i] = outcomes[i + 1]
    BY <1>1, <1>3
  <2> QED BY <1>3, <2>1
<1>4. ASSUME NEW o, outcomes' = Append(outcomes, o),
             o.response.type = "Register" => Gave(o.id, o.response.expires)
      PROVE  \/ \E j \in DOMAIN outcomes : outcomes'[i] = outcomes[j]
             \/ Gave(outcomes'[i].id, outcomes'[i].response.expires)
  <2>1. \/ i \in DOMAIN outcomes /\ outcomes'[i] = outcomes[i]
        \/ outcomes'[i] = o
    BY <1>1, <1>4
  <2> QED BY <1>4, <2>1
<1>5. ASSUME NEW id, NEW response, Deliver(id, response)
      PROVE  \E o : outcomes' = Append(outcomes, o) /\ o.id = id /\ o.response = response
  <2>1. outcomes' = Append(outcomes, [id |-> id, response |-> response])
    BY <1>5 DEF Deliver
  <2> QED BY <2>1
<1>6. CASE \E r \in replies : Returns(r)
  BY <1>4, <1>5, <1>6 DEF Returns, Gave
<1>7. CASE \E id \in InFlight : GivesUp(id)
  <2>1. Failure.type # "Register"
    BY DEF Failure
  <2> QED BY <1>4, <1>5, <1>7, <2>1 DEF GivesUp
<1>8. CASE Passes \/ ServerRuns \/ UNCHANGED rendezvousVars
  BY <1>2, <1>8 DEF Passes, ServerRuns, clientPart, rendezvousVars
<1>9. CASE \/ \E m \in wire : Arrives(m)
           \/ \E q \in StrangerRequests : StrangerAsks(q)
  BY <1>2, <1>9 DEF Arrives, StrangerAsks, clientPart
<1>10. CASE ClientCallsOut
  BY <1>2, <1>10 DEF ClientCallsOut, ClientCalls, RegisterAt, DeregisterAt, Query, AddressesChange
<1>11. CASE ClientRuns
  <2>1. CASE HandleOutcome
    <3>1. ASSUME NEW type, Handle(type)
          PROVE  outcomes # << >> /\ outcomes' = Tail(outcomes)
      BY <3>1 DEF Handle
    <3> QED BY <1>3, <2>1, <3>1 DEF HandleOutcome, HandleRegisterOk, HandleDeregisterOk,
              HandleDiscoverOk, HandleFindOk, HandleGroupsOk, HandleFailure
  <2>2. CASE TimersFire \/ NoOutcome \/ ArmPeerTimer \/ PeerExpires \/ NoPeerExpires
             \/ ArmRegistrationTimer \/ RegistrationExpires \/ NoRegistrationExpires
    BY <1>2, <2>2 DEF TimersFire, TimerFires, NoOutcome, ArmPeerTimer, PeerExpires,
              NoPeerExpires, ArmRegistrationTimer, RegistrationExpires, NoRegistrationExpires
  <2> QED BY <1>11, <2>1, <2>2 DEF ClientRuns, ClientPoll
<1> QED BY <1>6, <1>7, <1>8, <1>9, <1>10, <1>11 DEF RendezvousNext

\* Where the times in the table come from.
LEMMA PointsCome ==
  ASSUME CompositionInv, [RendezvousNext]_rendezvousVars, NEW s \in DOMAIN rendezvous_points'
  PROVE  \/ s \in DOMAIN rendezvous_points /\ rendezvous_points'[s] = rendezvous_points[s]
         \/ \E i \in DOMAIN outcomes : /\ outcomes[i].response.type = "Register"
                                       /\ rendezvous_points'[s].uuid = outcomes[i].id
                                       /\ rendezvous_points'[s].until = outcomes[i].response.expires
<1> DEFINE Goal ==
      \/ s \in DOMAIN rendezvous_points /\ rendezvous_points'[s] = rendezvous_points[s]
      \/ \E i \in DOMAIN outcomes : /\ outcomes[i].response.type = "Register"
                                    /\ rendezvous_points'[s].uuid = outcomes[i].id
                                    /\ rendezvous_points'[s].until = outcomes[i].response.expires
<1>1. ASSUME rendezvous_points' = rendezvous_points
      PROVE  Goal
  BY <1>1
<1>2. ASSUME NEW x, rendezvous_points' = Restrict(rendezvous_points, DOMAIN rendezvous_points \ {x})
      PROVE  Goal
  BY <1>2 DEF Restrict
<1>3. CASE HandleRegisterOk
  <2>1. PICK x : x = Target
    OBVIOUS
  <2> DEFINE entry == [until |-> Handled.response.expires, uuid |-> Handled.id]
             new == [y \in {x} |-> entry]
  <2>2. rendezvous_points' = Inserted(new, rendezvous_points)
    BY <1>3, <2>1 DEF HandleRegisterOk
  <2>3. \/ rendezvous_points'[s] = entry
        \/ s \in DOMAIN rendezvous_points /\ rendezvous_points'[s] = rendezvous_points[s]
    <3> HIDE DEF entry
    <3> QED BY <2>2 DEF Inserted
  <2>4. 1 \in DOMAIN outcomes /\ Handled = outcomes[1] /\ Handled.response.type = "Register"
    <3>1. outcomes \in Seq(Outcome) /\ outcomes # << >>
      BY <1>3 DEF HandleRegisterOk, Handle, CompositionInv, ClientInv, RequestsInv
    <3> QED BY <1>3, <3>1 DEF HandleRegisterOk, Handle, Handled
  <2> QED BY <2>3, <2>4
<1>4. CASE HandleOutcome
  BY <1>1, <1>2, <1>3, <1>4 DEF HandleOutcome, HandleDeregisterOk, HandleDiscoverOk, HandleFindOk,
     HandleGroupsOk, HandleFailure, InsertPeers, tableVars
<1>5. CASE ClientCalls
  BY <1>1, <1>2, <1>5 DEF ClientCalls, RegisterAt, DeregisterAt, Query, AddressesChange, tableVars
<1>6. CASE TimersFire \/ NoOutcome \/ ArmPeerTimer \/ PeerExpires \/ NoPeerExpires
           \/ ArmRegistrationTimer \/ RegistrationExpires \/ NoRegistrationExpires
  BY <1>1, <1>2, <1>6 DEF TimersFire, TimerFires, NoOutcome, ArmPeerTimer, PeerExpires,
     NoPeerExpires, ArmRegistrationTimer, RegistrationExpires, NoRegistrationExpires, tableVars
<1>7. CASE ClientTick \/ OutcomesArrive \/ UNCHANGED clientVars
  BY <1>1, <1>7 DEF ClientTick, OutcomesArrive, Deliver, clientVars, tableVars
<1> HIDE DEF Goal
<1>8. Goal
  BY <1>4, <1>5, <1>6, <1>7, CompositionStep DEF ClientNext, ClientPoll, Goal
<1> QED BY <1>8 DEF Goal

\* What the server gave, it gave.
LEMMA GaveStands ==
  ASSUME CompositionInv, [RendezvousNext]_rendezvousVars, NEW id, NEW until, Gave(id, until)
  PROVE  Gave(id, until)'
<1>1. PICK r \in replies : /\ r.response.type = "Register"
                           /\ origin[r.id] = id /\ r.response.expires = until
  BY DEF Gave
<1>2. origin'[r.id] = origin[r.id]
  BY OriginStays DEF CompositionInv, NetworkInv, RepliesInv
<1>3. r \in replies'
  <2>1. CASE HandleRequest
    <3>1. PICK response : \E evt : Respond(Head(inbox), response, evt)
      BY <2>1, ServerAnswers DEF CompositionInv
    <3> QED BY <3>1 DEF Respond
  <2>2. CASE ServerRuns /\ ~HandleRequest
    BY <2>2 DEF ServerRuns, Poll, Crash, Restart, AnnounceExpired, NothingExpired, PollFails,
                NothingReceived, outVars
  <2>3. CASE ~ServerRuns
    BY <2>3 DEF RendezvousNext, rendezvousVars, Passes, ClientCallsOut, ClientRuns, Arrives,
                StrangerAsks, Receive, Returns, GivesUp, serverPart, outVars
  <2> QED BY <2>1, <2>2, <2>3
<1>4. id # Stranger
  BY DEF Gave
<1> QED BY <1>1, <1>2, <1>3, <1>4 DEF Gave

LEMMA PromisesStep ==
  ASSUME CompositionInv, OwnEntryInv, PromisesInv, [RendezvousNext]_rendezvousVars
  PROVE  PromisesInv'
<1>1. ASSUME NEW r \in replies', r.response.type = "Register", origin'[r.id] # Stranger
      PROVE  r.response.expires \in Nat /\ Promised(r.id, r.response.expires)'
  <2>1. CASE r \in replies
    <3>1. origin'[r.id] = origin[r.id]
      BY <2>1, OriginStays DEF CompositionInv, NetworkInv, RepliesInv
    <3>2. r.response.expires \in Nat /\ Promised(r.id, r.response.expires)
      BY <1>1, <2>1, <3>1 DEF PromisesInv
    <3> QED BY <2>1, <3>2, PromiseStands
  <2>2. CASE r \notin replies
    <3>1. ServerRuns
      BY <1>1, <2>2 DEF RendezvousNext, rendezvousVars, Passes, ClientCallsOut, ClientRuns, Arrives,
                  StrangerAsks, Receive, Returns, GivesUp, serverPart, outVars
    <3>2. origin' = origin
      BY <3>1 DEF ServerRuns
    <3> QED BY <1>1, <2>2, <3>1, <3>2, RegisterPromises
  <2> QED BY <2>1, <2>2
<1>2. ASSUME NEW i \in DOMAIN outcomes', outcomes'[i].response.type = "Register"
      PROVE  Gave(outcomes[i].id, outcomes[i].response.expires)'
  <2>1. PICK id, until : id = outcomes'[i].id /\ until = outcomes'[i].response.expires
    OBVIOUS
  <2>2. Gave(id, until)
    BY <1>2, <2>1, OutcomesCome DEF PromisesInv
  <2>3. Gave(id, until)'
    BY <2>2, GaveStands
  <2> QED BY <2>1, <2>3
<1>3. ASSUME NEW s \in DOMAIN rendezvous_points'
      PROVE  Gave(rendezvous_points[s].uuid, rendezvous_points[s].until)'
  <2>1. PICK id, until : id = rendezvous_points'[s].uuid /\ until = rendezvous_points'[s].until
    OBVIOUS
  <2>2. Gave(id, until)
    BY <2>1, PointsCome DEF PromisesInv
  <2>3. Gave(id, until)'
    BY <2>2, GaveStands
  <2> QED BY <2>1, <2>3
<1> QED BY <1>1, <1>2, <1>3 DEF PromisesInv

LEMMA PromisesInvariant == RendezvousSpec => [](OwnEntryInv /\ PromisesInv)
<1>1. RendezvousInit => OwnEntryInv /\ PromisesInv
  BY DEF RendezvousInit, ServerInit, StoreInit, ClientInit, OwnEntryInv, PromisesInv
<1>2. CompositionInv /\ OwnEntryInv /\ PromisesInv /\ [RendezvousNext]_rendezvousVars
        => OwnEntryInv' /\ PromisesInv'
  BY OwnStep, PromisesStep
<1> QED BY <1>1, <1>2, CompositionInvariant, PTL DEF RendezvousSpec

\* A client that believes to be registered is held by the server, and if the
\* lifetime stays the same for at least as long as it believes, unless a
\* Deregister came after the Register that it believes in: however requests and
\* responses overtake each other or get lost, and whoever else uses its key.
THEOREM BeliefBacked == RendezvousSpec => []BeliefIsBacked
<1>1. ASSUME PromisesInv, NEW s \in DOMAIN rendezvous_points
      PROVE  \/ Revoked(rendezvous_points[s].uuid)
             \/ rendezvous_points[s].until < now
             \/ /\ OwnKey \in DOMAIN rdb
                /\ LifetimeIsFixed => rendezvous_points[s].until <= Expiration(rdb[OwnKey])
  <2> DEFINE point == rendezvous_points[s]
  <2>1. PICK r \in replies :
          /\ r.response.type = "Register" /\ origin[r.id] # Stranger
          /\ origin[r.id] = point.uuid /\ r.response.expires = point.until
    BY <1>1 DEF PromisesInv, Gave
  <2>2. Promised(r.id, point.until)
    BY <1>1, <2>1 DEF PromisesInv
  <2> QED BY <2>1, <2>2 DEF Promised, Revoked
<1>2. PromisesInv => BeliefIsBacked
  BY <1>1 DEF BeliefIsBacked
<1> QED BY <1>2, PromisesInvariant, PTL

\* The index rounds a time off by a fraction of a second.
LEMMA RoundedOff ==
  ASSUME NEW t \in Nat
  PROVE  /\ FromTimestamp(Timestamp(t)) \in Int
         /\ t <= FromTimestamp(Timestamp(t)) + (TicksPerSecond - 1)
<1>1. TicksPerSecond \in Nat /\ TicksPerSecond > 0
  BY ClockAssumption
<1> DEFINE T == TicksPerSecond
           q == t \div T
<1> HIDE DEF T
<1>2. T \in Nat /\ T > 0
  BY <1>1 DEF T
<1>3. q \in Int /\ t = T * q + (t % T) /\ t % T \in 0..T - 1
  BY <1>2
<1> HIDE DEF q
<1>4. q * T \in Int /\ q * T = T * q
  BY <1>2, <1>3
<1>5. t <= q * T + (T - 1)
  <2>1. t % T <= T - 1 /\ t % T \in Int
    BY <1>2, <1>3
  <2> QED BY <1>2, <1>3, <1>4, <2>1
<1> QED BY <1>4, <1>5 DEF FromTimestamp, Timestamp, T, q

\* What the first entry of the index tells of the client's own registration.
LEMMA OwnExpiry ==
  ASSUME CompositionInv, OwnEntryInv, PromisesInv, LifetimeIsFixed, withdrawn = {},
         NEW e \in edb, Overdue(e, maxLifetime), e[2] \in DOMAIN rdb,
         KeyOf(rdb[e[2]].identity) = OwnKey,
         NEW r \in replies, r.response.type = "Register", origin[r.id] # Stranger
  PROVE  r.response.expires < now + (TicksPerSecond - 1)
<1>1. e[2] = OwnKey
  BY DEF CompositionInv, ServerInv, StoreInv, FiledUnderOwnKey
<1> DEFINE reg == rdb[OwnKey]
           start == reg.lastRegistration
           until == r.response.expires
<1>2. OwnKey \in DOMAIN rdb /\ e = ExpirationKey(start, OwnKey)
  BY <1>1 DEF OwnEntryInv
<1>3. reg \in Stored
  BY <1>2 DEF CompositionInv, ServerInv, StoredInv
<1>4. start \in Nat /\ reg.ttl \in Lifetimes /\ maxLifetime \in Lifetimes /\ now \in Nat
  BY <1>3 DEF Stored, CompositionInv, ServerInv, ProcessInv, StoreInv, StoreTypeOK
<1>5. reg.ttl = maxLifetime /\ maxLifetime \in Nat
  BY <1>4, LifetimesAssumption DEF LifetimeIsFixed
<1>6. FromTimestamp(Timestamp(start)) + maxLifetime < now
  BY <1>2 DEF Overdue, ExpirationKey
<1>7. until \in Nat /\ Promised(r.id, until)
  BY DEF PromisesInv
<1>8. until < now \/ until <= Expiration(reg)
  BY <1>7 DEF Promised
<1>9. Expiration(reg) = start + maxLifetime
  BY <1>5 DEF Expiration
<1> HIDE DEF reg, start, until
<1>10. start <= FromTimestamp(Timestamp(start)) + (TicksPerSecond - 1)
       /\ FromTimestamp(Timestamp(start)) \in Int /\ TicksPerSecond \in Nat \ {0}
  BY <1>4, RoundedOff, ClockAssumption
<1>11. until < now + (TicksPerSecond - 1)
  BY <1>4, <1>5, <1>6, <1>7, <1>8, <1>9, <1>10
<1> QED BY <1>11 DEF until

LEMMA ExpiryStep ==
  ASSUME CompositionInv, OwnEntryInv, PromisesInv, [RendezvousNext]_rendezvousVars,
         LifetimeIsFixed, withdrawn = {}, event' # event, event'.type = "ExpiredRegistration",
         KeyOf(event'.registration.identity) = OwnKey,
         NEW r \in replies, r.response.type = "Register", origin[r.id] # Stranger
  PROVE  r.response.expires < now + (TicksPerSecond - 1)
<1>1. ServerRuns
  BY DEF RendezvousNext, rendezvousVars, Passes, ClientCallsOut, ClientRuns, Arrives, StrangerAsks,
         Receive, Returns, GivesUp, serverPart, outVars
<1>2. ~HandleRequest
  <2> SUFFICES ASSUME HandleRequest PROVE FALSE
    OBVIOUS
  <2>1. PICK response : \E evt : /\ Respond(Head(inbox), response, evt)
                                 /\ evt.type # "ExpiredRegistration"
    BY ServerAnswers DEF CompositionInv
  <2> QED BY <2>1 DEF Respond
<1>3. AnnounceExpired \/ PollFails
  BY <1>1, <1>2 DEF ServerRuns, Poll, NothingExpired, NothingReceived, Crash, Restart, outVars
<1>4. PICK e \in edb : /\ Overdue(e, maxLifetime) /\ e[2] \in DOMAIN rdb
                       /\ event' = [type |-> "ExpiredRegistration", registration |-> rdb[e[2]]]
  BY <1>3 DEF AnnounceExpired, PollFails, PollExpires, FirstEntries
<1> QED BY <1>4, OwnExpiry

\* The server announces no expiry of the client before the time that any of its
\* responses gave, but for the fraction of a second that the index rounds off: of all entries
\* that registering again and again leaves, only the current one fires.
THEOREM PromisesKept == RendezvousSpec => PromisesAreKept
<1>1. CompositionInv /\ OwnEntryInv /\ PromisesInv /\ [RendezvousNext]_rendezvousVars
      => [/\ LifetimeIsFixed /\ withdrawn = {}
          /\ event' # event
          /\ event'.type = "ExpiredRegistration"
          /\ KeyOf(event'.registration.identity) = OwnKey
          => \A r \in replies :
               (r.response.type = "Register" /\ origin[r.id] # Stranger)
                 => r.response.expires < now + (TicksPerSecond - 1)]_rendezvousVars
  BY ExpiryStep
<1> QED BY <1>1, CompositionInvariant, PromisesInvariant, PTL DEF RendezvousSpec, PromisesAreKept

=============================================================================
