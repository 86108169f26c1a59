-------------------------- MODULE RendezvousServer --------------------------
(***************************************************************************)
(* The rendezvous server's network behaviour (server.rs) on top of the     *)
(* store.  The swarm calls poll() over and over; a call first asks the     *)
(* store for one expired registration and, when there is none, takes the   *)
(* next request out of libp2p's request-response behaviour, handles it     *)
(* against the store and sends the response.  The connection tasks run     *)
(* beside it: requests arrive and response channels close between any two  *)
(* steps.  The process may stop and be started again with another --ttl;   *)
(* only the store survives.                                                *)
(***************************************************************************)
EXTENDS Registrations

CONSTANTS Commands,     \* the commands that nodes send
          MaxRequests,  \* bound of the model: requests ever received
          StoreFaults   \* whether LMDB transactions may fail (map or disk full)

ASSUME ServerAssumption == /\ Commands \subseteq Command
                           /\ MaxRequests \in Nat
                           /\ StoreFaults \in BOOLEAN

VARIABLES
  running,      \* the process is up
  maxLifetime,  \* Config::max_lifetime of the running process
  phase,        \* which half of poll() comes next
  inbox,        \* inner: request events not yet handled, oldest first
  closed,       \* inner: pending requests whose response channel is gone
  received,     \* the number of requests received so far
  replies,      \* responses handed to their channels: [id, response]
  event,        \* the last event handed to the swarm
  accepted      \* history: key -> the last registration accepted for it

procVars == <<running, maxLifetime>>
innerVars == <<inbox, closed, received>>
outVars == <<replies, event, accepted>>
serverVars == <<storeVars, procVars, phase, innerVars, outVars>>

NoEvent == [type |-> "None"]

ServerInit ==
  /\ StoreInit
  /\ running = TRUE
  /\ maxLifetime \in Lifetimes
  /\ phase = "expirations"
  /\ inbox = << >>
  /\ closed = {}
  /\ received = 0
  /\ replies = {}
  /\ event = NoEvent
  /\ accepted = << >>

-----------------------------------------------------------------------------
(***************************************************************************)
(* The environment: libp2p and the operator.                               *)
(***************************************************************************)

ServerTick == Tick /\ UNCHANGED <<rdb, edb, procVars, phase, innerVars, outVars>>

\* A request was read off an inbound substream.
Receive(request) ==
  /\ running
  /\ received < MaxRequests
  /\ received' = received + 1
  /\ inbox' = Append(inbox, request)
  /\ UNCHANGED <<storeVars, procVars, phase, closed, outVars>>

\* The connection of a pending request closes, or the request times out.
ChannelCloses(i) ==
  /\ running
  /\ i \in DOMAIN inbox
  /\ inbox[i].id \notin closed
  /\ closed' = closed \cup {inbox[i].id}
  /\ UNCHANGED <<storeVars, procVars, phase, inbox, received, outVars>>

Stop ==
  /\ running' = FALSE
  /\ phase' = "expirations"
  /\ inbox' = << >>
  /\ closed' = {}

Crash ==
  /\ running
  /\ Stop
  /\ UNCHANGED <<storeVars, maxLifetime, received, outVars>>

Restart(lifetime) ==
  /\ ~running
  /\ running' = TRUE
  /\ maxLifetime' = lifetime
  /\ UNCHANGED <<storeVars, phase, innerVars, outVars>>

-----------------------------------------------------------------------------
(***************************************************************************)
(* poll(), first half: expirations.                                        *)
(***************************************************************************)

PollExpirations == running /\ phase = "expirations"

\* One expired registration is announced and poll() returns.
AnnounceExpired ==
  /\ PollExpirations
  /\ \E e \in edb :
       /\ PollExpires(e, maxLifetime)
       /\ event' = [type |-> "ExpiredRegistration", registration |-> rdb[e[2]]]
  /\ UNCHANGED <<now, procVars, phase, innerVars, replies, accepted>>

\* The store has nothing to announce: on to the requests, in the same call.
NothingExpired ==
  /\ PollExpirations
  /\ \/ \E e \in edb : PollDropsEntry(e, maxLifetime)
     \/ PollIdle(maxLifetime)
  /\ phase' = "requests"
  /\ UNCHANGED <<now, procVars, innerVars, outVars>>

\* The store cannot begin its transaction (the error is taken for `None`), or
\* its commit fails, which registrations.rs ignores: the expiry is announced
\* although nothing was written.
PollFails ==
  /\ StoreFaults
  /\ PollExpirations
  /\ \/ phase' = "requests" /\ UNCHANGED event
     \/ /\ \E e \in FirstEntries :
             /\ Overdue(e, maxLifetime)
             /\ e[2] \in DOMAIN rdb
             /\ event' = [type |-> "ExpiredRegistration", registration |-> rdb[e[2]]]
        /\ UNCHANGED phase
  /\ UNCHANGED <<storeVars, procVars, innerVars, replies, accepted>>

-----------------------------------------------------------------------------
(***************************************************************************)
(* poll(), second half: one request, or nothing to do.                     *)
(***************************************************************************)

PollRequests == running /\ phase = "requests"

NothingReceived ==
  /\ PollRequests
  /\ inbox = << >>
  /\ phase' = "expirations"
  /\ UNCHANGED <<storeVars, procVars, innerVars, outVars>>

\* A mistake: the response sent for the request received last.
RespondNewest(request, response, evt) ==
  \/ /\ request.id \in closed
     /\ Stop
     /\ UNCHANGED <<maxLifetime, received, replies, event>>
  \/ /\ request.id \notin closed
     /\ inbox' = Tail(inbox)
     /\ phase' = "expirations"
     /\ replies' = replies \cup {[id |-> received, response |-> response]}
     /\ event' = evt
     /\ UNCHANGED <<procVars, closed, received>>

\* send_response(): a channel that is closed gives the response back and
\* expect() ends the process; otherwise poll() returns the event.
Respond(request, response, evt) ==
  \/ /\ request.id \in closed
     /\ Stop
     /\ UNCHANGED <<maxLifetime, received, replies, event>>
  \/ /\ request.id \notin closed
     /\ inbox' = Tail(inbox)
     /\ phase' = "expirations"
     /\ replies' = replies \cup {[id |-> request.id, response |-> response]}
     /\ event' = evt
     /\ UNCHANGED <<procVars, closed, received>>

Handling(type) == PollRequests /\ inbox # << >> /\ Head(inbox).command.type = type

\* For the history: what the source asked the server to publish, and when.
Accepted(request) == [node |-> request.source, addresses |-> request.command.addresses,
                      since |-> now, ttl |-> maxLifetime]

HandleRegister ==
  /\ Handling("Register")
  /\ LET request == Head(inbox)
         key == KeyOf(request.source)
         created == Registered(request.source, request.command.addresses, maxLifetime)
     IN  /\ Register(request.source, request.command.addresses, maxLifetime)
         /\ Respond(request, RegisterOk(created.lastRegistration + maxLifetime),
                    [type |-> "CreatedRegistration", registration |-> created])
         /\ accepted' = DbPut(accepted, key, Accepted(request))
  /\ UNCHANGED now

HandleDeregister ==
  /\ Handling("Deregister")
  /\ LET request == Head(inbox)
     IN  /\ Deregister(request.source)
         /\ Respond(request, DeregisterOk,
                    [type |-> "RemovedRegistration", source |-> request.source])
         /\ accepted' = DbDelete(accepted, KeyOf(request.source))
  /\ UNCHANGED now

HandleDiscover ==
  /\ Handling("Discover")
  /\ LET request == Head(inbox)
         peers == Discover(request.source, request.command.group)
     IN  Respond(request, DiscoverOk(peers),
                 [type |-> "ServedDiscovery", source |-> request.source])
  /\ UNCHANGED <<storeVars, accepted>>

HandleFind ==
  /\ Handling("Find")
  /\ LET request == Head(inbox)
     IN  Respond(request, FindOk(Get(request.command.key)),
                 [type |-> "ServedFind", source |-> request.source])
  /\ UNCHANGED <<storeVars, accepted>>

HandleGroups ==
  /\ Handling("Groups")
  /\ LET request == Head(inbox)
     IN  Respond(request, GroupsOk(Groups(request.source.namespace)),
                 [type |-> "ServedGroups", source |-> request.source])
  /\ UNCHANGED <<storeVars, accepted>>

\* A mistake: the request dropped with the transaction.
HandleDropsFailed ==
  /\ StoreFaults
  /\ PollRequests
  /\ inbox # << >>
  /\ inbox' = Tail(inbox)
  /\ phase' = "expirations"
  /\ UNCHANGED <<storeVars, procVars, closed, received, outVars>>

\* The store fails: the transaction is dropped and the error is the response.
HandleFails ==
  /\ StoreFaults
  /\ PollRequests
  /\ inbox # << >>
  /\ LET request == Head(inbox)
     IN  Respond(request, Failed(request.command.type),
                 [type |-> "Failure", source |-> request.source])
  /\ UNCHANGED <<storeVars, accepted>>

-----------------------------------------------------------------------------

HandleRequest == \/ HandleRegister \/ HandleDeregister \/ HandleDiscover
                 \/ HandleFind \/ HandleGroups \/ HandleFails

Poll == \/ AnnounceExpired \/ NothingExpired \/ PollFails
        \/ NothingReceived \/ HandleRequest

ServerEnvironment ==
  \/ ServerTick
  \/ \E n \in Nodes, c \in Commands : Receive(RendezvousRequest(received + 1, n, c))
  \/ \E i \in DOMAIN inbox : ChannelCloses(i)
  \/ Crash
  \/ \E l \in Lifetimes : Restart(l)

ServerNext == ServerEnvironment \/ Poll

ServerSpec == ServerInit /\ [][ServerNext]_serverVars

\* The swarm task keeps being scheduled: the server binary's autonat behaviour
\* re-arms its own timers and wakes the task even when no peer does.  And of
\* the transactions that poll() begins over and over not all fail.
FairServerSpec == /\ ServerSpec
                  /\ WF_serverVars(Poll)
                  /\ SF_serverVars(AnnounceExpired \/ NothingExpired)

-----------------------------------------------------------------------------
(***************************************************************************)
(* Properties.                                                             *)
(***************************************************************************)

RequestIds == 1..MaxRequests

ServerTypeOK ==
  /\ StoreTypeOK
  /\ running \in BOOLEAN
  /\ maxLifetime \in Lifetimes
  /\ phase \in {"expirations", "requests"}
  /\ \A i \in DOMAIN inbox : /\ inbox[i].id \in RequestIds
                            /\ inbox[i].source \in Nodes
                            /\ inbox[i].command \in Commands
  /\ closed \subseteq {inbox[i].id : i \in DOMAIN inbox}
  /\ received \in 0..MaxRequests
  /\ \A r \in replies : r.id \in RequestIds

\* The store holds exactly the last registration accepted for each key, with
\* the content of that request: neither a refresh that merges two identities,
\* nor the cleaning of the index (expiry, as the code is, only announces), nor
\* a crash or a failing transaction loses, revives or outdates a registration.
HoldsWhatItAccepted ==
  /\ DOMAIN rdb = DOMAIN accepted
  /\ \A k \in DOMAIN rdb :
       LET a == accepted[k] IN
       /\ rdb[k].identity.peer = a.node.peer
       /\ rdb[k].identity.discoverability = a.node.discoverability
       /\ rdb[k].addresses = a.addresses
       /\ rdb[k].lastRegistration = a.since
       /\ rdb[k].ttl = a.ttl

\* The store as those see it who registered: the content of a registration, and
\* the time its lifetime began.
Published ==
  [k \in DOMAIN rdb |->
     [content |-> [discoverability |-> rdb[k].identity.discoverability,
                   addresses |-> rdb[k].addresses,
                   ttl |-> rdb[k].ttl],
      since |-> rdb[k].lastRegistration]]

\* The request that poll() handles next, if it has the type.
NextAsked(type) == {r \in Range(inbox) : PollRequests /\ r = Head(inbox) /\ r.command.type = type}

AskedOfDirectory ==
  {[type |-> "Withdraw", key |-> KeyOf(r.source)] : r \in NextAsked("Deregister")} \cup
  {[type |-> "Publish", key |-> KeyOf(r.source),
    content |-> [discoverability |-> r.source.discoverability,
                 addresses |-> r.command.addresses,
                 ttl |-> maxLifetime]] : r \in NextAsked("Register")}

\* The server implements the directory: whatever expires and is cleaned up, is
\* merged, fails or crashes in between, an entry changes only when a request to
\* register or deregister is handled, is then exactly what that request says,
\* and no other entry changes with it.
Dir == INSTANCE Directory WITH directory <- Published, asked <- AskedOfDirectory

ImplementsDirectory == Dir!DirSpec

NewReplies(type) == {r \in replies' \ replies : r.response.type = type}

Requester == Head(inbox).source

\* Which registrations a Discover command is about, told from the identities
\* (message.rs: the peers of the source's namespace, filtered by group, as far
\* as their discoverability goes) instead of from prefixes of locator keys.
Discoverable(a, group) ==
  /\ a.node.namespace = Requester.namespace
  /\ KeyOf(a.node) # KeyOf(Requester)
  /\ group # NoGroup => GroupOf(a.node) = group
  /\ \/ a.node.discoverability = "Namespace"
     \/ /\ a.node.discoverability = "Group"
        /\ GroupOf(a.node) = GroupOf(Requester)

\* A Discover response names exactly the peers whose last accepted registration
\* the source may see: the prefix scan neither leaks nor misses one.
DiscoverIsExact ==
  [][\A r \in NewReplies("Discover") :
       {KeyOf(p.identity) : p \in r.response.peers} =
       {k \in DOMAIN accepted : Discoverable(accepted[k], Head(inbox).command.group)}]_serverVars

\* server.rs, expect("Send response"): a request that poll() handles still has
\* its response channel.
RespondsToOpenChannels == [][HandleRequest => Head(inbox).id \notin closed]_serverVars

\* config.rs, "Number of hours to wait before expiring a non-refreshed
\* registration": what is announced as expired was not refreshed in time.
ExpiresOnlyNonRefreshed ==
  [][AnnounceExpired => Expiration(event'.registration) < now]_serverVars

\* config.rs, "expiring a non-refreshed registration": a registration that is
\* announced as expired is not served from then on.
ExpiredIsGone ==
  [][AnnounceExpired => (Get(KeyOf(event.registration.identity)) = {})']_serverVars

\* message.rs, "Return a list of all groups in the source peer's namespace": of
\* every registration there, and of no other, the group its node is found under.
GroupsListsAllGroups ==
  [][\A r \in NewReplies("Groups") :
       LET inNamespace == {k \in DOMAIN accepted :
                             accepted[k].node.namespace = Requester.namespace}
       IN  r.response.groups = {GroupOf(accepted[k].node) : k \in inNamespace}]_serverVars

\* message.rs, "Discover all peers in the source's namespace": of no other.
DiscoverStaysInNamespace ==
  [][\A r \in NewReplies("Discover") : \A p \in r.response.peers :
       p.identity.namespace = Requester.namespace]_serverVars

\* An entry of the index that is overdue leaves it while the server runs: no
\* entry, not even one without a registration, blocks the ones behind it.
OverdueEntriesDrain ==
  \A k \in Key, s \in 0..Timestamp(MaxNow) :
    (<<s, k>> \in edb /\ Overdue(<<s, k>>, maxLifetime))
      ~> (<<s, k>> \notin edb \/ ~running)

\* A request the server has received is answered unless its requester gives up
\* or the process stops, whatever expires meanwhile and is announced first.
RequestsAreAnswered ==
  \A id \in RequestIds :
    (\E i \in DOMAIN inbox : inbox[i].id = id)
      ~> ((\E r \in replies : r.id = id) \/ id \in closed \/ ~running)

=============================================================================
