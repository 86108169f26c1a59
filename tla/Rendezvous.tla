----------------------------- MODULE Rendezvous -----------------------------
(***************************************************************************)
(* A rendezvous client, the rendezvous server, and the network between     *)
(* them.  Both behaviours own an instance of libp2p's request-response     *)
(* protocol: each request travels on a substream of its own, so requests   *)
(* may be lost (they never arrive), delayed and overtaken, but are not     *)
(* duplicated, and a response goes back to the request it belongs to.      *)
(* Other nodes use the server, too.  The server takes a node to be what    *)
(* its request says and not the peer that the connection is with, so other *)
(* nodes may register and deregister under the client's own identity.      *)
(*                                                                         *)
(* The server's ChannelCloses is left out: all it leads to, the server's   *)
(* panic after it handled the request, is here Crash after a response that *)
(* is never delivered.                                                     *)
(***************************************************************************)
EXTENDS RendezvousClient, RendezvousServer

CONSTANTS Self,             \* the identity of the client's node
          StrangerRequests  \* what other nodes ask: [source, command]

\* What the client sends.
ClientCommands == [type : {"Register"}, addresses : Addresses] \cup [type : {"Deregister"}]
                    \cup Queries

ASSUME RendezvousAssumption ==
  /\ Self \in Nodes
  /\ ClientCommands \subseteq Commands
  /\ StrangerRequests \subseteq [source : Nodes, command : Commands]

\* In place of the client's request id, for requests of other nodes; ids begin
\* with 1.
Stranger == 0

VARIABLES
  wire,       \* requests of the client under way: [id, command]
  origin,     \* the server's request id -> the client's, or Stranger
  withdrawn   \* history: the server's ids of the requests it answered before the
              \* last Deregister under the client's key, and of that itself

clientPart == <<alive, turn, externals, requestVars, outcomes, tableVars, timerVars, news>>
serverPart == <<rdb, edb, procVars, phase, innerVars, outVars>>
networkVars == <<wire, origin, withdrawn>>
rendezvousVars == <<now, clientPart, serverPart, networkVars>>

RendezvousInit == /\ ClientInit
                  /\ ServerInit
                  /\ wire = {}
                  /\ origin = << >>
                  /\ withdrawn = {}

-----------------------------------------------------------------------------
(***************************************************************************)
(* The steps of the two sides, and the network's.                          *)
(***************************************************************************)

Passes == Tick /\ UNCHANGED <<clientPart, serverPart, networkVars>>

\* What send_request() recorded leaves for the rendezvous node.
Sent == {[id |-> i, command |-> processing_requests'[i].command] :
           i \in DOMAIN processing_requests' \ DOMAIN processing_requests}

ClientCallsOut ==
  /\ ClientCalls
  /\ wire' = wire \cup Sent
  /\ UNCHANGED <<serverPart, origin, withdrawn>>

ClientRuns == (TimersFire \/ ClientPoll) /\ UNCHANGED <<serverPart, networkVars>>

OwnKey == KeyOf(Self)
Withdraws == HandleDeregister /\ KeyOf(Head(inbox).source) = OwnKey

ServerRuns ==
  /\ \/ Poll
     \/ Crash
     \/ \E l \in Lifetimes : Restart(l)
  /\ withdrawn' = IF Withdraws THEN {Head(inbox).id} \cup {r.id : r \in replies}
                               ELSE withdrawn
  /\ UNCHANGED <<clientPart, wire, origin>>

Arrives(m) ==
  /\ Receive(RendezvousRequest(received + 1, Self, m.command))
  /\ wire' = wire \ {m}
  /\ origin' = Append(origin, m.id)
  /\ UNCHANGED <<clientPart, withdrawn>>

\* The server compares the source of the request with nothing
\* (rendezvous/server.rs 209-211).
StrangerAsks(q) ==
  /\ Receive(RendezvousRequest(received + 1, q.source, q.command))
  /\ origin' = Append(origin, Stranger)
  /\ UNCHANGED <<clientPart, wire, withdrawn>>

\* libp2p drops a response whose request it has given up.
Returns(r) ==
  /\ origin[r.id] # Stranger
  /\ Deliver(origin[r.id], r.response)
  /\ UNCHANGED <<serverPart, networkVars>>

\* libp2p gives a request up: no connection, one that closes, a timeout.
GivesUp(id) == Deliver(id, Failure) /\ UNCHANGED <<serverPart, networkVars>>

RendezvousNext ==
  \/ Passes \/ ClientCallsOut \/ ClientRuns \/ ServerRuns
  \/ \E m \in wire : Arrives(m)
  \/ \E q \in StrangerRequests : StrangerAsks(q)
  \/ \E r \in replies : Returns(r)
  \/ \E id \in InFlight : GivesUp(id)

RendezvousSpec == RendezvousInit /\ [][RendezvousNext]_rendezvousVars

-----------------------------------------------------------------------------
(***************************************************************************)
(* Properties.                                                             *)
(***************************************************************************)

\* The client by itself stands for the client with this server: whatever the
\* server answers, to whichever request, at whatever time, and the network
\* delays, is among what the client was checked against.
ImplementsClient == ClientSpec

LifetimeIsFixed == \A l, m \in Lifetimes : l = m

\* A Deregister under the client's key was carried out after the server
\* answered this request of the client.
Revoked(id) == \E i \in withdrawn : origin[i] = id

\* What the client believes of its registration is so: the server holds the
\* client, and while its lifetime stays the same for at least as long as the
\* client believes, unless a Deregister came after the Register that the belief
\* is from.  Requests and responses overtake each other or are lost,
\* transactions fail, the server crashes, registrations expire and other nodes
\* use the client's key in between.
BeliefIsBacked ==
  \A s \in DOMAIN rendezvous_points :
    \/ Revoked(rendezvous_points[s].uuid)
    \/ rendezvous_points[s].until < now
    \/ /\ OwnKey \in DOMAIN rdb
       /\ LifetimeIsFixed => rendezvous_points[s].until <= Expiration(rdb[OwnKey])

\* message.rs, "Returned on successful registration, with current expiration
\* time": as long as nobody deregisters under the client's key and the lifetime
\* stays the same, the server announces no expiry before the time that any of
\* its responses gave, but for the fraction of a second that the index rounds
\* off, however often the client registers.
PromisesAreKept ==
  [][/\ LifetimeIsFixed /\ withdrawn = {}
     /\ event' # event
     /\ event'.type = "ExpiredRegistration"
     /\ KeyOf(event'.registration.identity) = OwnKey
     => \A r \in replies :
          (r.response.type = "Register" /\ origin[r.id] # Stranger)
            => r.response.expires < now + (TicksPerSecond - 1)]_rendezvousVars

=============================================================================
