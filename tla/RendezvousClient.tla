-------------------------- MODULE RendezvousClient --------------------------
(***************************************************************************)
(* The rendezvous client's network behaviour (client.rs).  The node calls  *)
(* register(), deregister(), discover(), find() and groups(), the swarm    *)
(* calls poll(); each holds the behaviour exclusively.  Beside them the    *)
(* connection tasks bring in the outcomes of requests, and a timer thread  *)
(* fires the Delays.                                                       *)
(*                                                                         *)
(* libp2p gives every request exactly one outcome, a response or a         *)
(* failure, in any order.  Every insert into `peers` and in                *)
(* `rendezvous_points` draws a Uuid, stored with the entry and with the    *)
(* timer, and never reused: it is modelled by what it was drawn for, the   *)
(* request and, for a peer, the locator key.  The timers, two              *)
(* FuturesUnordered, are modelled by sets.                                 *)
(***************************************************************************)
EXTENDS Message, Clock, SequencesExt

CONSTANTS Servers,             \* rendezvous nodes
          Queries,             \* the discover, find and groups commands
          RegistrationBuffer,  \* REGISTRATION_BUFFER, in ticks
          NoAddresses,         \* no external address is known
          MaxSent              \* bound of the model: requests ever sent

ASSUME ClientAssumption == /\ Queries \subseteq Command
                           /\ RegistrationBuffer \in Nat
                           /\ NoAddresses \notin Addresses
                           /\ MaxSent \in Nat

VARIABLES
  alive,                  \* the task that polls the swarm has not panicked
  turn,                   \* which part of poll() comes next
  externals,              \* addresses: the external addresses of the node
  sent,                   \* the number of requests sent so far
  processing_requests,    \* request id -> [target, command]
  outcomes,               \* inner: outcomes not yet handled, oldest first
  peers,                  \* peer -> [via, registration, uuid]
  rendezvous_points,      \* rendezvous node -> [until, uuid]
  expiring_peers,         \* timers: [who, uuid, due, state]
  expiring_registrations, \* timers: [who, uuid, due, state]
  news                    \* the last event handed to the swarm

tableVars == <<peers, rendezvous_points>>
timerVars == <<expiring_peers, expiring_registrations>>
requestVars == <<sent, processing_requests>>
clientVars == <<now, alive, turn, externals, requestVars, outcomes, tableVars,
                timerVars, news>>

NoNews == [type |-> "None"]

ClientInit ==
  /\ now = 0
  /\ alive = TRUE
  /\ turn = "outcomes"
  /\ externals = NoAddresses
  /\ sent = 0
  /\ processing_requests = << >>
  /\ outcomes = << >>
  /\ peers = << >>
  /\ rendezvous_points = << >>
  /\ expiring_peers = {}
  /\ expiring_registrations = {}
  /\ news = NoNews

\* HashMap::insert(), of one entry or of several: new ones replace old ones.
Inserted(entries, table) ==
  [k \in DOMAIN entries \cup DOMAIN table |->
     IF k \in DOMAIN entries THEN entries[k] ELSE table[k]]

\* Outside poll(); inside, a call is ahead of `turn` only once inner is empty.
Idle == alive /\ turn = "outcomes"

-----------------------------------------------------------------------------
(***************************************************************************)
(* The operations of the node.                                             *)
(***************************************************************************)

\* send_request(), once for each target.
SendRequests(targets, command) ==
  LET order == SetToSeq(targets)
  IN  /\ sent + Len(order) <= MaxSent
      /\ sent' = sent + Len(order)
      /\ processing_requests' =
           Inserted([id \in sent + 1 .. sent + Len(order) |->
                       [target |-> order[id - sent], command |-> command]],
                    processing_requests)

RegisterCommand == [type |-> "Register", addresses |-> externals]

\* register(): a node without an external address is not accessible.
RegisterAt(server) ==
  /\ Idle
  /\ externals # NoAddresses
  /\ SendRequests({server}, RegisterCommand)
  /\ UNCHANGED <<now, alive, turn, externals, outcomes, tableVars, timerVars, news>>

\* deregister() forgets the rendezvous node before it has answered.
DeregisterAt(server) ==
  /\ Idle
  /\ SendRequests({server}, [type |-> "Deregister"])
  /\ rendezvous_points' = Restrict(rendezvous_points, DOMAIN rendezvous_points \ {server})
  /\ UNCHANGED <<now, alive, turn, externals, outcomes, peers, timerVars, news>>

\* discover(), find() and groups().
Query(server, command) ==
  /\ Idle
  /\ SendRequests({server}, command)
  /\ UNCHANGED <<now, alive, turn, externals, outcomes, tableVars, timerVars, news>>

\* on_swarm_event(): when the external addresses change, and some are left, the
\* node registers again wherever it believes to be registered.
AddressesChange(addresses) ==
  /\ Idle
  /\ addresses # externals
  /\ externals' = addresses
  /\ IF addresses # NoAddresses
     THEN SendRequests(DOMAIN rendezvous_points, [type |-> "Register", addresses |-> addresses])
     ELSE UNCHANGED requestVars
  /\ UNCHANGED <<now, alive, turn, outcomes, tableVars, timerVars, news>>

-----------------------------------------------------------------------------
(***************************************************************************)
(* Beside the behaviour: libp2p's connections, the timer thread, time.     *)
(***************************************************************************)

ClientTick == Tick /\ UNCHANGED <<alive, turn, externals, requestVars, outcomes,
                                  tableVars, timerVars, news>>

InFlight == DOMAIN processing_requests \ {outcomes[i].id : i \in DOMAIN outcomes}

\* The outcome of a request: a response, or Failure for libp2p's OutboundFailure
\* (no connection, a timeout, a connection that closes).
Failure == [type |-> "OutboundFailure"]

Deliver(id, response) ==
  /\ alive
  /\ id \in InFlight
  /\ outcomes' = Append(outcomes, [id |-> id, response |-> response])
  /\ UNCHANGED <<now, alive, turn, externals, requestVars, tableVars, timerVars, news>>

Fired(timers, t) == (timers \ {t}) \cup {[t EXCEPT !.state = "fired"]}

\* A Delay fires at its time or any time later.
TimerFires(timers) ==
  \E t \in timers : /\ t.state = "armed"
                    /\ t.due <= now
                    /\ timers' = Fired(timers, t)

TimersFire ==
  /\ alive
  /\ \/ TimerFires(expiring_peers) /\ UNCHANGED expiring_registrations
     \/ TimerFires(expiring_registrations) /\ UNCHANGED expiring_peers
  /\ UNCHANGED <<now, alive, turn, externals, requestVars, outcomes, tableVars, news>>

-----------------------------------------------------------------------------
(***************************************************************************)
(* poll(), first part: the outcomes of requests.                           *)
(***************************************************************************)

\* The timer's future: it first runs, and takes its Delay from the clock, when
\* it is polled.
NewTimer(who, uuid, due) == [who |-> who, uuid |-> uuid, due |-> due, state |-> "new"]

Handled == Head(outcomes)
Target == processing_requests[Handled.id].target
Asked == processing_requests[Handled.id].command

\* An outcome is taken off, its request forgotten, and an event returned.
Handle(type) ==
  /\ Idle
  /\ outcomes # << >>
  /\ Handled.response.type = type
  /\ outcomes' = Tail(outcomes)
  /\ processing_requests' =
       Restrict(processing_requests, DOMAIN processing_requests \ {Handled.id})
  /\ UNCHANGED <<now, alive, turn, externals, sent>>

\* A mistake: the handler returns no event.
ReportsNothing(type) == UNCHANGED news

Reports(type) == news' = [type |-> type, request |-> Handled.id, rendezvous_node |-> Target]

HandleRegisterOk ==
  /\ Handle("Register")
  /\ LET until == Handled.response.expires
     IN  /\ rendezvous_points' =
              Inserted([s \in {Target} |-> [until |-> until, uuid |-> Handled.id]],
                       rendezvous_points)
         /\ expiring_registrations' = expiring_registrations \cup
              {NewTimer(Target, Handled.id, until - RegistrationBuffer)}
  /\ Reports("Registered")
  /\ UNCHANGED <<peers, expiring_peers>>

HandleDeregisterOk ==
  /\ Handle("Deregister")
  /\ rendezvous_points' = Restrict(rendezvous_points, DOMAIN rendezvous_points \ {Target})
  /\ Reports("Deregistered")
  /\ UNCHANGED <<peers, timerVars>>

UuidOfResponse(registration) == Handled.id  \* a mistake: one for all

Uuid(registration) == <<Handled.id, KeyOf(registration.identity)>>

\* Each registration is inserted under its peer; of several of one peer, the
\* last in the response stays, whichever that is.
PutPeers(registrations) ==
  LET found == {r.identity.peer : r \in registrations}
  IN  \E last \in [found -> registrations] :
        /\ \A p \in found : last[p].identity.peer = p
        /\ peers' = Inserted([p \in found |-> [via |-> Target, registration |-> last[p],
                                               uuid |-> Uuid(last[p])]],
                             peers)

PeerTimer(who, registration) == NewTimer(who, Uuid(registration), Expiration(registration))

\* Mistakes: timers that name the rendezvous node, or none for a known peer.
InsertTimesTarget(registrations) ==
  /\ PutPeers(registrations)
  /\ expiring_peers' = expiring_peers \cup {PeerTimer(Target, r) : r \in registrations}
  /\ UNCHANGED <<rendezvous_points, expiring_registrations>>

InsertTimesNewPeers(registrations) ==
  /\ PutPeers(registrations)
  /\ expiring_peers' = expiring_peers \cup
       {PeerTimer(r.identity.peer, r) :
          r \in {x \in registrations : x.identity.peer \notin DOMAIN peers}}
  /\ UNCHANGED <<rendezvous_points, expiring_registrations>>

\* Each registration of a response is inserted and gets a timer of its own.
InsertPeers(registrations) ==
  /\ PutPeers(registrations)
  /\ expiring_peers' = expiring_peers \cup
       {PeerTimer(r.identity.peer, r) : r \in registrations}
  /\ UNCHANGED <<rendezvous_points, expiring_registrations>>

HandleDiscoverOk == /\ Handle("Discover")
                    /\ InsertPeers(Handled.response.peers)
                    /\ Reports("Discovered")

HandleFindOk ==
  /\ Handle("Find")
  /\ InsertPeers(Handled.response.found)
  /\ Reports(IF Handled.response.found = {} THEN "NotFound" ELSE "Found")

HandleGroupsOk == /\ Handle("Groups")
                  /\ Reports("Groups")
                  /\ UNCHANGED <<tableVars, timerVars>>

\* The Err responses and event_for_outbound_failure(): a Failed event, and the
\* tables stay as they are.
HandleFailure == /\ Handle("Failed") \/ Handle("OutboundFailure")
                 /\ news' = [type |-> "Failed", of |-> Asked.type, request |-> Handled.id,
                             rendezvous_node |-> Target]
                 /\ UNCHANGED <<tableVars, timerVars>>

HandleOutcome == \/ HandleRegisterOk \/ HandleDeregisterOk \/ HandleDiscoverOk
                 \/ HandleFindOk \/ HandleGroupsOk \/ HandleFailure

NoOutcome == /\ Idle
             /\ outcomes = << >>
             /\ turn' = "peers"
             /\ UNCHANGED <<now, alive, externals, requestVars, outcomes, tableVars,
                            timerVars, news>>

-----------------------------------------------------------------------------
(***************************************************************************)
(* poll(), second part: the two sets of timers.                            *)
(***************************************************************************)

\* A new timer runs for the first time: its Delay is the time that is left, and
\* when none is left, to_std() fails and expect() panics.
ArmTimer(timers, t) ==
  /\ t \in timers
  /\ t.state = "new"
  /\ IF t.due >= now
     THEN /\ timers' = (timers \ {t}) \cup {[t EXCEPT !.state = "armed"]}
          /\ UNCHANGED alive
     ELSE /\ alive' = FALSE
          /\ UNCHANGED timers

\* poll_next() yields a timer that fired; it counts when the entry it was made
\* for is still the current one.
Yields(timers, t) == t \in timers /\ t.state = "fired" /\ timers' = timers \ {t}

CurrentByName(table, t) == t.who \in DOMAIN table  \* a mistake: any timer counts

Current(table, t) == t.who \in DOMAIN table /\ table[t.who].uuid = t.uuid

NothingYields(timers) == /\ \A t \in timers : t.state = "armed"
                         /\ UNCHANGED timers

PollPeers == alive /\ turn = "peers"

ArmPeerTimer ==
  /\ PollPeers
  /\ \E t \in expiring_peers : ArmTimer(expiring_peers, t)
  /\ UNCHANGED <<now, turn, externals, requestVars, outcomes, tableVars,
                 expiring_registrations, news>>

PeerExpires ==
  /\ PollPeers
  /\ \E t \in expiring_peers :
       /\ Yields(expiring_peers, t)
       /\ Current(peers, t)
       /\ peers' = Restrict(peers, DOMAIN peers \ {t.who})
       /\ news' = [type |-> "PeerExpired", rendezvous_node |-> peers[t.who].via,
                   registration |-> peers[t.who].registration]
  /\ turn' = "outcomes"
  /\ UNCHANGED <<now, alive, externals, requestVars, outcomes, rendezvous_points,
                 expiring_registrations>>

NoPeerExpires ==
  /\ PollPeers
  /\ \/ \E t \in expiring_peers : Yields(expiring_peers, t) /\ ~Current(peers, t)
     \/ NothingYields(expiring_peers)
  /\ turn' = "points"
  /\ UNCHANGED <<now, alive, externals, requestVars, outcomes, tableVars,
                 expiring_registrations, news>>

PollPoints == alive /\ turn = "points"

ArmRegistrationTimer ==
  /\ PollPoints
  /\ \E t \in expiring_registrations : ArmTimer(expiring_registrations, t)
  /\ UNCHANGED <<now, turn, externals, requestVars, outcomes, tableVars,
                 expiring_peers, news>>

RegistrationExpires ==
  /\ PollPoints
  /\ \E t \in expiring_registrations :
       /\ Yields(expiring_registrations, t)
       /\ Current(rendezvous_points, t)
       /\ rendezvous_points' = Restrict(rendezvous_points, DOMAIN rendezvous_points \ {t.who})
       /\ news' = [type |-> "RegistrationExpired", rendezvous_node |-> t.who]
  /\ turn' = "outcomes"
  /\ UNCHANGED <<now, alive, externals, requestVars, outcomes, peers, expiring_peers>>

\* poll() returns Pending, even when it only came across a timer of the past.
NoRegistrationExpires ==
  /\ PollPoints
  /\ \/ \E t \in expiring_registrations :
          Yields(expiring_registrations, t) /\ ~Current(rendezvous_points, t)
     \/ NothingYields(expiring_registrations)
  /\ turn' = "outcomes"
  /\ UNCHANGED <<now, alive, externals, requestVars, outcomes, tableVars,
                 expiring_peers, news>>

-----------------------------------------------------------------------------
(***************************************************************************)
(* The client by itself, against servers that answer anything a server may *)
(* answer, late or not: registrations of any age, expired ones included.   *)
(***************************************************************************)

\* An identity that register() merged from two requests of nodes.
Merged == {Merge(n, m) : n, m \in Nodes}

Stored == [identity : Merged, addresses : Addresses, lastRegistration : 0..now, ttl : Lifetimes]

\* A store has one registration under each key.
FiledOnce == {Range(f) : f \in {g \in UNION {[K -> Stored] : K \in SUBSET Key} :
                                  \A k \in DOMAIN g : KeyOf(g[k].identity) = k}}

SpelledGroups == {n.group : n \in Nodes} \ {NoGroup}

Answers(command) ==
  {Failure, Failed(command.type)} \cup
  CASE command.type = "Register"   -> {RegisterOk(t + l) : t \in 0..now, l \in Lifetimes}
    [] command.type = "Deregister" -> {DeregisterOk}
    [] command.type = "Find"       -> {FindOk({r}) : r \in Stored} \cup {FindOk({})}
    [] command.type = "Groups"     -> {GroupsOk(G) : G \in SUBSET SpelledGroups}
    [] command.type = "Discover"   -> {DiscoverOk(R) : R \in FiledOnce}

ClientCalls ==
  \/ \E s \in Servers : \/ RegisterAt(s)
                        \/ DeregisterAt(s)
                        \/ \E c \in Queries : Query(s, c)
  \/ \E a \in Addresses \cup {NoAddresses} : AddressesChange(a)

OutcomesArrive ==
  \E id \in InFlight : \E r \in Answers(processing_requests[id].command) : Deliver(id, r)

ClientPoll == \/ HandleOutcome \/ NoOutcome
              \/ ArmPeerTimer \/ PeerExpires \/ NoPeerExpires
              \/ ArmRegistrationTimer \/ RegistrationExpires \/ NoRegistrationExpires

ClientNext == ClientTick \/ ClientCalls \/ OutcomesArrive \/ TimersFire \/ ClientPoll

ClientSpec == ClientInit /\ [][ClientNext]_clientVars

\* The swarm task keeps being woken (by other behaviours, too); Delays fire; and
\* libp2p times out every request.
FairClientSpec == /\ ClientSpec
                  /\ WF_clientVars(ClientPoll)
                  /\ WF_clientVars(TimersFire)
                  /\ WF_clientVars(OutcomesArrive)

-----------------------------------------------------------------------------
(***************************************************************************)
(* Properties.                                                             *)
(***************************************************************************)

TimerTypeOK(t) == t.due \in Int /\ t.state \in {"new", "armed", "fired"}

ClientTypeOK ==
  /\ alive \in BOOLEAN
  /\ turn \in {"outcomes", "peers", "points"}
  /\ externals \in Addresses \cup {NoAddresses}
  /\ sent \in 0..MaxSent
  /\ DOMAIN processing_requests \subseteq 1..sent
  /\ \A i \in DOMAIN outcomes : outcomes[i].id \in DOMAIN processing_requests
  /\ DOMAIN peers \subseteq Peers
  /\ \A p \in DOMAIN peers : /\ peers[p].via \in Servers
                             /\ peers[p].registration \in Registration
  /\ DOMAIN rendezvous_points \subseteq Servers
  /\ \A t \in expiring_peers : t.who \in Peers /\ TimerTypeOK(t)
  /\ \A t \in expiring_registrations : t.who \in Servers /\ TimerTypeOK(t)

\* Every entry of the two tables has one timer waiting for it, set to the time
\* the entry's own content gives: a refresh whose timer is the old one, or a
\* poll() that swallows the current timer, leaves an entry that never lapses.
EntriesHaveTimers ==
  /\ \A p \in DOMAIN peers :
       {t.due : t \in {x \in expiring_peers : x.who = p /\ x.uuid = peers[p].uuid}} =
       {Expiration(peers[p].registration)}
  /\ \A s \in DOMAIN rendezvous_points :
       {t.due : t \in {x \in expiring_registrations :
                         x.who = s /\ x.uuid = rendezvous_points[s].uuid}} =
       {rendezvous_points[s].until - RegistrationBuffer}

Announces(type) == news.type = type

\* `peers` is a table of leases: PeerExpired is announced of a peer whose
\* current registration is over, whatever timers older registrations left.
PeerLeases == INSTANCE Leases WITH
  Holder <- Peers, Revocable <- FALSE,
  deadline <- [p \in DOMAIN peers |-> Expiration(peers[p].registration)],
  lapsed <- IF Announces("PeerExpired") THEN {news.registration.identity.peer} ELSE {}

PeersAreLeases == PeerLeases!LeaseSpec

\* So is `rendezvous_points`, except that deregistering gives a lease back: a
\* registration is announced as expired REGISTRATION_BUFFER before it is over,
\* not earlier, and not when it was refreshed or withdrawn in time.
PointLeases == INSTANCE Leases WITH
  Holder <- Servers, Revocable <- TRUE,
  deadline <- [s \in DOMAIN rendezvous_points |->
                 rendezvous_points[s].until - RegistrationBuffer],
  lapsed <- IF Announces("RegistrationExpired") THEN {news.rendezvous_node} ELSE {}

PointsAreLeases == PointLeases!LeaseSpec

\* client.rs, expect("Refresh time out of int range"): the time left until a
\* peer expires is one that a timer can be set to.
PeerTimersCanBeSet == [][ArmPeerTimer => alive']_clientVars

\* A peer or a rendezvous node whose time is over leaves its table or is
\* renewed: however often it was renewed, and whatever timers are in the way.
EntriesLapse ==
  /\ \A p \in Peers :
       (p \in DOMAIN peers /\ Expiration(peers[p].registration) <= now)
         ~> (~alive \/ p \notin DOMAIN peers \/ Expiration(peers[p].registration) > now)
  /\ \A s \in Servers :
       (s \in DOMAIN rendezvous_points /\ rendezvous_points[s].until <= now)
         ~> (~alive \/ s \notin DOMAIN rendezvous_points \/ rendezvous_points[s].until > now)

\* The last event names the request, and it is forgotten.
Reported(id) == /\ "request" \in DOMAIN news
                /\ news.request = id
                /\ id \notin DOMAIN processing_requests

\* Every request has its event in the end, the one that tells the node's code
\* what became of it, and leaves nothing behind: although poll() returns after
\* each event, and expirations come in between (client.rs 212-230, 367-479).
RequestsAreReported ==
  \A id \in 1..MaxSent :
    id \in DOMAIN processing_requests ~> (~alive \/ Reported(id))

=============================================================================
