----------------------- MODULE RendezvousClientProofs -----------------------
(***************************************************************************)
(* What the rendezvous client keeps, proved for every set of nodes,        *)
(* servers, queries and lifetimes, whatever the servers answer and however *)
(* late, and in whatever order the timers fire.                            *)
(***************************************************************************)
EXTENDS RendezvousClient, IdentificationProofs, FiniteSetTheorems, TLAPS

-----------------------------------------------------------------------------
(***************************************************************************)
(* The inductive invariant.                                                *)
(***************************************************************************)

LocatorKeys == {KeyOf(n) : n \in NodeIdentifier}

\* The registrations of one response: a store has one under each key.
Found == {R \in SUBSET Registration :
            \A r, q \in R : KeyOf(r.identity) = KeyOf(q.identity) => r = q}

CommandTypes == {"Register", "Deregister", "Discover", "Find", "Groups"}

\* What may come back for a request.
Response == {Failure, DeregisterOk}
              \cup {Failed(type) : type \in CommandTypes}
              \cup {RegisterOk(expires) : expires \in Nat}
              \cup {DiscoverOk(R) : R \in Found} \cup {FindOk(R) : R \in Found}
              \cup {GroupsOk(G) : G \in SUBSET (Name \cup {NoGroup})}

Outcome == [id : Nat, response : Response]

\* Every outcome in the queue belongs to a request of its own.
RequestsInv ==
  /\ now \in Nat
  /\ sent \in 0..MaxSent
  /\ DOMAIN processing_requests \subseteq 1..sent
  /\ \A id \in DOMAIN processing_requests : /\ processing_requests[id].target \in Servers
                                            /\ processing_requests[id].command \in Command
  /\ outcomes \in Seq(Outcome)
  /\ \A i \in DOMAIN outcomes : outcomes[i].id \in DOMAIN processing_requests
  /\ \A i, j \in DOMAIN outcomes : outcomes[i].id = outcomes[j].id => i = j

\* A peer is filed under its own id.
TablesInv ==
  /\ \A p \in DOMAIN peers : /\ p \in Peers
                             /\ peers[p].via \in Servers
                             /\ peers[p].registration \in Registration
                             /\ peers[p].registration.identity.peer = p
  /\ \A s \in DOMAIN rendezvous_points : s \in Servers /\ rendezvous_points[s].until \in Nat
  /\ IsFiniteSet(DOMAIN rendezvous_points)

Timer(holders, uuids) ==
  [who : holders, uuid : uuids, due : Int, state : {"new", "armed", "fired"}]

\* The request a Uuid was drawn for is answered, and forgotten: no later
\* response draws the Uuid again.
Spent(id) == id \in 1..sent /\ id \notin DOMAIN processing_requests

FiredAreDue(timers) == \A t \in timers : t.state = "fired" => t.due <= now

TimersInv ==
  /\ expiring_peers \subseteq Timer(Peers, Nat \X LocatorKeys)
  /\ expiring_registrations \subseteq Timer(Servers, Nat)
  /\ \A t \in expiring_peers : Spent(t.uuid[1])
  /\ \A t \in expiring_registrations : Spent(t.uuid)
  /\ FiredAreDue(expiring_peers)
  /\ FiredAreDue(expiring_registrations)

TaskInv == /\ alive \in BOOLEAN
           /\ turn \in {"outcomes", "peers", "points"}
           /\ externals \in Addresses \cup {NoAddresses}

ClientInv == TaskInv /\ RequestsInv /\ TablesInv /\ TimersInv /\ EntriesHaveTimers

-----------------------------------------------------------------------------
(***************************************************************************)
(* The operators the client is made of.                                    *)
(***************************************************************************)

\* The times of the timers of holder k with a given Uuid.
Dues(timers, k, uuid) == {t.due : t \in {x \in timers : x.who = k /\ x.uuid = uuid}}

LEMMA EntriesAreDue ==
  EntriesHaveTimers <=>
    /\ \A p \in DOMAIN peers :
         Dues(expiring_peers, p, peers[p].uuid) = {Expiration(peers[p].registration)}
    /\ \A s \in DOMAIN rendezvous_points :
         Dues(expiring_registrations, s, rendezvous_points[s].uuid) =
           {rendezvous_points[s].until - RegistrationBuffer}
BY DEF EntriesHaveTimers, Dues

\* A timer that is armed, or fires, remains the timer it was.
LEMMA StateKeepsDues ==
  ASSUME NEW timers, NEW t \in timers, NEW u,
         u.who = t.who, u.uuid = t.uuid, u.due = t.due, NEW k, NEW uuid
  PROVE  Dues((timers \ {t}) \cup {u}, k, uuid) = Dues(timers, k, uuid)
<1>1. ASSUME NEW T, NEW d
      PROVE  d \in Dues(T, k, uuid) <=> \E x \in T : x.who = k /\ x.uuid = uuid /\ x.due = d
  BY DEF Dues
<1>2. ASSUME NEW d
      PROVE  d \in Dues((timers \ {t}) \cup {u}, k, uuid) <=> d \in Dues(timers, k, uuid)
  <2>1. (\E x \in (timers \ {t}) \cup {u} : x.who = k /\ x.uuid = uuid /\ x.due = d)
          <=> \E x \in timers : x.who = k /\ x.uuid = uuid /\ x.due = d
    OBVIOUS
  <2> QED BY <1>1, <2>1
<1> QED BY <1>2

\* A timer that is gone is missed by no holder but its own.
LEMMA OthersKeepDues ==
  ASSUME NEW timers, NEW t, NEW k, NEW uuid, ~(t.who = k /\ t.uuid = uuid)
  PROVE  Dues(timers \ {t}, k, uuid) = Dues(timers, k, uuid)
BY DEF Dues

LEMMA InsertedProperties ==
  ASSUME NEW entries, NEW table
  PROVE  /\ DOMAIN Inserted(entries, table) = DOMAIN entries \cup DOMAIN table
         /\ \A k \in DOMAIN entries : Inserted(entries, table)[k] = entries[k]
         /\ \A k \in DOMAIN table \ DOMAIN entries : Inserted(entries, table)[k] = table[k]
BY DEF Inserted

LEMMA RestrictProperties ==
  ASSUME NEW f, NEW S
  PROVE  DOMAIN Restrict(f, S) = S /\ \A x \in S : Restrict(f, S)[x] = f[x]
BY DEF Restrict

\* The order in which requests are sent out to several nodes.
LEMMA OrderOfTargets ==
  ASSUME NEW S, IsFiniteSet(S)
  PROVE  /\ Len(SetToSeq(S)) \in Nat
         /\ SetToSeq(S) \in [1..Len(SetToSeq(S)) -> S]
<1> DEFINE n == Cardinality(S)
<1>1. n \in Nat /\ ExistsBijection(1..n, S)
  BY FS_CardinalityType
<1>2. \E f \in [1..n -> S] : IsInjective(f)
  BY <1>1 DEF ExistsBijection, Bijection, Injection
<1>3. SetToSeq(S) \in [1..n -> S]
  BY <1>2 DEF SetToSeq
<1>4. SetToSeq(S) \in Seq(S) /\ Len(SetToSeq(S)) = n
  BY <1>1, <1>3
<1> QED BY <1>1, <1>3, <1>4

LEMMA SendRequestsKeeps ==
  ASSUME RequestsInv, NEW targets \in SUBSET Servers, IsFiniteSet(targets),
         NEW command \in Command, SendRequests(targets, command), UNCHANGED <<now, outcomes>>
  PROVE  /\ RequestsInv'
         /\ \A id : Spent(id) => Spent(id)'
         /\ sent <= sent'
         /\ \A id \in DOMAIN processing_requests :
              id \in DOMAIN processing_requests'
                /\ processing_requests'[id] = processing_requests[id]
         /\ \A id \in DOMAIN processing_requests' \ DOMAIN processing_requests :
              id \in sent + 1 .. sent' /\ processing_requests'[id].command = command
<1> DEFINE order == SetToSeq(targets)
           n == Len(order)
           new == [id \in sent + 1 .. sent + n |->
                     [target |-> order[id - sent], command |-> command]]
<1>1. n \in Nat /\ order \in [1..n -> targets]
  BY OrderOfTargets
<1>2. /\ sent + n <= MaxSent /\ sent' = sent + n
      /\ processing_requests' = Inserted(new, processing_requests)
  BY DEF SendRequests
<1>3. sent \in Nat /\ MaxSent \in Nat
  BY ClientAssumption DEF RequestsInv
<1> HIDE DEF n, order
<1>4. \A id \in DOMAIN new : id - sent \in 1..n
  BY <1>1, <1>3
<1>5. \A id \in DOMAIN new : new[id].target \in Servers /\ new[id].command = command
  BY <1>1, <1>4
<1>6. DOMAIN new = sent + 1 .. sent + n
  OBVIOUS
<1> HIDE DEF new
<1>7. /\ DOMAIN processing_requests' = (sent + 1 .. sent + n) \cup DOMAIN processing_requests
      /\ \A id \in DOMAIN processing_requests' :
           \/ id \in DOMAIN new /\ processing_requests'[id] = new[id]
           \/ id \in DOMAIN processing_requests
                /\ processing_requests'[id] = processing_requests[id]
  <2> DEFINE all == Inserted(new, processing_requests)
  <2>1. DOMAIN all = DOMAIN new \cup DOMAIN processing_requests
    BY InsertedProperties
  <2>2. \A id \in DOMAIN new : all[id] = new[id]
    BY InsertedProperties
  <2>3. \A id \in DOMAIN processing_requests \ DOMAIN new : all[id] = processing_requests[id]
    BY InsertedProperties
  <2> HIDE DEF all
  <2>4. processing_requests' = all
    BY <1>2 DEF all
  <2> QED BY <1>6, <2>1, <2>2, <2>3, <2>4
<1>8. RequestsInv'
  <2>1. sent' \in 0..MaxSent /\ DOMAIN processing_requests' \subseteq 1..sent'
    BY <1>1, <1>2, <1>3, <1>7 DEF RequestsInv
  <2>2. \A id \in DOMAIN processing_requests' : /\ processing_requests'[id].target \in Servers
                                                /\ processing_requests'[id].command \in Command
    BY <1>5, <1>7 DEF RequestsInv
  <2> QED BY <2>1, <2>2, <1>7 DEF RequestsInv
<1>9. ASSUME NEW id, Spent(id)
      PROVE  Spent(id)'
  BY <1>1, <1>2, <1>3, <1>7, <1>9 DEF Spent
<1>10. \A id \in DOMAIN processing_requests : id \notin DOMAIN new
  BY <1>3, <1>6 DEF RequestsInv
<1> QED BY <1>1, <1>2, <1>3, <1>5, <1>6, <1>7, <1>8, <1>9, <1>10

LEMMA ClientInvInit == ClientInit => ClientInv
<1> SUFFICES ASSUME ClientInit PROVE ClientInv
  OBVIOUS
<1>1. IsFiniteSet(DOMAIN rendezvous_points)
  BY FS_EmptySet DEF ClientInit
<1> QED BY <1>1, ClientAssumption DEF ClientInit, ClientInv, TaskInv, RequestsInv, TablesInv,
           TimersInv, FiredAreDue, EntriesHaveTimers

-----------------------------------------------------------------------------
(***************************************************************************)
(* The node's calls, and what happens beside the behaviour.                *)
(***************************************************************************)

\* Sending requests, and forgetting rendezvous nodes on the way.
LEMMA CallsKeep ==
  ASSUME ClientInv, NEW targets \in SUBSET Servers, IsFiniteSet(targets),
         NEW command \in Command, SendRequests(targets, command),
         UNCHANGED <<now, alive, turn, outcomes, peers, timerVars>>,
         externals' \in Addresses \cup {NoAddresses},
         DOMAIN rendezvous_points' \subseteq DOMAIN rendezvous_points,
         \A s \in DOMAIN rendezvous_points' : rendezvous_points'[s] = rendezvous_points[s]
  PROVE  ClientInv'
<1>1. RequestsInv' /\ \A id : Spent(id) => Spent(id)'
  BY SendRequestsKeeps DEF ClientInv
<1>2. TablesInv'
  <2>1. IsFiniteSet(DOMAIN rendezvous_points')
    BY FS_Subset DEF ClientInv, TablesInv
  <2> QED BY <2>1 DEF ClientInv, TablesInv
<1>3. TimersInv'
  BY <1>1 DEF ClientInv, TimersInv, FiredAreDue, timerVars
<1>4. EntriesHaveTimers'
  BY DEF ClientInv, EntriesHaveTimers, timerVars
<1> QED BY <1>1, <1>2, <1>3, <1>4 DEF ClientInv, TaskInv

LEMMA ClientCallsStep ==
  ASSUME ClientInv, ClientCalls
  PROVE  ClientInv'
<1>1. ASSUME NEW s \in Servers
      PROVE  {s} \in SUBSET Servers /\ IsFiniteSet({s})
  BY FS_Singleton
<1>2. ASSUME NEW s \in Servers, RegisterAt(s)
      PROVE  ClientInv'
  <2>1. RegisterCommand \in Command
    BY <1>2 DEF RegisterAt, RegisterCommand, Command, ClientInv, TaskInv
  <2> QED BY <1>1, <1>2, <2>1, CallsKeep DEF RegisterAt, tableVars, ClientInv, TaskInv
<1>3. ASSUME NEW s \in Servers, DeregisterAt(s)
      PROVE  ClientInv'
  <2>1. [type |-> "Deregister"] \in Command
    BY DEF Command
  <2>2. /\ DOMAIN rendezvous_points' \subseteq DOMAIN rendezvous_points
        /\ \A x \in DOMAIN rendezvous_points' : rendezvous_points'[x] = rendezvous_points[x]
    BY <1>3 DEF DeregisterAt, Restrict
  <2> QED BY <1>1, <1>3, <2>1, <2>2, CallsKeep DEF DeregisterAt, ClientInv, TaskInv
<1>4. ASSUME NEW s \in Servers, NEW c \in Queries, Query(s, c)
      PROVE  ClientInv'
  <2>1. c \in Command
    BY ClientAssumption
  <2> QED BY <1>1, <1>4, <2>1, CallsKeep DEF Query, tableVars, ClientInv, TaskInv
<1>5. ASSUME NEW a \in Addresses \cup {NoAddresses}, AddressesChange(a)
      PROVE  ClientInv'
  <2>1. CASE a # NoAddresses
    <3>1. [type |-> "Register", addresses |-> a] \in Command
      BY <2>1 DEF Command
    <3>2. DOMAIN rendezvous_points \in SUBSET Servers /\ IsFiniteSet(DOMAIN rendezvous_points)
      BY DEF ClientInv, TablesInv
    <3>3. SendRequests(DOMAIN rendezvous_points, [type |-> "Register", addresses |-> a])
      BY <1>5, <2>1 DEF AddressesChange
    <3> QED BY <1>5, <3>1, <3>2, <3>3, CallsKeep DEF AddressesChange, tableVars
  <2>2. CASE a = NoAddresses
    BY <1>5, <2>2 DEF AddressesChange, requestVars, tableVars, timerVars, ClientInv, TaskInv,
                      RequestsInv, TablesInv, TimersInv, Spent, FiredAreDue, EntriesHaveTimers
  <2> QED BY <2>1, <2>2
<1> QED BY <1>2, <1>3, <1>4, <1>5 DEF ClientCalls

LEMMA ClientTickStep ==
  ASSUME ClientInv, ClientTick
  PROVE  ClientInv'
<1>1. now \in Nat /\ now' = now + 1
  BY DEF ClientInv, RequestsInv, ClientTick, Tick
<1>2. UNCHANGED <<alive, turn, externals, sent, processing_requests, outcomes, peers,
                  rendezvous_points, expiring_peers, expiring_registrations>>
  BY DEF ClientTick, requestVars, tableVars, timerVars
<1>3. TaskInv' /\ TablesInv' /\ EntriesHaveTimers'
  BY <1>2 DEF ClientInv, TaskInv, TablesInv, EntriesHaveTimers
<1>4. RequestsInv'
  BY <1>1, <1>2 DEF ClientInv, RequestsInv
<1>5. ASSUME NEW timers, FiredAreDue(timers), \A t \in timers : t.due \in Int
      PROVE  \A t \in timers : t.state = "fired" => t.due <= now'
  BY <1>1, <1>5 DEF FiredAreDue
<1>6. TimersInv'
  <2>1. (\A t \in expiring_peers : t.due \in Int)
        /\ \A t \in expiring_registrations : t.due \in Int
    BY DEF ClientInv, TimersInv, Timer
  <2>2. (\A t \in expiring_peers : t.state = "fired" => t.due <= now')
        /\ \A t \in expiring_registrations : t.state = "fired" => t.due <= now'
    BY <1>5, <2>1 DEF ClientInv, TimersInv
  <2> QED BY <1>2, <2>2 DEF ClientInv, TimersInv, Spent, FiredAreDue
<1> QED BY <1>3, <1>4, <1>6 DEF ClientInv

LEMMA MergedIdentities ==
  ASSUME NEW id \in Merged
  PROVE  id \in NodeIdentifier
<1>1. PICK n \in Nodes, m \in Nodes : id = [n EXCEPT !.discoverability = m.discoverability]
  BY DEF Merged, Merge
<1>2. n \in NodeIdentifier /\ m.discoverability \in Discoverability
  BY IdentificationAssumption DEF NodeIdentifier
<1> QED BY <1>1, <1>2, MergeKeepsKey

LEMMA AnswersAreResponses ==
  ASSUME now \in Nat, NEW command \in Command, NEW r \in Answers(command)
  PROVE  r \in Response
<1>1. Stored \subseteq Registration
  BY MergedIdentities DEF Stored, Registration
<1>2. command.type \in CommandTypes
  BY DEF Command, CommandTypes
<1>3. CASE r = Failure \/ r = Failed(command.type)
  BY <1>2, <1>3 DEF Response
<1>4. CASE command.type = "Register" /\ r \in {RegisterOk(t + l) : t \in 0..now, l \in Lifetimes}
  <2>1. PICK t \in 0..now, l \in Lifetimes : r = RegisterOk(t + l)
    BY <1>4
  <2>2. t + l \in Nat
    BY LifetimesAssumption
  <2> QED BY <2>1, <2>2 DEF Response
<1>5. CASE command.type = "Deregister" /\ r = DeregisterOk
  BY <1>5 DEF Response
<1>6. CASE command.type = "Find" /\ r \in {FindOk({q}) : q \in Stored} \cup {FindOk({})}
  <2>1. \A q \in Stored : {q} \in Found
    BY <1>1 DEF Found
  <2>2. {} \in Found
    BY DEF Found
  <2> QED BY <1>6, <2>1, <2>2 DEF Response
<1>7. CASE command.type = "Groups" /\ r \in {GroupsOk(G) : G \in SUBSET SpelledGroups}
  <2>1. SpelledGroups \subseteq Name \cup {NoGroup}
    BY IdentificationAssumption DEF SpelledGroups, NodeIdentifier
  <2> QED BY <1>7, <2>1 DEF Response
<1>8. CASE command.type = "Discover" /\ r \in {DiscoverOk(R) : R \in FiledOnce}
  <2>1. PICK R \in FiledOnce : r = DiscoverOk(R)
    BY <1>8
  <2>2. PICK f \in UNION {[K -> Stored] : K \in SUBSET Key} :
          R = Range(f) /\ \A k \in DOMAIN f : KeyOf(f[k].identity) = k
    BY <2>1 DEF FiledOnce
  <2>3. R \in Found
    BY <1>1, <2>2 DEF Range, Found
  <2> QED BY <2>1, <2>3 DEF Response
<1> QED BY <1>2, <1>3, <1>4, <1>5, <1>6, <1>7, <1>8 DEF Answers, CommandTypes

LEMMA DeliverStep ==
  ASSUME ClientInv, OutcomesArrive
  PROVE  ClientInv'
<1>1. PICK id \in InFlight : \E r \in Answers(processing_requests[id].command) : Deliver(id, r)
  BY DEF OutcomesArrive
<1> PICK r \in Answers(processing_requests[id].command) : Deliver(id, r)
  BY <1>1
<1>2. /\ id \in DOMAIN processing_requests
      /\ \A i \in DOMAIN outcomes : outcomes[i].id # id
      /\ id \in Nat
  BY DEF InFlight, ClientInv, RequestsInv
<1>3. r \in Response
  BY <1>1, <1>2, AnswersAreResponses DEF ClientInv, RequestsInv
<1> DEFINE new == [id |-> id, response |-> r]
<1>4. new \in Outcome /\ new.id = id
  BY <1>2, <1>3 DEF Outcome
<1> HIDE DEF new
<1>5. outcomes' = Append(outcomes, new) /\ outcomes \in Seq(Outcome)
  BY <1>1 DEF Deliver, new, ClientInv, RequestsInv
<1>6. outcomes' \in Seq(Outcome) /\ Len(outcomes') = Len(outcomes) + 1
  BY <1>4, <1>5
<1>7. \A i \in DOMAIN outcomes' : \/ i \in DOMAIN outcomes /\ outcomes'[i] = outcomes[i]
                                  \/ i = Len(outcomes) + 1 /\ outcomes'[i].id = id
  BY <1>4, <1>5
<1>8. UNCHANGED <<now, alive, turn, externals, sent, processing_requests, peers,
                  rendezvous_points, expiring_peers, expiring_registrations>>
  BY <1>1 DEF Deliver, requestVars, tableVars, timerVars
<1>9. RequestsInv'
  <2>1. \A i \in DOMAIN outcomes' : outcomes'[i].id \in DOMAIN processing_requests'
    BY <1>2, <1>7, <1>8 DEF ClientInv, RequestsInv
  <2>2. \A i, j \in DOMAIN outcomes' : outcomes'[i].id = outcomes'[j].id => i = j
    BY <1>2, <1>7 DEF ClientInv, RequestsInv
  <2> QED BY <1>6, <1>8, <2>1, <2>2 DEF ClientInv, RequestsInv
<1>10. TaskInv' /\ TablesInv' /\ TimersInv' /\ EntriesHaveTimers'
  BY <1>8 DEF ClientInv, TaskInv, TablesInv, TimersInv, Spent, FiredAreDue, EntriesHaveTimers
<1> QED BY <1>9, <1>10 DEF ClientInv

-----------------------------------------------------------------------------
(***************************************************************************)
(* The timers.                                                             *)
(***************************************************************************)

\* A timer of a set is armed, or fires.
LEMMA TimerChanges ==
  ASSUME ClientInv, NEW timers \in {expiring_peers, expiring_registrations}, NEW t \in timers,
         NEW state \in {"new", "armed", "fired"}, state = "fired" => t.due <= now,
         UNCHANGED <<now, turn, externals, requestVars, outcomes, tableVars>>,
         alive' \in BOOLEAN,
         \/ /\ timers = expiring_peers
            /\ expiring_peers' = (timers \ {t}) \cup {[t EXCEPT !.state = state]}
            /\ UNCHANGED expiring_registrations
         \/ /\ timers = expiring_registrations
            /\ expiring_registrations' = (timers \ {t}) \cup {[t EXCEPT !.state = state]}
            /\ UNCHANGED expiring_peers
  PROVE  ClientInv'
<1> DEFINE u == [t EXCEPT !.state = state]
<1>1. UNCHANGED <<sent, processing_requests, peers, rendezvous_points>>
  BY DEF requestVars, tableVars
<1>2. TaskInv' /\ RequestsInv' /\ TablesInv'
  BY <1>1 DEF ClientInv, TaskInv, RequestsInv, TablesInv
<1>3. ASSUME NEW holders, NEW uuids, t \in Timer(holders, uuids)
      PROVE  /\ u \in Timer(holders, uuids)
             /\ u.who = t.who /\ u.uuid = t.uuid /\ u.due = t.due
             /\ u.state = "fired" => u.due <= now
  BY <1>3 DEF Timer
<1>4. ASSUME timers = expiring_peers,
             expiring_peers' = (timers \ {t}) \cup {u},
             UNCHANGED expiring_registrations
      PROVE  TimersInv' /\ EntriesHaveTimers'
  <2>1. timers \in SUBSET Timer(Peers, Nat \X LocatorKeys)
    BY <1>4 DEF ClientInv, TimersInv
  <2>2. /\ u \in Timer(Peers, Nat \X LocatorKeys)
        /\ u.who = t.who /\ u.uuid = t.uuid /\ u.due = t.due
        /\ u.state = "fired" => u.due <= now
    BY <1>3, <2>1
  <2> HIDE DEF u
  <2>3. \A p \in DOMAIN peers : Dues(expiring_peers', p, peers[p].uuid) =
                                Dues(expiring_peers, p, peers[p].uuid)
    <3>1. \A k, uuid : Dues((timers \ {t}) \cup {u}, k, uuid) = Dues(timers, k, uuid)
      BY <2>2, StateKeepsDues
    <3> QED BY <1>4, <3>1
  <2>4. TimersInv'
    BY <1>1, <1>4, <2>1, <2>2 DEF ClientInv, TimersInv, Spent, FiredAreDue
  <2>5. \A p \in DOMAIN peers : Dues(expiring_peers', p, peers[p].uuid) =
                                {Expiration(peers[p].registration)}
    BY <2>3, EntriesAreDue DEF ClientInv
  <2> QED BY <1>1, <1>4, <2>4, <2>5 DEF ClientInv, EntriesHaveTimers, Dues
<1>5. ASSUME timers = expiring_registrations,
             expiring_registrations' = (timers \ {t}) \cup {u},
             UNCHANGED expiring_peers
      PROVE  TimersInv' /\ EntriesHaveTimers'
  <2>1. timers \in SUBSET Timer(Servers, Nat)
    BY <1>5 DEF ClientInv, TimersInv
  <2>2. /\ u \in Timer(Servers, Nat)
        /\ u.who = t.who /\ u.uuid = t.uuid /\ u.due = t.due
        /\ u.state = "fired" => u.due <= now
    BY <1>3, <2>1
  <2> HIDE DEF u
  <2>3. \A s \in DOMAIN rendezvous_points :
          Dues(expiring_registrations', s, rendezvous_points[s].uuid) =
          Dues(expiring_registrations, s, rendezvous_points[s].uuid)
    <3>1. \A k, uuid : Dues((timers \ {t}) \cup {u}, k, uuid) = Dues(timers, k, uuid)
      BY <2>2, StateKeepsDues
    <3> QED BY <1>5, <3>1
  <2>4. TimersInv'
    BY <1>1, <1>5, <2>1, <2>2 DEF ClientInv, TimersInv, Spent, FiredAreDue
  <2>5. \A s \in DOMAIN rendezvous_points :
          Dues(expiring_registrations', s, rendezvous_points[s].uuid) =
          {rendezvous_points[s].until - RegistrationBuffer}
    BY <2>3, EntriesAreDue DEF ClientInv
  <2> QED BY <1>1, <1>5, <2>4, <2>5 DEF ClientInv, EntriesHaveTimers, Dues
<1> QED BY <1>2, <1>4, <1>5 DEF ClientInv

LEMMA TimersFireStep ==
  ASSUME ClientInv, TimersFire
  PROVE  ClientInv'
<1>1. /\ UNCHANGED <<now, turn, externals, requestVars, outcomes, tableVars>>
      /\ alive' \in BOOLEAN
  BY DEF TimersFire, ClientInv, TaskInv
<1>2. ASSUME NEW t \in expiring_peers, t.due <= now, expiring_peers' = Fired(expiring_peers, t),
             UNCHANGED expiring_registrations
      PROVE  ClientInv'
  BY <1>1, <1>2, TimerChanges DEF Fired
<1>3. ASSUME NEW t \in expiring_registrations, t.due <= now,
             expiring_registrations' = Fired(expiring_registrations, t), UNCHANGED expiring_peers
      PROVE  ClientInv'
  BY <1>1, <1>3, TimerChanges DEF Fired
<1> QED BY <1>2, <1>3 DEF TimersFire, TimerFires

LEMMA ArmTimerStep ==
  ASSUME ClientInv, ArmPeerTimer \/ ArmRegistrationTimer
  PROVE  ClientInv'
<1>1. ASSUME alive' = FALSE, UNCHANGED <<now, turn, externals, requestVars, outcomes, tableVars,
                                         timerVars>>
      PROVE  ClientInv'
  BY <1>1 DEF ClientInv, TaskInv, RequestsInv, TablesInv, TimersInv, FiredAreDue, Spent,
              EntriesHaveTimers, requestVars, tableVars, timerVars
<1>2. CASE ArmPeerTimer
  <2>1. PICK t \in expiring_peers : ArmTimer(expiring_peers, t)
    BY <1>2 DEF ArmPeerTimer
  <2>2. UNCHANGED <<now, turn, externals, requestVars, outcomes, tableVars,
                    expiring_registrations>>
    BY <1>2 DEF ArmPeerTimer
  <2>3. CASE t.due >= now
    BY <2>1, <2>2, <2>3, TimerChanges DEF ArmTimer, ClientInv, TaskInv
  <2>4. CASE ~(t.due >= now)
    BY <1>1, <2>1, <2>2, <2>4 DEF ArmTimer, timerVars
  <2> QED BY <2>3, <2>4
<1>3. CASE ArmRegistrationTimer
  <2>1. PICK t \in expiring_registrations : ArmTimer(expiring_registrations, t)
    BY <1>3 DEF ArmRegistrationTimer
  <2>2. UNCHANGED <<now, turn, externals, requestVars, outcomes, tableVars, expiring_peers>>
    BY <1>3 DEF ArmRegistrationTimer
  <2>3. CASE t.due >= now
    BY <2>1, <2>2, <2>3, TimerChanges DEF ArmTimer, ClientInv, TaskInv
  <2>4. CASE ~(t.due >= now)
    BY <1>1, <2>1, <2>2, <2>4 DEF ArmTimer, timerVars
  <2> QED BY <2>3, <2>4
<1> QED BY <1>2, <1>3

\* poll() takes a timer that fired off: the entry it was made for is removed,
\* or there is none.
LEMMA PeersPollStep ==
  ASSUME ClientInv, PeerExpires \/ NoPeerExpires
  PROVE  ClientInv'
<1>1. /\ turn' \in {"outcomes", "points"}
      /\ UNCHANGED <<now, alive, externals, sent, processing_requests, outcomes,
                     rendezvous_points, expiring_registrations>>
  BY DEF PeerExpires, NoPeerExpires, requestVars, tableVars
<1>2. TaskInv' /\ RequestsInv'
  BY <1>1 DEF ClientInv, TaskInv, RequestsInv
<1>3. CASE UNCHANGED <<peers, expiring_peers>>
  BY <1>1, <1>2, <1>3 DEF ClientInv, TablesInv, TimersInv, Spent, FiredAreDue, EntriesHaveTimers
<1>4. ASSUME NEW t \in expiring_peers, expiring_peers' = expiring_peers \ {t},
             NEW S \in SUBSET DOMAIN peers, DOMAIN peers' = S,
             \A p \in S : peers'[p] = peers[p] /\ ~(t.who = p /\ t.uuid = peers[p].uuid)
      PROVE  ClientInv'
  <2>1. TablesInv' /\ TimersInv'
    BY <1>1, <1>4 DEF ClientInv, TablesInv, TimersInv, Spent, FiredAreDue
  <2>2. \A p \in DOMAIN peers' : Dues(expiring_peers', p, peers'[p].uuid) =
                                 Dues(expiring_peers, p, peers[p].uuid)
    BY <1>4, OthersKeepDues
  <2>3. \A p \in DOMAIN peers' : Dues(expiring_peers', p, peers'[p].uuid) =
                                 {Expiration(peers'[p].registration)}
    BY <1>4, <2>2, EntriesAreDue DEF ClientInv
  <2>4. EntriesHaveTimers'
    BY <1>1, <2>3 DEF ClientInv, EntriesHaveTimers, Dues
  <2> QED BY <1>2, <2>1, <2>4 DEF ClientInv
<1>5. CASE PeerExpires
  <2>1. PICK t \in expiring_peers : /\ Yields(expiring_peers, t)
                                    /\ Current(peers, t)
                                    /\ peers' = Restrict(peers, DOMAIN peers \ {t.who})
    BY <1>5 DEF PeerExpires
  <2> QED BY <1>4, <2>1, RestrictProperties DEF Yields
<1>6. CASE NoPeerExpires /\ \E t \in expiring_peers : Yields(expiring_peers, t) /\ ~Current(peers, t)
  <2>1. PICK t \in expiring_peers : Yields(expiring_peers, t) /\ ~Current(peers, t)
    BY <1>6
  <2>2. peers' = peers
    BY <1>6 DEF NoPeerExpires, tableVars
  <2> QED BY <1>4, <2>1, <2>2 DEF Yields, Current
<1> QED BY <1>3, <1>5, <1>6 DEF NoPeerExpires, NothingYields, tableVars

LEMMA PointsPollStep ==
  ASSUME ClientInv, RegistrationExpires \/ NoRegistrationExpires
  PROVE  ClientInv'
<1>1. /\ turn' = "outcomes"
      /\ UNCHANGED <<now, alive, externals, sent, processing_requests, outcomes, peers,
                     expiring_peers>>
  BY DEF RegistrationExpires, NoRegistrationExpires, requestVars, tableVars
<1>2. TaskInv' /\ RequestsInv'
  BY <1>1 DEF ClientInv, TaskInv, RequestsInv
<1>3. CASE UNCHANGED <<rendezvous_points, expiring_registrations>>
  BY <1>1, <1>2, <1>3 DEF ClientInv, TablesInv, TimersInv, Spent, FiredAreDue, EntriesHaveTimers
<1>4. ASSUME NEW t \in expiring_registrations,
             expiring_registrations' = expiring_registrations \ {t},
             NEW S \in SUBSET DOMAIN rendezvous_points, DOMAIN rendezvous_points' = S,
             \A s \in S : /\ rendezvous_points'[s] = rendezvous_points[s]
                          /\ ~(t.who = s /\ t.uuid = rendezvous_points[s].uuid)
      PROVE  ClientInv'
  <2>1. IsFiniteSet(DOMAIN rendezvous_points')
    BY <1>4, FS_Subset DEF ClientInv, TablesInv
  <2>2. TablesInv' /\ TimersInv'
    BY <1>1, <1>4, <2>1 DEF ClientInv, TablesInv, TimersInv, Spent, FiredAreDue
  <2>3. \A s \in DOMAIN rendezvous_points' :
          Dues(expiring_registrations', s, rendezvous_points'[s].uuid) =
          Dues(expiring_registrations, s, rendezvous_points[s].uuid)
    BY <1>4, OthersKeepDues
  <2>4. \A s \in DOMAIN rendezvous_points' :
          Dues(expiring_registrations', s, rendezvous_points'[s].uuid) =
          {rendezvous_points'[s].until - RegistrationBuffer}
    BY <1>4, <2>3, EntriesAreDue DEF ClientInv
  <2>5. EntriesHaveTimers'
    BY <1>1, <2>4 DEF ClientInv, EntriesHaveTimers, Dues
  <2> QED BY <1>2, <2>2, <2>5 DEF ClientInv
<1>5. CASE RegistrationExpires
  <2>1. PICK t \in expiring_registrations :
          /\ Yields(expiring_registrations, t)
          /\ Current(rendezvous_points, t)
          /\ rendezvous_points' = Restrict(rendezvous_points, DOMAIN rendezvous_points \ {t.who})
    BY <1>5 DEF RegistrationExpires
  <2> QED BY <1>4, <2>1, RestrictProperties DEF Yields
<1>6. CASE NoRegistrationExpires /\ \E t \in expiring_registrations :
             Yields(expiring_registrations, t) /\ ~Current(rendezvous_points, t)
  <2>1. PICK t \in expiring_registrations :
          Yields(expiring_registrations, t) /\ ~Current(rendezvous_points, t)
    BY <1>6
  <2>2. rendezvous_points' = rendezvous_points
    BY <1>6 DEF NoRegistrationExpires, tableVars
  <2> QED BY <1>4, <2>1, <2>2 DEF Yields, Current
<1> QED BY <1>3, <1>5, <1>6 DEF NoRegistrationExpires, NothingYields, tableVars

-----------------------------------------------------------------------------
(***************************************************************************)
(* The outcomes of requests.                                               *)
(***************************************************************************)

\* Handling an outcome forgets its request, whose Uuids are free to be drawn.
LEMMA HandleKeeps ==
  ASSUME ClientInv, NEW type, Handle(type)
  PROVE  /\ TaskInv' /\ RequestsInv'
         /\ Handled \in Outcome /\ Handled.response.type = type
         /\ Handled.id \in DOMAIN processing_requests
         /\ Target \in Servers
         /\ \A id : Spent(id) => Spent(id)' /\ id # Handled.id
         /\ \A id : id = Handled.id => Spent(id)'
<1>1. /\ outcomes # << >> /\ outcomes \in Seq(Outcome) /\ Handled = outcomes[1]
      /\ outcomes' = Tail(outcomes) /\ 1 \in DOMAIN outcomes
  BY DEF Handle, Handled, ClientInv, RequestsInv
<1>2. Handled \in Outcome
  BY <1>1
<1>3. Handled.id \in DOMAIN processing_requests /\ Handled.id \in 1..sent
  BY <1>1 DEF ClientInv, RequestsInv
<1>4. Target \in Servers
  BY <1>3 DEF Target, ClientInv, RequestsInv
<1>5. UNCHANGED <<now, alive, turn, externals, sent>>
  BY DEF Handle
<1> DEFINE handled == Handled.id
<1> HIDE DEF handled
<1>6. /\ DOMAIN processing_requests' = DOMAIN processing_requests \ {handled}
      /\ \A id \in DOMAIN processing_requests' : processing_requests'[id] = processing_requests[id]
  BY RestrictProperties DEF Handle, handled
<1>7. outcomes' \in Seq(Outcome)
  BY <1>1
<1>8. \A i \in DOMAIN outcomes' : i + 1 \in DOMAIN outcomes /\ outcomes'[i] = outcomes[i + 1]
                                  /\ i \in Nat /\ i # 0
  BY <1>1
<1>9. \A i \in DOMAIN outcomes' : outcomes'[i].id \in DOMAIN processing_requests'
  BY <1>1, <1>6, <1>8 DEF ClientInv, RequestsInv, handled
<1>10. \A i, j \in DOMAIN outcomes' : outcomes'[i].id = outcomes'[j].id => i = j
  <2> SUFFICES ASSUME NEW i \in DOMAIN outcomes', NEW j \in DOMAIN outcomes',
                      outcomes'[i].id = outcomes'[j].id
               PROVE  i = j
    OBVIOUS
  <2>1. i + 1 = j + 1
    BY <1>8 DEF ClientInv, RequestsInv
  <2> QED BY <1>8, <2>1
<1>11. RequestsInv' /\ TaskInv'
  BY <1>5, <1>6, <1>7, <1>9, <1>10 DEF ClientInv, RequestsInv, TaskInv
<1>12. \A id : Spent(id) => Spent(id)' /\ id # handled
  BY <1>3, <1>5, <1>6 DEF Spent, handled
<1>13. \A id : id = handled => Spent(id)'
  BY <1>3, <1>5, <1>6 DEF Spent, handled
<1>14. Handled.response.type = type
  BY DEF Handle
<1> QED BY <1>2, <1>3, <1>4, <1>11, <1>12, <1>13, <1>14 DEF handled

\* The content of the responses.
LEMMA ResponseContent ==
  ASSUME NEW r \in Response
  PROVE  /\ r.type = "Register" => r.expires \in Nat
         /\ r.type = "Discover" => r.peers \in Found
         /\ r.type = "Find" => r.found \in Found
BY DEF Response, Failure, DeregisterOk, Failed, RegisterOk, DiscoverOk, FindOk, GroupsOk

LEMMA RegisterOkStep ==
  ASSUME ClientInv, HandleRegisterOk
  PROVE  ClientInv'
<1>1. Handle("Register")
  BY DEF HandleRegisterOk
<1> DEFINE id == Handled.id
           until == Handled.response.expires
           s == Target
           new == NewTimer(s, id, until - RegistrationBuffer)
           entry == [x \in {s} |-> [until |-> until, uuid |-> id]]
<1>2. /\ TaskInv' /\ RequestsInv' /\ s \in Servers
      /\ \A x : Spent(x) => Spent(x)' /\ x # id
      /\ \A x : x = id => Spent(x)'
  BY <1>1, HandleKeeps
<1>3. until \in Nat /\ id \in Nat
  BY <1>1, HandleKeeps, ResponseContent DEF Outcome
<1>4. /\ rendezvous_points' = Inserted(entry, rendezvous_points)
      /\ expiring_registrations' = expiring_registrations \cup {new}
      /\ UNCHANGED <<now, peers, expiring_peers>>
  BY DEF HandleRegisterOk, Handle
<1> HIDE DEF id, until, s
<1>5. new \in Timer(Servers, Nat) /\ new.who = s /\ new.uuid = id
      /\ new.due = until - RegistrationBuffer /\ new.state # "fired"
  BY <1>2, <1>3, ClientAssumption DEF NewTimer, Timer
<1> HIDE DEF new
<1>6. /\ DOMAIN rendezvous_points' = {s} \cup DOMAIN rendezvous_points
      /\ rendezvous_points'[s] = [until |-> until, uuid |-> id]
      /\ \A x \in DOMAIN rendezvous_points \ {s} : rendezvous_points'[x] = rendezvous_points[x]
  <2> DEFINE all == Inserted(entry, rendezvous_points)
  <2>1. DOMAIN entry = {s} /\ entry[s] = [until |-> until, uuid |-> id]
    OBVIOUS
  <2> HIDE DEF entry
  <2>2. DOMAIN all = DOMAIN entry \cup DOMAIN rendezvous_points
    BY InsertedProperties
  <2>3. \A x \in DOMAIN entry : all[x] = entry[x]
    BY InsertedProperties
  <2>4. \A x \in DOMAIN rendezvous_points \ DOMAIN entry : all[x] = rendezvous_points[x]
    BY InsertedProperties
  <2>5. rendezvous_points' = all
    BY <1>4 DEF entry
  <2> HIDE DEF all
  <2> QED BY <2>1, <2>2, <2>3, <2>4, <2>5
<1>7. TablesInv'
  <2>1. IsFiniteSet(DOMAIN rendezvous_points')
    <3>1. IsFiniteSet(DOMAIN rendezvous_points \cup {s})
      BY FS_AddElement DEF ClientInv, TablesInv
    <3>2. DOMAIN rendezvous_points' = DOMAIN rendezvous_points \cup {s}
      BY <1>6
    <3> QED BY <3>1, <3>2
  <2>2. \A x \in DOMAIN rendezvous_points' : x \in Servers /\ rendezvous_points'[x].until \in Nat
    BY <1>2, <1>3, <1>6 DEF ClientInv, TablesInv
  <2> QED BY <1>4, <2>1, <2>2 DEF ClientInv, TablesInv
<1>8. TimersInv'
  <2>1. \A t \in expiring_registrations' : Spent(t.uuid)'
    BY <1>2, <1>4, <1>5 DEF ClientInv, TimersInv
  <2>2. \A t \in expiring_peers' : Spent(t.uuid[1])'
    BY <1>2, <1>4 DEF ClientInv, TimersInv
  <2>3. FiredAreDue(expiring_peers)' /\ FiredAreDue(expiring_registrations)'
    BY <1>4, <1>5 DEF ClientInv, TimersInv, FiredAreDue
  <2>4. /\ expiring_peers' \subseteq Timer(Peers, Nat \X LocatorKeys)
        /\ expiring_registrations' \subseteq Timer(Servers, Nat)
    BY <1>4, <1>5 DEF ClientInv, TimersInv
  <2> QED BY <2>1, <2>2, <2>3, <2>4 DEF TimersInv
<1>9. ASSUME NEW x \in DOMAIN rendezvous_points'
      PROVE  Dues(expiring_registrations', x, rendezvous_points'[x].uuid) =
             {rendezvous_points'[x].until - RegistrationBuffer}
  <2>1. CASE x = s
    <3>1. \A t \in expiring_registrations : t.uuid # id
      BY <1>2 DEF ClientInv, TimersInv
    <3>2. {t \in expiring_registrations' : t.who = s /\ t.uuid = id} = {new}
      BY <1>4, <1>5, <3>1
    <3>3. Dues(expiring_registrations', s, id) = {new.due}
      BY <3>2 DEF Dues
    <3> QED BY <1>5, <1>6, <2>1, <3>3
  <2>2. CASE x # s
    <3>1. x \in DOMAIN rendezvous_points /\ rendezvous_points'[x] = rendezvous_points[x]
      BY <1>6, <2>2
    <3>2. Dues(expiring_registrations', x, rendezvous_points[x].uuid) =
          Dues(expiring_registrations, x, rendezvous_points[x].uuid)
      BY <1>4, <1>5, <2>2 DEF Dues
    <3> QED BY <3>1, <3>2, EntriesAreDue DEF ClientInv
  <2> QED BY <2>1, <2>2
<1>10. EntriesHaveTimers'
  BY <1>4, <1>9 DEF ClientInv, EntriesHaveTimers, Dues
<1> QED BY <1>2, <1>7, <1>8, <1>10 DEF ClientInv

\* Each peer of a response is filed with one of its registrations, and the
\* timer of that registration is the only one with its Uuid.
LEMMA InsertPeersStep ==
  ASSUME ClientInv, NEW type, Handle(type), NEW R \in Found, InsertPeers(R)
  PROVE  ClientInv'
<1> DEFINE id == Handled.id
           found == {r.identity.peer : r \in R}
           new == {PeerTimer(r.identity.peer, r) : r \in R}
<1>1. /\ TaskInv' /\ RequestsInv' /\ Target \in Servers /\ id \in Nat
      /\ \A x : Spent(x) => Spent(x)' /\ x # id
      /\ \A x : x = id => Spent(x)'
  BY HandleKeeps DEF Outcome
<1>2. PICK last \in [found -> R] :
        /\ \A p \in found : last[p].identity.peer = p
        /\ peers' = Inserted([p \in found |-> [via |-> Target, registration |-> last[p],
                                               uuid |-> Uuid(last[p])]], peers)
  BY DEF InsertPeers, PutPeers
<1> DEFINE entries == [p \in found |-> [via |-> Target, registration |-> last[p],
                                        uuid |-> Uuid(last[p])]]
<1>3. /\ expiring_peers' = expiring_peers \cup new
      /\ UNCHANGED <<now, rendezvous_points, expiring_registrations>>
  BY DEF InsertPeers, Handle
<1>4. /\ DOMAIN entries = found
      /\ \A p \in found : /\ entries[p].via = Target
                           /\ entries[p].registration = last[p]
                           /\ entries[p].uuid = Uuid(last[p])
  OBVIOUS
<1>5. \A r \in R : r \in Registration /\ r.identity \in NodeIdentifier
                   /\ r.identity.peer \in Peers /\ Expiration(r) \in Int
  <2> TAKE r \in R
  <2>1. r \in Registration
    BY DEF Found
  <2>2. /\ r.identity \in NodeIdentifier /\ r.lastRegistration \in Nat /\ r.ttl \in Nat
    BY <2>1, LifetimesAssumption DEF Registration
  <2> QED BY <2>1, <2>2 DEF NodeIdentifier, Expiration
<1>6. \A p \in found : p \in Peers /\ last[p] \in R
  BY <1>5
<1>7. \A r \in R : LET t == PeerTimer(r.identity.peer, r)
                   IN  /\ t.who = r.identity.peer /\ t.uuid = <<id, KeyOf(r.identity)>>
                       /\ t.due = Expiration(r) /\ t.state = "new"
                       /\ t \in Timer(Peers, Nat \X LocatorKeys)
  <2> TAKE r \in R
  <2>1. PeerTimer(r.identity.peer, r) =
          [who |-> r.identity.peer, uuid |-> <<id, KeyOf(r.identity)>>,
           due |-> Expiration(r), state |-> "new"]
    BY DEF PeerTimer, NewTimer, Uuid
  <2>2. <<id, KeyOf(r.identity)>> \in Nat \X LocatorKeys
    BY <1>1, <1>5 DEF LocatorKeys
  <2> QED BY <1>5, <2>1, <2>2 DEF Timer
<1>8. \A t \in new : /\ t \in Timer(Peers, Nat \X LocatorKeys)
                     /\ t.who \in found /\ t.uuid[1] = id /\ t.state # "fired"
  <2> TAKE t \in new
  <2>1. PICK r \in R : t = PeerTimer(r.identity.peer, r)
    OBVIOUS
  <2>2. /\ t \in Timer(Peers, Nat \X LocatorKeys)
        /\ t.who = r.identity.peer /\ t.uuid = <<id, KeyOf(r.identity)>> /\ t.state = "new"
    BY <1>7, <2>1
  <2> HIDE DEF new, id
  <2> QED BY <2>2
<1> HIDE DEF id, entries
<1>9. /\ DOMAIN peers' = found \cup DOMAIN peers
      /\ \A p \in found : peers'[p] = entries[p]
      /\ \A p \in DOMAIN peers \ found : peers'[p] = peers[p]
  <2> DEFINE all == Inserted(entries, peers)
  <2>1. DOMAIN all = DOMAIN entries \cup DOMAIN peers
    BY InsertedProperties
  <2>2. \A p \in DOMAIN entries : all[p] = entries[p]
    BY InsertedProperties
  <2>3. \A p \in DOMAIN peers \ DOMAIN entries : all[p] = peers[p]
    BY InsertedProperties
  <2>4. peers' = all
    BY <1>2 DEF entries
  <2> HIDE DEF all
  <2> QED BY <1>4, <2>1, <2>2, <2>3, <2>4
<1>10. TablesInv'
  <2>1. ASSUME NEW p \in DOMAIN peers'
        PROVE  /\ p \in Peers /\ peers'[p].via \in Servers
               /\ peers'[p].registration \in Registration
               /\ peers'[p].registration.identity.peer = p
    <3>1. CASE p \in found
      BY <1>1, <1>2, <1>4, <1>5, <1>6, <1>9, <3>1
    <3>2. CASE p \notin found
      BY <1>9, <3>2 DEF ClientInv, TablesInv
    <3> QED BY <3>1, <3>2
  <2> QED BY <1>3, <2>1 DEF ClientInv, TablesInv
<1>11. TimersInv'
  <2>1. \A t \in expiring_peers' : Spent(t.uuid[1])'
    BY <1>1, <1>3, <1>8 DEF ClientInv, TimersInv
  <2>2. \A t \in expiring_registrations' : Spent(t.uuid)'
    BY <1>1, <1>3 DEF ClientInv, TimersInv
  <2>3. FiredAreDue(expiring_peers)' /\ FiredAreDue(expiring_registrations)'
    BY <1>3, <1>8 DEF ClientInv, TimersInv, FiredAreDue
  <2>4. /\ expiring_peers' \subseteq Timer(Peers, Nat \X LocatorKeys)
        /\ expiring_registrations' \subseteq Timer(Servers, Nat)
    BY <1>3, <1>8 DEF ClientInv, TimersInv
  <2> QED BY <2>1, <2>2, <2>3, <2>4 DEF TimersInv
<1>12. ASSUME NEW p \in DOMAIN peers'
       PROVE  Dues(expiring_peers', p, peers'[p].uuid) = {Expiration(peers'[p].registration)}
  <2>1. CASE p \in found
    <3> DEFINE q == last[p]
               t == PeerTimer(p, q)
               uuid == <<id, KeyOf(q.identity)>>
    <3>1. q \in R /\ q.identity.peer = p
      BY <1>2, <1>6, <2>1
    <3>2. peers'[p].registration = q /\ peers'[p].uuid = uuid
      BY <1>4, <1>9, <2>1 DEF Uuid, id
    <3>3. \A x \in expiring_peers : x.uuid # uuid
      BY <1>1 DEF ClientInv, TimersInv
    <3>4. \A r \in R : r # q => KeyOf(r.identity) # KeyOf(q.identity)
      BY <3>1 DEF Found
    <3>5. \A x \in new : x.uuid = uuid => x = t
      <4> SUFFICES ASSUME NEW r \in R, PeerTimer(r.identity.peer, r).uuid = uuid
                   PROVE  PeerTimer(r.identity.peer, r) = t
        OBVIOUS
      <4>1. <<id, KeyOf(r.identity)>> = uuid
        BY <1>7
      <4>2. r = q
        BY <3>4, <4>1
      <4> QED BY <3>1, <4>2
    <3>6. t \in new /\ t.who = p /\ t.uuid = uuid /\ t.due = Expiration(q)
      BY <1>7, <3>1
    <3> HIDE DEF t, uuid, new
    <3>7. {x \in expiring_peers' : x.who = p /\ x.uuid = uuid} = {t}
      BY <1>3, <3>3, <3>5, <3>6
    <3>8. Dues(expiring_peers', p, uuid) = {t.due}
      BY <3>7 DEF Dues
    <3> QED BY <3>2, <3>6, <3>8
  <2>2. CASE p \notin found
    <3>1. p \in DOMAIN peers /\ peers'[p] = peers[p]
      BY <1>9, <2>2
    <3>2. \A x \in new : x.who # p
      BY <1>8, <2>2
    <3> HIDE DEF new
    <3>3. Dues(expiring_peers', p, peers[p].uuid) = Dues(expiring_peers, p, peers[p].uuid)
      BY <1>3, <3>2 DEF Dues
    <3> QED BY <3>1, <3>3, EntriesAreDue DEF ClientInv
  <2> QED BY <2>1, <2>2
<1>13. EntriesHaveTimers'
  BY <1>3, <1>12 DEF ClientInv, EntriesHaveTimers, Dues
<1> QED BY <1>1, <1>10, <1>11, <1>13 DEF ClientInv

\* An outcome that leaves the timers, and of the points forgets at most some.
LEMMA ForgetsStep ==
  ASSUME ClientInv, NEW type, Handle(type), UNCHANGED <<peers, timerVars>>,
         DOMAIN rendezvous_points' \subseteq DOMAIN rendezvous_points,
         \A s \in DOMAIN rendezvous_points' : rendezvous_points'[s] = rendezvous_points[s]
  PROVE  ClientInv'
<1>1. /\ TaskInv' /\ RequestsInv' /\ \A x : Spent(x) => Spent(x)'
      /\ now' = now
  BY HandleKeeps DEF Handle
<1>2. TablesInv'
  <2>1. IsFiniteSet(DOMAIN rendezvous_points')
    BY FS_Subset DEF ClientInv, TablesInv
  <2> QED BY <2>1 DEF ClientInv, TablesInv
<1>3. TimersInv' /\ EntriesHaveTimers'
  BY <1>1 DEF ClientInv, TimersInv, FiredAreDue, timerVars, EntriesHaveTimers
<1> QED BY <1>1, <1>2, <1>3 DEF ClientInv

LEMMA HandleOutcomeStep ==
  ASSUME ClientInv, HandleOutcome
  PROVE  ClientInv'
<1>1. CASE HandleRegisterOk
  BY <1>1, RegisterOkStep
<1>2. CASE HandleDeregisterOk
  <2>1. /\ DOMAIN rendezvous_points' \subseteq DOMAIN rendezvous_points
        /\ \A s \in DOMAIN rendezvous_points' : rendezvous_points'[s] = rendezvous_points[s]
    BY <1>2, RestrictProperties DEF HandleDeregisterOk
  <2> QED BY <1>2, <2>1, ForgetsStep DEF HandleDeregisterOk
<1>3. CASE HandleDiscoverOk
  <2>1. Handled.response.peers \in Found
    BY <1>3, HandleKeeps, ResponseContent DEF HandleDiscoverOk, Outcome
  <2> QED BY <1>3, <2>1, InsertPeersStep DEF HandleDiscoverOk
<1>4. CASE HandleFindOk
  <2>1. Handled.response.found \in Found
    BY <1>4, HandleKeeps, ResponseContent DEF HandleFindOk, Outcome
  <2> QED BY <1>4, <2>1, InsertPeersStep DEF HandleFindOk
<1>5. CASE HandleGroupsOk \/ HandleFailure
  BY <1>5, ForgetsStep DEF HandleGroupsOk, HandleFailure, tableVars
<1> QED BY <1>1, <1>2, <1>3, <1>4, <1>5 DEF HandleOutcome

LEMMA ClientStep ==
  ASSUME ClientInv, [ClientNext]_clientVars
  PROVE  ClientInv'
<1>1. CASE UNCHANGED clientVars \/ NoOutcome
  <2>1. /\ turn' \in {turn, "peers"}
        /\ UNCHANGED <<now, alive, externals, sent, processing_requests, outcomes, peers,
                       rendezvous_points, expiring_peers, expiring_registrations>>
    BY <1>1 DEF clientVars, NoOutcome, requestVars, tableVars, timerVars
  <2>2. TaskInv' /\ RequestsInv'
    BY <2>1 DEF ClientInv, TaskInv, RequestsInv
  <2>3. TablesInv' /\ TimersInv' /\ EntriesHaveTimers'
    BY <2>1 DEF ClientInv, TablesInv, TimersInv, Spent, FiredAreDue, EntriesHaveTimers
  <2> QED BY <2>2, <2>3 DEF ClientInv
<1> QED BY <1>1, ClientTickStep, ClientCallsStep, DeliverStep, TimersFireStep, HandleOutcomeStep,
           ArmTimerStep, PeersPollStep, PointsPollStep DEF ClientNext, ClientPoll

\* The inductive invariant.
THEOREM ClientInvariant == ClientSpec => []ClientInv
BY ClientInvInit, ClientStep, PTL DEF ClientSpec

\* Types: in particular the timers of peers name peers, and those of points
\* name rendezvous nodes, and each outcome finds the request it belongs to.
THEOREM ClientTypeCorrect == ClientSpec => []ClientTypeOK
<1>1. ClientInv => ClientTypeOK
  BY DEF ClientInv, TaskInv, RequestsInv, TablesInv, TimersInv, Timer, ClientTypeOK, TimerTypeOK
<1> QED BY <1>1, ClientInvariant, PTL

\* Each entry of the two tables has one timer waiting for it, set to the time
\* its content gives (client.rs 247-271, 409-450): however often the entry was
\* renewed and whatever timers earlier entries left.
THEOREM EntriesAreTimed == ClientSpec => []EntriesHaveTimers
<1>1. ClientInv => EntriesHaveTimers
  BY DEF ClientInv
<1> QED BY <1>1, ClientInvariant, PTL

-----------------------------------------------------------------------------
(***************************************************************************)
(* The two tables implement leases.                                        *)
(***************************************************************************)

PeerDeadline == [p \in DOMAIN peers |-> Expiration(peers[p].registration)]
PeerLapsed == IF Announces("PeerExpired") THEN {news.registration.identity.peer} ELSE {}

\* A timer that fired and is current is that of its entry: the entry's own time
\* is over.
LEMMA PeerLapses ==
  ASSUME ClientInv, PeerExpires
  PROVE  PeerLeases!LeaseNext
<1>1. PICK t \in expiring_peers :
        /\ Yields(expiring_peers, t)
        /\ Current(peers, t)
        /\ peers' = Restrict(peers, DOMAIN peers \ {t.who})
        /\ news' = [type |-> "PeerExpired", rendezvous_node |-> peers[t.who].via,
                    registration |-> peers[t.who].registration]
  BY DEF PeerExpires
<1> DEFINE p == t.who
<1>2. p \in DOMAIN peers /\ p \in Peers /\ peers[p].registration.identity.peer = p
  BY <1>1 DEF Current, ClientInv, TablesInv
<1>3. t.due <= now
  BY <1>1 DEF Yields, ClientInv, TimersInv, FiredAreDue
<1>4. Expiration(peers[p].registration) = t.due
  <2>1. t.due \in Dues(expiring_peers, p, peers[p].uuid)
    BY <1>1 DEF Current, Dues
  <2> QED BY <1>2, <2>1, EntriesAreDue DEF ClientInv
<1>5. PeerDeadline' = [q \in DOMAIN PeerDeadline \ {p} |-> PeerDeadline[q]]
  BY <1>1 DEF PeerDeadline, Restrict, Expiration
<1>6. PeerLapsed' = {p} /\ now' = now
  BY <1>1, <1>2 DEF PeerLapsed, Announces, PeerExpires
<1>7. p \in DOMAIN PeerDeadline /\ PeerDeadline[p] <= now
  BY <1>2, <1>3, <1>4 DEF PeerDeadline
<1> QED BY <1>2, <1>5, <1>6, <1>7
        DEF PeerDeadline, PeerLapsed, PeerLeases!LeaseNext, PeerLeases!Lapse, PeerLeases!End

\* Inserting the peers of a response grants or renews their leases.
LEMMA PeersGranted ==
  ASSUME ClientInv, NEW type, Handle(type), NEW R \in Found, InsertPeers(R),
         news'.type # "PeerExpired"
  PROVE  PeerLeases!LeaseNext
<1> DEFINE found == {r.identity.peer : r \in R}
<1>1. found \subseteq Peers
  BY DEF Found, Registration, NodeIdentifier
<1>2. PICK last \in [found -> R] :
        peers' = Inserted([p \in found |-> [via |-> Target, registration |-> last[p],
                                           uuid |-> Uuid(last[p])]], peers)
  BY DEF InsertPeers, PutPeers
<1> HIDE DEF found
<1>3. DOMAIN peers' = found \cup DOMAIN peers /\ \A p \in DOMAIN peers \ found : peers'[p] = peers[p]
  BY <1>2 DEF Inserted
<1>4. DOMAIN PeerDeadline' = DOMAIN PeerDeadline \cup found
  BY <1>3 DEF PeerDeadline
<1>5. \A p \in DOMAIN PeerDeadline \ found : PeerDeadline'[p] = PeerDeadline[p]
  BY <1>3 DEF PeerDeadline, Expiration
<1>6. PeerLapsed' = {} /\ now' = now
  BY DEF PeerLapsed, Announces, Handle
<1> QED BY <1>1, <1>4, <1>5, <1>6
        DEF PeerDeadline, PeerLapsed, PeerLeases!LeaseNext, PeerLeases!Grant

LEMMA PeersStep ==
  ASSUME ClientInv, [ClientNext]_clientVars
  PROVE  [PeerLeases!LeaseNext]_<<PeerDeadline, PeerLapsed, now>>
<1> DEFINE Goal == [PeerLeases!LeaseNext]_<<PeerDeadline, PeerLapsed, now>>
<1>1. ASSUME UNCHANGED <<peers, news, now>>
      PROVE  Goal
  BY <1>1 DEF PeerDeadline, PeerLapsed, Announces, Expiration
<1>2. ASSUME UNCHANGED <<peers, now>>, news'.type # "PeerExpired"
      PROVE  Goal
  <2>1. PeerDeadline' = PeerDeadline /\ PeerLapsed' = {}
    BY <1>2 DEF PeerDeadline, PeerLapsed, Announces, Expiration
  <2> QED BY <1>2, <2>1 DEF PeerDeadline, PeerLapsed, PeerLeases!LeaseNext, PeerLeases!OtherNews
<1>3. CASE ClientTick
  <2>1. UNCHANGED <<peers, news>> /\ Tick
    BY <1>3 DEF ClientTick, tableVars
  <2>2. UNCHANGED <<PeerDeadline, PeerLapsed>>
    BY <2>1 DEF PeerDeadline, PeerLapsed, Announces, Expiration
  <2> QED BY <2>1, <2>2 DEF PeerDeadline, PeerLapsed, PeerLeases!LeaseNext, PeerLeases!Tick, Tick
<1>4. CASE ClientCalls
  BY <1>1, <1>4 DEF ClientCalls, RegisterAt, DeregisterAt, Query, AddressesChange, tableVars
<1>5. CASE OutcomesArrive \/ TimersFire
  BY <1>1, <1>5 DEF OutcomesArrive, Deliver, TimersFire, TimerFires, tableVars
<1>6. CASE HandleRegisterOk \/ HandleDeregisterOk \/ HandleGroupsOk \/ HandleFailure
  BY <1>2, <1>6 DEF HandleRegisterOk, HandleDeregisterOk, HandleGroupsOk, HandleFailure, Handle,
                    Reports, tableVars
<1>7. CASE HandleDiscoverOk
  <2>1. Handled.response.peers \in Found
    BY <1>7, HandleKeeps, ResponseContent DEF HandleDiscoverOk, Outcome
  <2> QED BY <1>7, <2>1, PeersGranted DEF HandleDiscoverOk, Reports
<1>8. CASE HandleFindOk
  <2>1. Handled.response.found \in Found
    BY <1>8, HandleKeeps, ResponseContent DEF HandleFindOk, Outcome
  <2> QED BY <1>8, <2>1, PeersGranted DEF HandleFindOk, Reports
<1>9. CASE RegistrationExpires
  BY <1>2, <1>9 DEF RegistrationExpires
<1>10. CASE PeerExpires
  BY <1>10, PeerLapses
<1>11. CASE NoOutcome \/ ArmPeerTimer \/ NoPeerExpires \/ ArmRegistrationTimer
            \/ NoRegistrationExpires \/ UNCHANGED clientVars
  BY <1>1, <1>11 DEF NoOutcome, ArmPeerTimer, NoPeerExpires, ArmRegistrationTimer,
                     NoRegistrationExpires, clientVars, tableVars
<1> HIDE DEF Goal
<1>12. Goal
  BY <1>3, <1>4, <1>5, <1>6, <1>7, <1>8, <1>9, <1>10, <1>11
     DEF ClientNext, ClientPoll, HandleOutcome, Goal
<1> QED BY <1>12 DEF Goal

\* PeerExpired is announced of a peer only when the registration it was last
\* found with is over (client.rs 247-260, 426-450), for every set of servers.
THEOREM PeersLease == ClientSpec => PeersAreLeases
<1>1. ClientInit => PeerLeases!LeaseInit
  BY DEF ClientInit, PeerLeases!LeaseInit, Announces, NoNews
<1>2. ClientInv /\ [ClientNext]_clientVars
        => [PeerLeases!LeaseNext]_<<PeerDeadline, PeerLapsed, now>>
  BY PeersStep
<1> QED BY <1>1, <1>2, ClientInvariant, PTL
        DEF ClientSpec, PeersAreLeases, PeerLeases!LeaseSpec, PeerDeadline, PeerLapsed

PointDeadline == [s \in DOMAIN rendezvous_points |->
                    rendezvous_points[s].until - RegistrationBuffer]
PointLapsed == IF Announces("RegistrationExpired") THEN {news.rendezvous_node} ELSE {}

LEMMA PointLapses ==
  ASSUME ClientInv, RegistrationExpires
  PROVE  PointLeases!LeaseNext
<1>1. PICK t \in expiring_registrations :
        /\ Yields(expiring_registrations, t)
        /\ Current(rendezvous_points, t)
        /\ rendezvous_points' = Restrict(rendezvous_points, DOMAIN rendezvous_points \ {t.who})
        /\ news' = [type |-> "RegistrationExpired", rendezvous_node |-> t.who]
  BY DEF RegistrationExpires
<1> DEFINE s == t.who
<1>2. s \in DOMAIN rendezvous_points /\ s \in Servers
  BY <1>1 DEF Current, ClientInv, TablesInv
<1>3. t.due <= now
  BY <1>1 DEF Yields, ClientInv, TimersInv, FiredAreDue
<1>4. rendezvous_points[s].until - RegistrationBuffer = t.due
  <2>1. t.due \in Dues(expiring_registrations, s, rendezvous_points[s].uuid)
    BY <1>1 DEF Current, Dues
  <2> QED BY <1>2, <2>1, EntriesAreDue DEF ClientInv
<1>5. PointDeadline' = [x \in DOMAIN PointDeadline \ {s} |-> PointDeadline[x]]
  BY <1>1 DEF PointDeadline, Restrict
<1>6. PointLapsed' = {s} /\ now' = now
  BY <1>1 DEF PointLapsed, Announces, RegistrationExpires
<1>7. s \in DOMAIN PointDeadline /\ PointDeadline[s] <= now
  BY <1>2, <1>3, <1>4 DEF PointDeadline
<1> QED BY <1>2, <1>5, <1>6, <1>7
        DEF PointDeadline, PointLapsed, PointLeases!LeaseNext, PointLeases!Lapse, PointLeases!End

LEMMA PointGranted ==
  ASSUME ClientInv, HandleRegisterOk
  PROVE  PointLeases!LeaseNext
<1>1. Target \in Servers /\ now' = now
  BY HandleKeeps DEF HandleRegisterOk, Handle
<1> DEFINE s == Target
<1>2. PICK entry : rendezvous_points' = Inserted([x \in {s} |-> entry], rendezvous_points)
  BY DEF HandleRegisterOk
<1> HIDE DEF s
<1>3. /\ DOMAIN rendezvous_points' = {s} \cup DOMAIN rendezvous_points
      /\ \A x \in DOMAIN rendezvous_points \ {s} : rendezvous_points'[x] = rendezvous_points[x]
  BY <1>2 DEF Inserted
<1>4. DOMAIN PointDeadline' = DOMAIN PointDeadline \cup {s}
  BY <1>3 DEF PointDeadline
<1>5. \A x \in DOMAIN PointDeadline \ {s} : PointDeadline'[x] = PointDeadline[x]
  BY <1>3 DEF PointDeadline
<1>6. PointLapsed' = {}
  BY DEF PointLapsed, Announces, HandleRegisterOk, Reports
<1>7. {s} \in SUBSET Servers
  BY <1>1 DEF s
<1> QED BY <1>1, <1>4, <1>5, <1>6, <1>7
        DEF PointDeadline, PointLapsed, PointLeases!LeaseNext, PointLeases!Grant

\* Deregistering, and a Deregister response, give a lease back.
LEMMA PointRevoked ==
  ASSUME NEW s \in Servers, UNCHANGED now,
         rendezvous_points' = Restrict(rendezvous_points, DOMAIN rendezvous_points \ {s}),
         PointLapsed' \in {PointLapsed, {}}
  PROVE  PointLeases!LeaseNext
<1>1. PointDeadline' = [x \in DOMAIN PointDeadline \ {s} |-> PointDeadline[x]]
  BY DEF PointDeadline, Restrict
<1> QED BY <1>1 DEF PointDeadline, PointLapsed, PointLeases!LeaseNext, PointLeases!Revoke,
                    PointLeases!End

LEMMA PointsStep ==
  ASSUME ClientInv, [ClientNext]_clientVars
  PROVE  [PointLeases!LeaseNext]_<<PointDeadline, PointLapsed, now>>
<1> DEFINE Goal == [PointLeases!LeaseNext]_<<PointDeadline, PointLapsed, now>>
<1>1. ASSUME UNCHANGED <<rendezvous_points, news, now>>
      PROVE  Goal
  BY <1>1 DEF PointDeadline, PointLapsed, Announces
<1>2. ASSUME UNCHANGED <<rendezvous_points, now>>, news'.type # "RegistrationExpired"
      PROVE  Goal
  <2>1. PointDeadline' = PointDeadline /\ PointLapsed' = {}
    BY <1>2 DEF PointDeadline, PointLapsed, Announces
  <2> QED BY <1>2, <2>1 DEF PointDeadline, PointLapsed, PointLeases!LeaseNext,
                            PointLeases!OtherNews
<1>3. CASE ClientTick
  <2>1. UNCHANGED <<rendezvous_points, news>> /\ Tick
    BY <1>3 DEF ClientTick, tableVars
  <2>2. UNCHANGED <<PointDeadline, PointLapsed>>
    BY <2>1 DEF PointDeadline, PointLapsed, Announces
  <2> QED BY <2>1, <2>2 DEF PointDeadline, PointLapsed, PointLeases!LeaseNext, PointLeases!Tick,
                            Tick
<1>4. ASSUME NEW s \in Servers, DeregisterAt(s)
      PROVE  Goal
  <2>1. PointLapsed' = PointLapsed
    BY <1>4 DEF DeregisterAt, PointLapsed, Announces
  <2> QED BY <1>4, <2>1, PointRevoked DEF DeregisterAt
<1>5. CASE \/ \E s \in Servers : RegisterAt(s) \/ \E c \in Queries : Query(s, c)
           \/ \E a \in Addresses \cup {NoAddresses} : AddressesChange(a)
  BY <1>1, <1>5 DEF RegisterAt, Query, AddressesChange, tableVars
<1>6. CASE OutcomesArrive \/ TimersFire
  BY <1>1, <1>6 DEF OutcomesArrive, Deliver, TimersFire, TimerFires, tableVars
<1>7. CASE HandleRegisterOk
  BY <1>7, PointGranted
<1>8. CASE HandleDeregisterOk
  <2>1. Target \in Servers
    BY <1>8, HandleKeeps DEF HandleDeregisterOk
  <2>2. PointLapsed' = {}
    BY <1>8 DEF HandleDeregisterOk, Reports, PointLapsed, Announces
  <2> QED BY <1>8, <2>1, <2>2, PointRevoked DEF HandleDeregisterOk, Handle
<1>9. CASE HandleDiscoverOk \/ HandleFindOk \/ HandleGroupsOk \/ HandleFailure
  BY <1>2, <1>9 DEF HandleDiscoverOk, HandleFindOk, HandleGroupsOk, HandleFailure, InsertPeers,
                    Handle, Reports, tableVars
<1>10. CASE PeerExpires
  BY <1>2, <1>10 DEF PeerExpires
<1>11. CASE RegistrationExpires
  BY <1>11, PointLapses
<1>12. CASE NoOutcome \/ ArmPeerTimer \/ NoPeerExpires \/ ArmRegistrationTimer
            \/ NoRegistrationExpires \/ UNCHANGED clientVars
  BY <1>1, <1>12 DEF NoOutcome, ArmPeerTimer, NoPeerExpires, ArmRegistrationTimer,
                     NoRegistrationExpires, clientVars, tableVars
<1> HIDE DEF Goal
<1>13. CASE ClientCalls
  BY <1>4, <1>5, <1>13 DEF ClientCalls, Goal
<1>14. Goal
  BY <1>3, <1>6, <1>7, <1>8, <1>9, <1>10, <1>11, <1>12, <1>13
     DEF ClientNext, ClientPoll, HandleOutcome, Goal
<1> QED BY <1>14 DEF Goal

\* RegistrationExpired is announced of a rendezvous node only
\* REGISTRATION_BUFFER before the last registration there is over, and not when
\* it was renewed or withdrawn in time (client.rs 261-271, 409-424).
THEOREM PointsLease == ClientSpec => PointsAreLeases
<1>1. ClientInit => PointLeases!LeaseInit
  BY DEF ClientInit, PointLeases!LeaseInit, Announces, NoNews
<1>2. ClientInv /\ [ClientNext]_clientVars
        => [PointLeases!LeaseNext]_<<PointDeadline, PointLapsed, now>>
  BY PointsStep
<1> QED BY <1>1, <1>2, ClientInvariant, PTL
        DEF ClientSpec, PointsAreLeases, PointLeases!LeaseSpec, PointDeadline, PointLapsed

=============================================================================
