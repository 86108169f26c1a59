------------------------------ MODULE Message ------------------------------
(***************************************************************************)
(* The data of the rendezvous protocol: registrations (registrations.rs)   *)
(* and the requests and responses that carry them (message.rs).  The       *)
(* vectors in responses are modelled by sets: no reader depends on their   *)
(* order.                                                                  *)
(***************************************************************************)
EXTENDS Identification, Integers

CONSTANTS Addresses,  \* the address lists a node may register with
          Lifetimes   \* the values of Config::max_lifetime, in ticks

ASSUME LifetimesAssumption == Lifetimes \subseteq Nat

Key == {KeyOf(n) : n \in Nodes}

Registration == [identity : NodeIdentifier, addresses : Addresses,
                 lastRegistration : Nat, ttl : Lifetimes]

\* The identity of a node registering again under the key of the first one: of
\* what may differ, only the discoverability is taken over.
Merge(identity, node) == [identity EXCEPT !.discoverability = node.discoverability]

\* Registration::expiration()
Expiration(reg) == reg.lastRegistration + reg.ttl

-----------------------------------------------------------------------------

\* No group filter is NoGroup, the empty name.
Command ==
  [type : {"Register"}, addresses : Addresses] \cup
  [type : {"Deregister"}] \cup
  [type : {"Discover"}, group : Name \cup {NoGroup}] \cup
  [type : {"Find"}, key : Key] \cup
  [type : {"Groups"}]

RendezvousRequest(id, source, command) ==
  [id |-> id, source |-> source, command |-> command]

\* The Ok responses; a found registration is a set of one, none is {}.
RegisterOk(expires)   == [type |-> "Register", expires |-> expires]
DeregisterOk          == [type |-> "Deregister"]
DiscoverOk(peers)     == [type |-> "Discover", peers |-> peers]
FindOk(found)         == [type |-> "Find", found |-> found]
GroupsOk(groups)      == [type |-> "Groups", groups |-> groups]

\* The Err response to a command.
Failed(type) == [type |-> "Failed", of |-> type]

=============================================================================
