--------------------------- MODULE Registrations ---------------------------
(***************************************************************************)
(* The rendezvous server's persistent store (registrations.rs): two LMDB   *)
(* databases that every writing operation updates in one transaction.      *)
(*                                                                         *)
(*   rdb   "registrations": locator key -> Registration                    *)
(*   edb   "expirations": the entries "<seconds>:<key>" -> <key>, modelled *)
(*         by the set of pairs <<seconds, key>>.  They sort by their       *)
(*         seconds (timestamps all have ten digits until the year 2286).   *)
(*                                                                         *)
(* The write transaction holds LMDB's single writer lock and commits at    *)
(* the end, so an operation is one step; dropping it on an error path      *)
(* leaves both databases alone.                                            *)
(***************************************************************************)
EXTENDS Message, Clock, SequencesExt

VARIABLES rdb, edb

storeVars == <<rdb, edb, now>>

\* heed's Database::put and Database::delete; deleting an absent key is no error.
DbPut(db, k, v) == [x \in DOMAIN db \cup {k} |-> IF x = k THEN v ELSE db[x]]
DbDelete(db, k) == [x \in DOMAIN db \ {k} |-> db[x]]

\* The key of the expirations database, "<seconds of the registration>:<key>".
ExpirationKey(instant, k) == <<Timestamp(instant), k>>

StoreInit == /\ rdb = << >>
             /\ edb = {}
             /\ now = 0

-----------------------------------------------------------------------------
(***************************************************************************)
(* The operations that write.                                              *)
(***************************************************************************)

\* Mistakes to check the properties against: a refresh that leaves the instant
\* of the registration alone, or takes over nothing of the new identity.
KeepsInstant(node, addresses, ttl) ==
  [identity |-> node, addresses |-> addresses, ttl |-> ttl,
   lastRegistration |-> IF KeyOf(node) \in DOMAIN rdb
                        THEN rdb[KeyOf(node)].lastRegistration
                        ELSE now]

KeepsIdentity(node, addresses, ttl) ==
  [identity |-> IF KeyOf(node) \in DOMAIN rdb THEN rdb[KeyOf(node)].identity ELSE node,
   addresses |-> addresses, lastRegistration |-> now, ttl |-> ttl]

\* What register() stores: a known key keeps its identity and takes over the
\* new discoverability, an unknown one stores the identity as it came.
Registered(node, addresses, ttl) ==
  [identity |-> IF KeyOf(node) \in DOMAIN rdb
                THEN Merge(rdb[KeyOf(node)].identity, node)
                ELSE node,
   addresses |-> addresses,
   lastRegistration |-> now,
   ttl |-> ttl]

\* A mistake: a refresh that leaves the entry of the old registration.
ReplacesNothing(k) == {}

\* The index entry register() drops: that of the registration it replaces.
Replaced(k) == IF k \in DOMAIN rdb
               THEN {ExpirationKey(rdb[k].lastRegistration, k)}
               ELSE {}

\* Mistakes: the new index entry put before the old one is deleted, the entry
\* under the time of expiry, the registration under the group as it came.
RegisterPutsFirst(node, addresses, ttl) ==
  /\ edb' = (edb \cup {ExpirationKey(now, KeyOf(node))}) \ Replaced(KeyOf(node))
  /\ rdb' = DbPut(rdb, KeyOf(node), Registered(node, addresses, ttl))

RegisterByExpiry(node, addresses, ttl) ==
  /\ edb' = (edb \ Replaced(KeyOf(node))) \cup {ExpirationKey(now + ttl, KeyOf(node))}
  /\ rdb' = DbPut(rdb, KeyOf(node), Registered(node, addresses, ttl))

RegisterUnderGivenGroup(node, addresses, ttl) ==
  /\ edb' = (edb \ Replaced(KeyOf(node))) \cup {ExpirationKey(now, KeyOf(node))}
  /\ rdb' = DbPut(rdb, LocatorKey(node.namespace, node.group, node.peer),
                  Registered(node, addresses, ttl))

Register(node, addresses, ttl) ==
  LET created == Registered(node, addresses, ttl)
  IN  /\ edb' = (edb \ Replaced(KeyOf(node))) \cup {ExpirationKey(now, KeyOf(node))}
      /\ rdb' = DbPut(rdb, KeyOf(created.identity), created)

\* deregister() leaves the expirations database alone.
Deregister(node) == /\ rdb' = DbDelete(rdb, KeyOf(node))
                    /\ UNCHANGED edb

\* edb.first(); entries of the same second come in any order of their keys.
FirstEntries == {e \in edb : \A f \in edb : e[1] <= f[1]}

Overdue(e, lifetime) == FromTimestamp(e[1]) + lifetime < now

\* A mistake: an entry without a registration left in the index.
PollSkipsEntry(e, lifetime) ==
  /\ e \in FirstEntries
  /\ Overdue(e, lifetime)
  /\ e[2] \notin DOMAIN rdb
  /\ UNCHANGED <<rdb, edb>>

\* poll() finds the first entry overdue and a registration under its key: the
\* caller is told that it expired.  The entry goes; the delete in the
\* registrations database uses the key of the entry, not the locator key.
PollExpires(e, lifetime) ==
  /\ e \in FirstEntries
  /\ Overdue(e, lifetime)
  /\ e[2] \in DOMAIN rdb
  /\ edb' = edb \ {e}
  /\ rdb' = DbDelete(rdb, e)

\* poll() finds the first entry overdue but no registration under its key.
PollDropsEntry(e, lifetime) ==
  /\ e \in FirstEntries
  /\ Overdue(e, lifetime)
  /\ e[2] \notin DOMAIN rdb
  /\ edb' = edb \ {e}
  /\ UNCHANGED rdb

\* poll() finds nothing overdue at the head of the index.
PollIdle(lifetime) == /\ \A e \in FirstEntries : ~Overdue(e, lifetime)
                      /\ UNCHANGED <<rdb, edb>>

-----------------------------------------------------------------------------
(***************************************************************************)
(* The operations that read.                                               *)
(***************************************************************************)

\* prefix_iter(): the keys under "<namespace>/" or "<namespace>/<group>/".
\* No group filter is NoGroup, the empty name.
KeysUnder(namespace, group) == {k \in DOMAIN rdb : IsPrefix(namespace \o group, k)}

\* A mistake: `group: None` told apart from the default group.
VisibleByGivenGroup(identity, node) ==
  \/ identity.discoverability = "Namespace"
  \/ identity.discoverability = "Group" /\ identity.group = node.group

Visible(identity, node) ==
  \/ identity.discoverability = "Namespace"
  \/ /\ identity.discoverability = "Group"
     /\ GroupOf(identity) = GroupOf(node)

Discover(node, group) ==
  {rdb[k] : k \in {x \in KeysUnder(node.namespace, group) :
                     x # KeyOf(node) /\ Visible(rdb[x].identity, node)}}

\* get(): no registration or one.
Get(k) == {rdb[x] : x \in DOMAIN rdb \cap {k}}

\* groups(): the groups that are spelled out, `group: None` is passed over.
Groups(namespace) ==
  {rdb[k].identity.group : k \in KeysUnder(namespace, NoGroup)} \ {NoGroup}

-----------------------------------------------------------------------------
(***************************************************************************)
(* The store by itself: its operations in any order, as time passes.       *)
(***************************************************************************)

StoreTick == Tick /\ UNCHANGED <<rdb, edb>>

StoreWrite ==
  \/ \E n \in Nodes, a \in Addresses, l \in Lifetimes : Register(n, a, l)
  \/ \E n \in Nodes : Deregister(n)

StorePoll == \E e \in edb, l \in Lifetimes : PollExpires(e, l) \/ PollDropsEntry(e, l)

StoreNext == \/ StoreTick
             \/ (StoreWrite \/ StorePoll) /\ UNCHANGED now

StoreSpec == StoreInit /\ [][StoreNext]_storeVars

-----------------------------------------------------------------------------
(***************************************************************************)
(* Properties.                                                             *)
(***************************************************************************)

StoreTypeOK ==
  /\ DOMAIN rdb \subseteq Key
  /\ \A k \in DOMAIN rdb : rdb[k] \in Registration
  /\ edb \subseteq (0..Timestamp(now)) \X Key
  /\ now \in Nat

\* A registration whose lifetime is not over is in the expirations database,
\* under the second of its last refresh: whatever registers, deregisters and
\* expires in between, poll() can still come to it.
UnexpiredIsIndexed ==
  \A k \in DOMAIN rdb :
    \/ ExpirationKey(rdb[k].lastRegistration, k) \in edb
    \/ \E l \in Lifetimes : Overdue(ExpirationKey(rdb[k].lastRegistration, k), l)

\* Of the entries of a registered key none is younger than the registration:
\* what deregister() left behind can only fire before the current entry does.
LeftoversAreOlder ==
  \A e \in edb : e[2] \in DOMAIN rdb => e[1] <= Timestamp(rdb[e[2]].lastRegistration)

=============================================================================
