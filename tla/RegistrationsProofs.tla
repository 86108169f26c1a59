------------------------ MODULE RegistrationsProofs ------------------------
(***************************************************************************)
(* The invariants of the store, proved for every set of nodes, every set   *)
(* of lifetimes and every resolution of the clock.                         *)
(***************************************************************************)
EXTENDS Registrations, IdentificationProofs

LEMMA TimestampMonotone ==
  ASSUME NEW a \in Nat, NEW b \in Nat, a <= b
  PROVE  /\ Timestamp(a) \in Nat
         /\ Timestamp(a) <= Timestamp(b)
<1>1. TicksPerSecond \in Nat /\ TicksPerSecond > 0
  BY ClockAssumption
<1> DEFINE T == TicksPerSecond
           q == a \div T
           r == b \div T
<1>2. q \in Int /\ T * q <= a /\ a < T * q + T
  BY <1>1
<1>3. r \in Int /\ T * r <= b /\ b < T * r + T
  BY <1>1
<1>4. q >= 0
  BY <1>1
<1>5. q <= r
  BY <1>1, <1>2, <1>3
<1>. QED BY <1>2, <1>4, <1>5 DEF Timestamp

LEMMA OverdueStays ==
  ASSUME NEW s \in Nat, NEW l \in Nat, NEW t \in Nat, NEW k,
         now \in Nat, now' = now + 1, Overdue(<<s, k>>, l)
  PROVE  Overdue(<<s, k>>, l)'
BY ClockAssumption DEF Overdue, FromTimestamp

-----------------------------------------------------------------------------

\* A registration is filed under the locator key of the identity it holds,
\* although register() writes an identity it merged from two requests.
FiledUnderOwnKey == \A k \in DOMAIN rdb : KeyOf(rdb[k].identity) = k

\* The inductive invariant.  None of its parts is inductive by itself: what a
\* refresh stores is filed under the key the request named only because what
\* it merges into was, and the index entry it drops is the current one only
\* because the types and the index agreed before.
StoreInv == /\ StoreTypeOK
            /\ FiledUnderOwnKey
            /\ UnexpiredIsIndexed
            /\ LeftoversAreOlder

\* register() stores a registration under the key of its own identity.
LEMMA RegisteredIsFiled ==
  ASSUME StoreTypeOK, FiledUnderOwnKey,
         NEW n \in Nodes, NEW a \in Addresses, NEW l \in Lifetimes
  PROVE  /\ Registered(n, a, l) \in Registration
         /\ KeyOf(Registered(n, a, l).identity) = KeyOf(n)
         /\ Registered(n, a, l).lastRegistration = now
         /\ KeyOf(n) \in Key
<1> DEFINE k == KeyOf(n)
           id == Registered(n, a, l).identity
<1>1. n \in NodeIdentifier /\ k \in Key
  BY IdentificationAssumption DEF Key
<1>2. id \in NodeIdentifier /\ KeyOf(id) = k
  <2>1. CASE k \in DOMAIN rdb
    <3>1. rdb[k].identity \in NodeIdentifier /\ KeyOf(rdb[k].identity) = k
      BY <2>1 DEF StoreTypeOK, Registration, FiledUnderOwnKey
    <3>2. n.discoverability \in Discoverability
      BY <1>1 DEF NodeIdentifier
    <3>3. id = [rdb[k].identity EXCEPT !.discoverability = n.discoverability]
      BY <2>1 DEF Registered, Merge
    <3>. QED BY <3>1, <3>2, <3>3, MergeKeepsKey
  <2>2. CASE k \notin DOMAIN rdb
    BY <1>1, <2>2 DEF Registered
  <2>. QED BY <2>1, <2>2
<1>3. /\ Registered(n, a, l) = [identity |-> id, addresses |-> a,
                                lastRegistration |-> now, ttl |-> l]
      /\ now \in Nat
  BY DEF Registered, StoreTypeOK
<1>. QED BY <1>1, <1>2, <1>3 DEF Registration

LEMMA StoreInvInit == StoreInit => StoreInv
BY DEF StoreInit, StoreInv, StoreTypeOK, FiledUnderOwnKey, UnexpiredIsIndexed, LeftoversAreOlder

LEMMA StoreInvTick ==
  ASSUME StoreInv, StoreTick
  PROVE  StoreInv'
<1>1. now \in Nat /\ now' = now + 1 /\ rdb' = rdb /\ edb' = edb
  BY DEF StoreTick, Tick, StoreInv, StoreTypeOK
<1>2. Timestamp(now) <= Timestamp(now')
  BY <1>1, TimestampMonotone
<1>3. StoreTypeOK'
  <2>1. Timestamp(now) \in Nat /\ Timestamp(now') \in Nat
    BY <1>1, TimestampMonotone
  <2>2. (0..Timestamp(now)) \subseteq 0..Timestamp(now')
    BY <1>2, <2>1
  <2>. QED BY <1>1, <2>2 DEF StoreInv, StoreTypeOK, Timestamp
<1>4. UnexpiredIsIndexed'
  <2> SUFFICES ASSUME NEW k \in DOMAIN rdb,
                      ExpirationKey(rdb[k].lastRegistration, k) \notin edb
               PROVE  \E l \in Lifetimes : Overdue(ExpirationKey(rdb[k].lastRegistration, k), l)'
    BY <1>1 DEF UnexpiredIsIndexed, ExpirationKey, Timestamp
  <2> DEFINE s == Timestamp(rdb[k].lastRegistration)
  <2>1. PICK l \in Lifetimes : Overdue(<<s, k>>, l)
    BY DEF StoreInv, UnexpiredIsIndexed, ExpirationKey
  <2>2. s \in Nat
    BY TimestampMonotone DEF StoreInv, StoreTypeOK, Registration
  <2>3. l \in Nat
    BY LifetimesAssumption
  <2>4. Overdue(<<s, k>>, l)'
    BY <1>1, <2>1, <2>2, <2>3, OverdueStays
  <2>. QED BY <1>1, <2>4 DEF ExpirationKey
<1>5. FiledUnderOwnKey' /\ LeftoversAreOlder'
  BY <1>1 DEF StoreInv, FiledUnderOwnKey, LeftoversAreOlder, Timestamp
<1>. QED BY <1>3, <1>4, <1>5 DEF StoreInv

LEMMA StoreInvRegister ==
  ASSUME StoreInv, NEW n \in Nodes, NEW a \in Addresses, NEW l \in Lifetimes,
         Register(n, a, l), UNCHANGED now
  PROVE  StoreInv'
<1> DEFINE k == KeyOf(n)
           new == Registered(n, a, l)
           entry == <<Timestamp(now), k>>
<1>1. /\ new \in Registration
      /\ KeyOf(new.identity) = k
      /\ new.lastRegistration = now
      /\ k \in Key
  BY RegisteredIsFiled DEF StoreInv
<1>2. /\ DOMAIN rdb' = DOMAIN rdb \cup {k}
      /\ rdb'[k] = new
      /\ \A x \in DOMAIN rdb : x # k => rdb'[x] = rdb[x]
  BY <1>1 DEF Register, DbPut
<1>3. edb' = (edb \ Replaced(k)) \cup {entry}
  BY DEF Register, ExpirationKey
<1>4. now \in Nat /\ Timestamp(now) \in Nat
  BY TimestampMonotone DEF StoreInv, StoreTypeOK
<1>5. StoreTypeOK'
  <2>1. entry \in (0..Timestamp(now)) \X Key
    BY <1>1, <1>4
  <2>. QED BY <1>1, <1>2, <1>3, <2>1 DEF StoreInv, StoreTypeOK, Timestamp
<1>6. FiledUnderOwnKey'
  BY <1>1, <1>2 DEF StoreInv, FiledUnderOwnKey
<1>7. UnexpiredIsIndexed'
  <2> SUFFICES ASSUME NEW x \in DOMAIN rdb',
                      ~ \E m \in Lifetimes : Overdue(ExpirationKey(rdb'[x].lastRegistration, x), m)
               PROVE  ExpirationKey(rdb'[x].lastRegistration, x) \in edb'
    BY DEF UnexpiredIsIndexed, ExpirationKey, Overdue, Timestamp, FromTimestamp
  <2>1. CASE x = k
    BY <1>1, <1>2, <1>3, <2>1 DEF ExpirationKey
  <2>2. CASE x # k
    <3>1. x \in DOMAIN rdb /\ rdb'[x] = rdb[x]
      BY <1>2, <2>2
    <3>2. ExpirationKey(rdb[x].lastRegistration, x) \in edb
      BY <3>1 DEF StoreInv, UnexpiredIsIndexed
    <3>3. ExpirationKey(rdb[x].lastRegistration, x) \notin Replaced(k)
      BY <2>2 DEF Replaced, ExpirationKey
    <3>. QED BY <1>3, <3>1, <3>2, <3>3
  <2>. QED BY <2>1, <2>2
<1>8. LeftoversAreOlder'
  <2> SUFFICES ASSUME NEW e \in edb', e[2] \in DOMAIN rdb'
               PROVE  e[1] <= Timestamp(rdb'[e[2]].lastRegistration)
    BY DEF LeftoversAreOlder, Timestamp
  <2>1. e = entry \/ e \in edb
    BY <1>3
  <2>2. CASE e[2] = k
    <3>1. rdb'[e[2]].lastRegistration = now
      BY <1>1, <1>2, <2>2
    <3>2. e[1] <= Timestamp(now)
      BY <1>4, <2>1 DEF StoreInv, StoreTypeOK
    <3>. QED BY <3>1, <3>2
  <2>3. CASE e[2] # k
    BY <1>2, <2>1, <2>3 DEF StoreInv, LeftoversAreOlder
  <2>. QED BY <2>2, <2>3
<1>. QED BY <1>5, <1>6, <1>7, <1>8 DEF StoreInv

\* Deregistering, and poll()'s delete, only take registrations out; poll()
\* takes out an index entry that is overdue.
LEMMA StoreInvRemove ==
  ASSUME StoreInv, UNCHANGED now,
         DOMAIN rdb' \subseteq DOMAIN rdb, \A x \in DOMAIN rdb' : rdb'[x] = rdb[x],
         edb' \subseteq edb,
         \A e \in edb \ edb' : e[2] \in DOMAIN rdb => \E l \in Lifetimes : Overdue(e, l)
  PROVE  StoreInv'
<1>1. StoreTypeOK'
  BY DEF StoreInv, StoreTypeOK, Timestamp
<1>2. FiledUnderOwnKey' /\ LeftoversAreOlder'
  BY DEF StoreInv, FiledUnderOwnKey, LeftoversAreOlder, Timestamp
<1>3. UnexpiredIsIndexed'
  <2> SUFFICES ASSUME NEW x \in DOMAIN rdb'
               PROVE  \/ ExpirationKey(rdb[x].lastRegistration, x) \in edb'
                      \/ \E l \in Lifetimes : Overdue(ExpirationKey(rdb[x].lastRegistration, x), l)
    BY DEF UnexpiredIsIndexed, ExpirationKey, Overdue, Timestamp, FromTimestamp
  <2> DEFINE e == ExpirationKey(rdb[x].lastRegistration, x)
  <2>1. e[2] = x /\ x \in DOMAIN rdb
    BY DEF ExpirationKey
  <2>2. e \in edb \/ \E l \in Lifetimes : Overdue(e, l)
    BY <2>1 DEF StoreInv, UnexpiredIsIndexed
  <2>. QED BY <2>1, <2>2
<1>. QED BY <1>1, <1>2, <1>3 DEF StoreInv

LEMMA StoreInvNext == StoreInv /\ [StoreNext]_storeVars => StoreInv'
<1> SUFFICES ASSUME StoreInv, [StoreNext]_storeVars
             PROVE  StoreInv'
  OBVIOUS
<1>1. CASE StoreTick
  BY <1>1, StoreInvTick
<1>2. ASSUME NEW n \in Nodes, NEW a \in Addresses, NEW l \in Lifetimes,
             Register(n, a, l), UNCHANGED now
      PROVE  StoreInv'
  BY <1>2, StoreInvRegister
<1>3. ASSUME NEW n \in Nodes, Deregister(n), UNCHANGED now
      PROVE  StoreInv'
  <2>1. edb' = edb /\ DOMAIN rdb' \subseteq DOMAIN rdb /\ \A x \in DOMAIN rdb' : rdb'[x] = rdb[x]
    BY <1>3 DEF Deregister, DbDelete
  <2>. QED BY <1>3, <2>1, StoreInvRemove
<1>4. ASSUME NEW e \in edb, NEW l \in Lifetimes, PollExpires(e, l), UNCHANGED now
      PROVE  StoreInv'
  <2>1. DOMAIN rdb' \subseteq DOMAIN rdb /\ \A x \in DOMAIN rdb' : rdb'[x] = rdb[x]
    BY <1>4 DEF PollExpires, DbDelete
  <2>2. edb' = edb \ {e} /\ Overdue(e, l)
    BY <1>4 DEF PollExpires
  <2>. QED BY <1>4, <2>1, <2>2, StoreInvRemove
<1>5. ASSUME NEW e \in edb, NEW l \in Lifetimes, PollDropsEntry(e, l), UNCHANGED now
      PROVE  StoreInv'
  <2>1. e[2] \notin DOMAIN rdb /\ edb' = edb \ {e} /\ rdb' = rdb
    BY <1>5 DEF PollDropsEntry
  <2>. QED BY <1>5, <2>1, StoreInvRemove
<1>6. CASE UNCHANGED storeVars
  BY <1>6 DEF storeVars, StoreInv, StoreTypeOK, FiledUnderOwnKey, UnexpiredIsIndexed,
              LeftoversAreOlder, ExpirationKey, Overdue, Timestamp, FromTimestamp
<1>. QED BY <1>1, <1>2, <1>3, <1>4, <1>5, <1>6 DEF StoreNext, StoreWrite, StorePoll

LEMMA StoreInvariant == StoreSpec => []StoreInv
BY StoreInvInit, StoreInvNext, PTL DEF StoreSpec

\* Both databases hold what they are declared to hold, and no index entry is
\* from the future, whatever registers, deregisters and polls, at any time.
THEOREM StoreTypeCorrect == StoreSpec => []StoreTypeOK
BY StoreInvariant, PTL DEF StoreInv

\* poll() can come to every registration whose lifetime is not over: register()
\* moves its index entry along, and neither deregister() nor poll() loses it.
THEOREM UnexpiredIndexed == StoreSpec => []UnexpiredIsIndexed
BY StoreInvariant, PTL DEF StoreInv

\* The entries that deregister() leaves behind never outlast the current one.
THEOREM LeftoversOlder == StoreSpec => []LeftoversAreOlder
BY StoreInvariant, PTL DEF StoreInv

-----------------------------------------------------------------------------
(***************************************************************************)
(* The cleaning of the index takes no registration out.                    *)
(***************************************************************************)

\* The delete that poll() tries in the registrations database finds nothing: a
\* locator key is longer than the key of an index entry.
LEMMA EntriesAreNoKeys ==
  ASSUME StoreTypeOK, NEW e \in edb
  PROVE  e \notin DOMAIN rdb
<1> SUFFICES ASSUME e \in DOMAIN rdb
             PROVE  FALSE
  OBVIOUS
<1>1. Len(e) >= 3
  <2>1. PICK n \in NodeIdentifier : e = KeyOf(n)
    BY IdentificationAssumption DEF StoreTypeOK, Key
  <2>. QED BY <2>1, KeysAreLong
<1>2. Len(e) = 2
  <2>1. e = <<e[1], e[2]>>
    BY DEF StoreTypeOK
  <2>. QED BY <2>1
<1>. QED BY <1>1, <1>2

=============================================================================
