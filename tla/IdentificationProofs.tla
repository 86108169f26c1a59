------------------------ MODULE IdentificationProofs ------------------------
(***************************************************************************)
(* What locator keys tell of the identities they are made from.  The       *)
(* program compares keys where it means identities, and prefixes of keys   *)
(* where it means namespaces and groups.                                   *)
(***************************************************************************)
EXTENDS Identification, Integers, SequencesExt, SequenceTheorems, TLAPS

\* The segments of a key.
KeySegments == Segments \cup {"default"} \cup Peers

LEMMA NamesAreSequences ==
  ASSUME NEW n \in NodeIdentifier
  PROVE  /\ n.namespace \in Seq(KeySegments) /\ Len(n.namespace) \in Nat \ {0}
         /\ GroupOf(n) \in Seq(KeySegments) /\ Len(GroupOf(n)) \in Nat \ {0}
<1>1. ASSUME NEW name \in Name
      PROVE  name \in Seq(KeySegments) /\ Len(name) \in Nat \ {0}
  <2>1. name \in Seq(Segments) /\ name # << >>
    BY DEF Name
  <2>2. name \in Seq(KeySegments)
    BY <2>1, SeqMonotonic DEF KeySegments
  <2> QED BY <2>1, <2>2
<1>2. n.namespace \in Name
  BY DEF NodeIdentifier
<1>3. CASE n.group = NoGroup
  <2>1. GroupOf(n) = <<"default">> /\ "default" \in KeySegments
    BY <1>3 DEF GroupOf, KeySegments
  <2> QED BY <1>1, <1>2, <2>1
<1>4. CASE n.group # NoGroup
  <2>1. GroupOf(n) \in Name
    BY <1>4 DEF GroupOf, NodeIdentifier
  <2> QED BY <1>1, <1>2, <2>1
<1> QED BY <1>3, <1>4

\* A key is the segments of the namespace, those of the group, and the peer id.
LEMMA KeyParts ==
  ASSUME NEW n \in NodeIdentifier
  PROVE  /\ KeyOf(n) \in Seq(KeySegments)
         /\ Len(KeyOf(n)) = Len(n.namespace) + Len(GroupOf(n)) + 1
         /\ \A i \in 1..Len(n.namespace) : KeyOf(n)[i] = n.namespace[i]
         /\ \A i \in 1..Len(GroupOf(n)) : KeyOf(n)[Len(n.namespace) + i] = GroupOf(n)[i]
         /\ KeyOf(n)[Len(KeyOf(n))] = n.peer
<1> DEFINE names == n.namespace \o GroupOf(n)
<1>1. n.namespace \in Seq(KeySegments) /\ GroupOf(n) \in Seq(KeySegments)
  BY NamesAreSequences
<1>2. /\ names \in Seq(KeySegments)
      /\ Len(names) = Len(n.namespace) + Len(GroupOf(n))
      /\ \A i \in 1..Len(n.namespace) : names[i] = n.namespace[i]
      /\ \A i \in 1..Len(GroupOf(n)) : names[Len(n.namespace) + i] = GroupOf(n)[i]
  BY <1>1, ConcatProperties
<1>3. <<n.peer>> \in Seq(KeySegments) /\ Len(<<n.peer>>) = 1 /\ <<n.peer>>[1] = n.peer
  BY DEF NodeIdentifier, KeySegments
<1>4. KeyOf(n) = names \o <<n.peer>>
  BY DEF KeyOf, LocatorKey
<1>5. Len(n.namespace) \in Nat /\ Len(GroupOf(n)) \in Nat
  BY <1>1
<1> HIDE DEF names
<1>6. /\ KeyOf(n) \in Seq(KeySegments)
      /\ Len(KeyOf(n)) = Len(names) + 1
      /\ \A i \in 1..Len(names) : KeyOf(n)[i] = names[i]
      /\ KeyOf(n)[Len(names) + 1] = n.peer
  BY <1>2, <1>3, <1>4, ConcatProperties
<1>7. Len(names) \in Nat /\ Len(names) + 1 = Len(KeyOf(n))
  BY <1>2, <1>5, <1>6
<1>8. \A i \in 1..Len(n.namespace) : i \in 1..Len(names)
  BY <1>2, <1>5
<1>9. \A i \in 1..Len(GroupOf(n)) : Len(n.namespace) + i \in 1..Len(names)
  BY <1>2, <1>5
<1> QED BY <1>2, <1>5, <1>6, <1>7, <1>8, <1>9

\* It has at least three segments, and its last one is the peer id.
LEMMA KeysAreLong ==
  ASSUME NEW n \in NodeIdentifier
  PROVE  Len(KeyOf(n)) >= 3
BY KeyParts, NamesAreSequences

LEMMA KeysTellPeers ==
  ASSUME NEW m \in NodeIdentifier, NEW n \in NodeIdentifier, KeyOf(m) = KeyOf(n)
  PROVE  m.peer = n.peer
BY KeyParts

\* Merging a discoverability into an identity leaves its key alone.
LEMMA MergeKeepsKey ==
  ASSUME NEW id \in NodeIdentifier, NEW d \in Discoverability
  PROVE  /\ [id EXCEPT !.discoverability = d] \in NodeIdentifier
         /\ KeyOf([id EXCEPT !.discoverability = d]) = KeyOf(id)
BY DEF NodeIdentifier, KeyOf, GroupOf

-----------------------------------------------------------------------------
(***************************************************************************)
(* Names of one segment: only then do keys tell the names, too.            *)
(***************************************************************************)

LEMMA ShortKeyParts ==
  ASSUME NEW n \in NodeIdentifier, Len(KeyOf(n)) = 3
  PROVE  /\ Len(n.namespace) = 1 /\ Len(GroupOf(n)) = 1
         /\ KeyOf(n)[1] = n.namespace[1] /\ KeyOf(n)[2] = GroupOf(n)[1]
<1>1. Len(n.namespace) = 1 /\ Len(GroupOf(n)) = 1
  <2>1. Len(n.namespace) \in Nat \ {0} /\ Len(GroupOf(n)) \in Nat \ {0}
    BY NamesAreSequences
  <2>2. Len(n.namespace) + Len(GroupOf(n)) + 1 = 3
    BY KeyParts
  <2>3. \A a, b \in Nat \ {0} : a + b + 1 = 3 => a = 1 /\ b = 1
    OBVIOUS
  <2> QED BY <2>1, <2>2, <2>3
<1> QED BY <1>1, KeyParts

LEMMA SameSegment ==
  ASSUME NEW S, NEW s \in Seq(S), NEW t \in Seq(S), Len(s) = 1, Len(t) = 1
  PROVE  s = t <=> s[1] = t[1]
BY SeqEqual

LEMMA ShortKeysTellNames ==
  ASSUME NEW m \in NodeIdentifier, NEW n \in NodeIdentifier,
         KeyOf(m) = KeyOf(n), Len(KeyOf(n)) = 3
  PROVE  m.namespace = n.namespace /\ GroupOf(m) = GroupOf(n)
BY ShortKeyParts, NamesAreSequences, SameSegment

LEMMA PrefixBySegments ==
  ASSUME NEW S, NEW s \in Seq(S), NEW t \in Seq(S), Len(s) <= Len(t)
  PROVE  IsPrefix(s, t) <=> \A i \in 1..Len(s) : s[i] = t[i]
<1>1. SubSeq(s, 1, Len(s)) = s
  BY SubSeqFull
<1>2. \A i \in 1..Len(s) : t[i] \in S
  BY ElementOfSeq
<1>3. /\ SubSeq(t, 1, Len(s)) \in Seq(S)
      /\ Len(SubSeq(t, 1, Len(s))) = Len(s)
      /\ \A i \in 1..Len(s) : SubSeq(t, 1, Len(s))[i] = t[i]
  BY <1>2, SubSeqProperties
<1> QED BY <1>1, <1>3, SeqEqual DEF IsPrefix

\* The prefix "<namespace>/<group>/" finds the keys of that namespace and group.
LEMMA PrefixTellsNames ==
  ASSUME NEW n \in NodeIdentifier, Len(KeyOf(n)) = 3,
         NEW namespace \in Name, Len(namespace) = 1,
         NEW group \in Name \cup {NoGroup}, Len(group) <= 1
  PROVE  IsPrefix(namespace \o group, KeyOf(n))
           <=> n.namespace = namespace /\ (group # NoGroup => GroupOf(n) = group)
<1> DEFINE prefix == namespace \o group
           k == KeyOf(n)
<1>1. /\ Len(k) = 3 /\ Len(n.namespace) = 1 /\ Len(GroupOf(n)) = 1
      /\ k[1] = n.namespace[1] /\ k[2] = GroupOf(n)[1]
  BY ShortKeyParts
<1>2. n.namespace \in Seq(KeySegments) /\ GroupOf(n) \in Seq(KeySegments)
      /\ k \in Seq(KeySegments)
  BY NamesAreSequences, KeyParts
<1>3. namespace \in Seq(KeySegments) /\ group \in Seq(KeySegments)
  <2>1. namespace \in Seq(Segments) /\ group \in Seq(Segments)
    BY EmptySeq DEF Name, NoGroup
  <2> QED BY <2>1, SeqMonotonic DEF KeySegments
<1>4. /\ prefix \in Seq(KeySegments)
      /\ Len(prefix) = 1 + Len(group)
      /\ \A i \in 1..1 + Len(group) : prefix[i] = IF i <= 1 THEN namespace[i] ELSE group[i - 1]
  BY <1>3, ConcatProperties
<1>5. n.namespace = namespace <=> k[1] = namespace[1]
  BY <1>1, <1>2, <1>3, SameSegment
<1> HIDE DEF prefix, k
<1>6. CASE Len(group) = 0
  <2>1. group = NoGroup
    BY <1>3, <1>6 DEF NoGroup
  <2>2. IsPrefix(prefix, k) <=> namespace[1] = k[1]
    <3>1. Len(prefix) = 1 /\ prefix[1] = namespace[1]
      BY <1>4, <1>6
    <3> QED BY <1>1, <1>2, <1>4, <3>1, PrefixBySegments
  <2> QED BY <1>5, <2>1, <2>2 DEF prefix, k
<1>7. CASE Len(group) = 1
  <2>1. group # NoGroup
    BY <1>7 DEF NoGroup
  <2>2. GroupOf(n) = group <=> k[2] = group[1]
    BY <1>1, <1>2, <1>3, <1>7, SameSegment
  <2>3. IsPrefix(prefix, k) <=> namespace[1] = k[1] /\ group[1] = k[2]
    <3>1. Len(prefix) = 2 /\ prefix[1] = namespace[1] /\ prefix[2] = group[1]
      BY <1>4, <1>7
    <3>2. IsPrefix(prefix, k) <=> \A i \in 1..2 : prefix[i] = k[i]
      BY <1>1, <1>2, <1>4, <3>1, PrefixBySegments
    <3> QED BY <3>1, <3>2
  <2> QED BY <1>5, <2>1, <2>2, <2>3 DEF prefix, k
<1> QED BY <1>3, <1>6, <1>7

=============================================================================
