--------------------------- MODULE Identification ---------------------------
(***************************************************************************)
(* Node identities and locator keys (identification.rs).                   *)
(*                                                                         *)
(* The names the program concatenates with "/" (namespaces, groups, keys)  *)
(* are modelled by the sequence of their "/"-separated segments: "a/b" is  *)
(* <<"a", "b">>, joining with "/" is \o, and a string prefix that ends in  *)
(* "/" is a sequence prefix.  A name has at least one segment, so <<>> is  *)
(* free to stand for the group `None`.  Alias and metadata are left out:   *)
(* the code only copies them.                                              *)
(***************************************************************************)
EXTENDS Sequences

CONSTANTS Peers,      \* peer ids
          Segments,   \* the "/"-free parts of namespaces and groups
          Nodes       \* the identities that take part

NoGroup == <<>>
Name == Seq(Segments) \ {<<>>}
Discoverability == {"Namespace", "Group", "Direct"}

NodeIdentifier == [peer : Peers, namespace : Name, group : Name \cup {NoGroup},
                   discoverability : Discoverability]

ASSUME IdentificationAssumption == Nodes \subseteq NodeIdentifier

-----------------------------------------------------------------------------

\* NodeIdentifier::group()
GroupOf(node) == IF node.group = NoGroup THEN <<"default">> ELSE node.group

\* "<namespace>/<group>/<peer id>": NodeIdentifier::key() and client find().
LocatorKey(namespace, group, peer) == namespace \o group \o <<peer>>

\* NodeIdentifier::key()
KeyOf(node) == LocatorKey(node.namespace, GroupOf(node), node.peer)

=============================================================================
