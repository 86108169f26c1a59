------------------------ MODULE MCRendezvousClient ------------------------
(***************************************************************************)
(* Instances of the rendezvous client for TLC.                             *)
(***************************************************************************)
EXTENDS RendezvousClient

CONSTANT p1

MCSegments == {"lab", "ops", "default"}

LOCAL Id(p, g) == [peer |-> p, namespace |-> <<"lab">>, group |-> g,
                   discoverability |-> "Namespace"]

\* One peer, registered in two groups.
MCTwoGroups == {Id(p1, NoGroup), Id(p1, <<"ops">>)}

MCQueries == {[type |-> "Discover", group |-> NoGroup], [type |-> "Groups"]}
               \cup {[type |-> "Find", key |-> KeyOf(n)] : n \in MCTwoGroups}

=============================================================================
