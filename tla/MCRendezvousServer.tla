------------------------ MODULE MCRendezvousServer ------------------------
(***************************************************************************)
(* Instances of the rendezvous server for TLC.                             *)
(***************************************************************************)
EXTENDS RendezvousServer

CONSTANTS p1, p2

MCSegments == {"lab", "ops", "default"}

LOCAL Id(p, n, g, d) == [peer |-> p, namespace |-> n, group |-> g, discoverability |-> d]

\* One locator key, two identities: p1 names no group and shows itself, or
\* spells the default group out and hides.
MCNodes == {Id(p1, <<"lab">>, NoGroup, "Namespace"),
            Id(p1, <<"lab">>, <<"default">>, "Direct")}

\* Five registrations in two namespaces and two groups, one of them hidden.
MCManyNodes == {Id(p1, <<"lab">>, NoGroup, "Group"),
                Id(p1, <<"ops">>, NoGroup, "Namespace"),
                Id(p2, <<"lab">>, <<"default">>, "Group"),
                Id(p2, <<"lab">>, <<"ops">>, "Namespace"),
                Id(p1, <<"lab">>, <<"ops">>, "Direct")}

\* A namespace whose name continues another's after a "/".
MCNestedNodes == {Id(p1, <<"lab">>, NoGroup, "Namespace"),
                  Id(p2, <<"lab", "ops">>, NoGroup, "Namespace")}

MCOneNode == {Id(p1, <<"lab">>, NoGroup, "Namespace")}

DoRegister == [type |-> "Register", addresses |-> "addrs1"]
DoDeregister == [type |-> "Deregister"]
DoDiscover(group) == [type |-> "Discover", group |-> group]
DoFind == [type |-> "Find", key |-> KeyOf(CHOOSE n \in Nodes : n.peer = p1)]
DoGroups == [type |-> "Groups"]

MCWrites == {DoRegister, DoDeregister}
MCReads == {DoRegister, DoDiscover(NoGroup), DoDiscover(<<"default">>), DoFind, DoGroups}
MCDiscovery == {DoRegister, DoDiscover(NoGroup)}
MCGroups == {DoRegister, DoGroups}

=============================================================================
