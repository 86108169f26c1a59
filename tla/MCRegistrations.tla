-------------------------- MODULE MCRegistrations --------------------------
(***************************************************************************)
(* Instances of the store for TLC: two peers of one namespace; p1 comes    *)
(* with no group or spells the default one out, and changes who may see    *)
(* it.  Two ticks to a second, so that several operations share a second.  *)
(***************************************************************************)
EXTENDS Registrations

CONSTANTS p1, p2

MCSegments == {"lab", "default", "ops"}

MCNode(p, g, d) == [peer |-> p, namespace |-> <<"lab">>, group |-> g, discoverability |-> d]

MCNodes == {MCNode(p1, NoGroup, "Namespace"), MCNode(p1, <<"default">>, "Direct"),
            MCNode(p2, <<"ops">>, "Group")}

=============================================================================
