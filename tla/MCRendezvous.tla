---------------------------- MODULE MCRendezvous ----------------------------
(***************************************************************************)
(* Instances of the client and the server together for TLC: the client of  *)
(* p1, which looks itself up, and another node that deregisters as p1.     *)
(***************************************************************************)
EXTENDS Rendezvous

CONSTANT p1

MCSegments == {"lab", "ops", "default"}

MCSelf == [peer |-> p1, namespace |-> <<"lab">>, group |-> NoGroup,
           discoverability |-> "Namespace"]
MCNodes == {MCSelf}

MCFind == {[type |-> "Find", key |-> KeyOf(MCSelf)]}

LOCAL MCDeregister == [type |-> "Deregister"]

MCCommands == {[type |-> "Register", addresses |-> "addrs1"], MCDeregister} \cup MCFind

MCStrangers == {[source |-> MCSelf, command |-> MCDeregister]}

=============================================================================
