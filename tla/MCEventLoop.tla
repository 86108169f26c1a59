---------------------------- MODULE MCEventLoop ----------------------------
(***************************************************************************)
(* The event loop of a node and one remote: the rendezvous node it is      *)
(* started with, which the user removes and adds again and with which both *)
(* open streams.  Once it is removed, it is a peer like any other.         *)
(***************************************************************************)
EXTENDS EventLoop

CONSTANT r1

MCCommands ==
  {[type |-> "OpenStream", peer |-> r1],
   [type |-> "CloseStream", stream |-> 1],
   [type |-> "ReadStream", stream |-> 1],
   [type |-> "Subscribe", topics |-> {"news"}],
   [type |-> "Unsubscribe", topics |-> {"news"}],
   [type |-> "ExitLoop"],
   [type |-> "AddRendezvous", peer |-> r1],
   [type |-> "RemoveRendezvous", peer |-> r1],
   [type |-> "UpdateRemotes"]}

MCRemotes == {r1}

=============================================================================
