----------------------------- MODULE Directory -----------------------------
(***************************************************************************)
(* What the rendezvous server promises those who register: a directory     *)
(* that changes only as it is asked to.  Registering replaces the whole    *)
(* entry under the node's key and starts its lifetime anew (message.rs:    *)
(* "replacing existing addresses and updating the TTL"); only a request to *)
(* deregister takes an entry out, and only that of the one who asks.       *)
(* Expiry is news the directory gives to its keeper; it takes nothing out. *)
(***************************************************************************)
EXTENDS Clock

VARIABLES directory,   \* locator key -> [content, since]
          asked        \* the requests that may be carried out now: [type, key] to
                       \* withdraw, [type, key, content] to publish; input

\* The directory after the request is carried out.
Served(request) ==
  IF request.type = "Publish"
  THEN [k \in DOMAIN directory \cup {request.key} |->
          IF k = request.key THEN [content |-> request.content, since |-> now]
                             ELSE directory[k]]
  ELSE [k \in DOMAIN directory \ {request.key} |-> directory[k]]

DirInit == directory = << >> /\ now = 0

DirNext == \/ Tick /\ UNCHANGED directory
           \/ UNCHANGED now /\ \E request \in asked : directory' = Served(request)

DirSpec == DirInit /\ [][DirNext]_<<directory, now>>

=============================================================================
