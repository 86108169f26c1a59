------------------------------- MODULE Leases -------------------------------
(***************************************************************************)
(* What the client's two tables promise whoever reads their events: each   *)
(* entry is a lease with one deadline, an insert renews it, and a lease is *)
(* announced as lapsed once its current deadline is over, never because of *)
(* one it had before it was renewed.                                       *)
(***************************************************************************)
EXTENDS Clock

CONSTANTS Holder,     \* who may hold a lease
          Revocable   \* whether a lease can end without lapsing

VARIABLES deadline,   \* holder -> the time its lease lapses
          lapsed      \* the holders whose lapse the last event announces

LeaseInit == /\ deadline = << >>
             /\ lapsed = {}
             /\ now = 0

\* Leases are granted or renewed, several at a time.
Grant(holders) ==
  /\ DOMAIN deadline' = DOMAIN deadline \cup holders
  /\ \A h \in DOMAIN deadline \ holders : deadline'[h] = deadline[h]
  /\ lapsed' = {}

End(h) == deadline' = [x \in DOMAIN deadline \ {h} |-> deadline[x]]

Revoke(h) == Revocable /\ End(h) /\ lapsed' \in {lapsed, {}}

Lapse(h) == /\ h \in DOMAIN deadline
            /\ deadline[h] <= now
            /\ End(h)
            /\ lapsed' = {h}

\* Some other event is reported.
OtherNews == lapsed' = {} /\ UNCHANGED deadline

LeaseNext ==
  \/ Tick /\ UNCHANGED <<deadline, lapsed>>
  \/ /\ \/ \E S \in SUBSET Holder : Grant(S)
        \/ \E h \in Holder : Revoke(h) \/ Lapse(h)
        \/ OtherNews
     /\ UNCHANGED now

LeaseSpec == LeaseInit /\ [][LeaseNext]_<<deadline, lapsed, now>>

=============================================================================
