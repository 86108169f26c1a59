------------------------------- MODULE Clock -------------------------------
(***************************************************************************)
(* The wall clock `Utc::now()` that the store, the server and the clients  *)
(* read.  It counts ticks, TicksPerSecond of them to a second, because the *)
(* store files expirations under whole seconds while it compares them with *)
(* the full-resolution time.                                               *)
(***************************************************************************)
EXTENDS Integers

CONSTANTS TicksPerSecond,  \* resolution of the clock
          MaxNow           \* bound of the model: the clock stops here

ASSUME ClockAssumption == /\ TicksPerSecond \in Nat \ {0}
                          /\ MaxNow \in Nat

VARIABLE now

\* DateTime::timestamp(): whole seconds, the fraction is dropped.
Timestamp(t) == t \div TicksPerSecond

\* DateTime::from_timestamp(s, 0)
FromTimestamp(s) == s * TicksPerSecond

Tick == /\ now < MaxNow
        /\ now' = now + 1

=============================================================================
