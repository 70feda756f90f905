----------------------------- MODULE MCRecovery -----------------------------
(***************************************************************************)
(* Instances of Recovery for TLC: one tab that reconnects, a ring and a    *)
(* queue of two events, a drain of one.                                    *)
(***************************************************************************)
EXTENDS Recovery

CONSTANTS ta, burst, away, drop, ack, look

\* A tab that drains from the first event on.
OneTab      == {ta}
FromStart   == [t \in OneTab |-> MIN_EVENT_ID]

\* A burst, an event for an absent user, a drop, an acknowledgement and a
\* timeline request.
Requests    == {burst, away, drop, ack, look}
RequestKind == [j \in Requests |-> CASE j = burst -> "burst" [] j = away -> "offline"
                  [] j = drop -> "drop" [] j = ack -> "ack" [] OTHER -> "view"]
RequestSize == [j \in Requests |-> IF j = burst THEN 2 ELSE 1]

\* A timeline request beside a burst.
Looks       == {burst, look}
LookKind    == [j \in Looks |-> IF j = burst THEN "burst" ELSE "view"]
LookSize    == [j \in Looks |-> 2]
=============================================================================
