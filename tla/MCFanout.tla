------------------------------ MODULE MCFanout ------------------------------
(***************************************************************************)
(* Instances of Fanout for TLC: two instances, the streams of one user,    *)
(* and the requests each run is about.                                     *)
(***************************************************************************)
EXTENDS Fanout

CONSTANTS i1, i2, ana, bob, t1, t2, sa, sb, order, note, other, mine, kill

TwoInstances == {i1, i2}
TwoUsers     == {ana, bob}
TwoTenants   == {t1, t2}
Apart        == [u \in TwoUsers |-> IF u = ana THEN t1 ELSE t2]

\* A stream of ana's on each instance.
TwoStreams == {sa, sb}
Owners     == [c \in TwoStreams |-> ana]
Homes      == [c \in TwoStreams |-> IF c = sa THEN i1 ELSE i2]
OnlyAna    == {ana}
Nobody     == {}

\* Two requests of ana on i1: an event for herself, and one for everyone.
Emits         == {order, other}
EmitsAt       == [j \in Emits |-> i1]
EmitsCaller   == [j \in Emits |-> ana]
EmitsScope    == [j \in Emits |-> IF j = order THEN "user" ELSE "broadcast"]
EmitsTarget   == [j \in Emits |-> ana]
EmitsSteps    == [j \in Emits |-> 1]

\* One stream of ana's: she orders on i2, two events for her tenant, bob asks
\* i2 to emit to her tenant, and three requests disconnect the stream: her
\* own, to either instance, and bob's.
OneStream     == {sa}
OneOwner      == [c \in OneStream |-> ana]
OneHome       == [c \in OneStream |-> i1]
Mixed         == {order, note, kill, mine, other}
MixedAt       == [j \in Mixed |-> IF j \in {mine, other} THEN i1 ELSE i2]
MixedCaller   == [j \in Mixed |-> IF j \in {order, kill, mine} THEN ana ELSE bob]
MixedScope    == [j \in Mixed |-> IF j \in {order, note} THEN "tenant" ELSE "kill"]
MixedTarget   == [j \in Mixed |-> IF j \in {order, note} THEN t1 ELSE sa]
MixedSteps    == [j \in Mixed |-> IF j = order THEN 2 ELSE 1]
=============================================================================
