----------------------------- MODULE MCPresence -----------------------------
(***************************************************************************)
(* Instances of Presence for TLC: up to three connections of one account,  *)
(* two on one instance, a limit small enough that evictions happen.        *)
(***************************************************************************)
EXTENDS Presence, TLC

CONSTANTS u1, t1, c1, c2, c3, i1, i2

\* One account: the sets of two accounts share nothing but their roster.
OneTenant == {t1}
OneUser == {u1}
TenantOfU1 == [u \in OneUser |-> t1]
TwoInstances == {i1, i2}

\* c1 and c3 on i1, c2 on i2.
ThreeConns == {c1, c2, c3}
TwoConns   == {c1, c2}
PinThree   == [c \in ThreeConns |-> IF c = c2 THEN i2 ELSE i1]
AllOfU1    == [c \in ThreeConns |-> u1]
BothOfU1   == [c \in TwoConns |-> u1]
AllSse     == [c \in ThreeConns |-> "sse"]
BothSse    == [c \in TwoConns |-> "sse"]
BothWs     == [c \in TwoConns |-> "websocket"]

\* c1 and c3 are pinned alike and belong to one account.
PinnedAlike == Permutations({c1, c3})

\* One instance holding everything.
OneInstance == {i1}
PinBothOne  == [c \in TwoConns |-> i1]
=============================================================================
