------------------------------- MODULE MCRooms -------------------------------
(***************************************************************************)
(* Instances of Rooms for TLC: three connections of one user.              *)
(***************************************************************************)
EXTENDS Rooms

CONSTANTS ana, c1, c2, c3, r1

Three    == {c1, c2, c3}
AllOfAna == [c \in Three |-> ana]
OneRoom  == {r1}
Symmetry == Permutations(Three)
=============================================================================
