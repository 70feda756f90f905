----------------------------- MODULE MCSessions -----------------------------
(***************************************************************************)
(* Instances of Sessions for TLC: one operator who revokes herself, two    *)
(* connections, one ticket.                                                *)
(***************************************************************************)
EXTENDS Sessions

CONSTANTS ana, c1, c2, t1

Users     == {ana}
Two       == {c1, c2}
OneTicket == {t1}
Symmetry  == Permutations(Two)
=============================================================================
