---------------------------- MODULE Subsequences ----------------------------
(***************************************************************************)
(* Array.prototype.filter as a recursive function, so that what it keeps   *)
(* can be proved by induction on the length; SelectSeq has no proof rule.  *)
(***************************************************************************)
EXTENDS Integers, Sequences

\* The elements of s that are in S, in the order of s.
Kept(s, S) ==
  LET kept[n \in 0..Len(s)] ==
        IF n = 0 THEN <<>>
        ELSE IF s[n] \in S THEN Append(kept[n - 1], s[n]) ELSE kept[n - 1]
  IN kept[Len(s)]
=============================================================================
