---------------------------- MODULE Subsequences ----------------------------
(***************************************************************************)
(* The part of a sequence that is in a set, as a recursive function of the *)
(* number of elements looked at.                                           *)
(***************************************************************************)
EXTENDS Naturals, Sequences

\* what is in S among the first n elements of s, in their order
KeptTo(s, S) ==
    LET kept[n \in 0..Len(s)] ==
          IF n = 0 THEN <<>>
          ELSE IF s[n] \in S THEN Append(kept[n - 1], s[n]) ELSE kept[n - 1]
    IN  kept

\* what is in S of s
Kept(s, S) == KeptTo(s, S)[Len(s)]
=============================================================================
