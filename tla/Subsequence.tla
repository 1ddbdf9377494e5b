---------------------------- MODULE Subsequence ----------------------------
(***************************************************************************)
(* retain and filter of Rust on a list: what is left of a sequence, in its *)
(* order, when only the members of a set are kept.                         *)
(***************************************************************************)
EXTENDS Naturals, Sequences

Elements(s) == {s[i] : i \in DOMAIN s}

\* The elements of s that are in S, in their order.
Keep(s, S) ==
  LET kept[i \in 0..Len(s)] ==
        IF i = 0 THEN <<>>
        ELSE IF s[i] \in S THEN Append(kept[i - 1], s[i]) ELSE kept[i - 1]
  IN  kept[Len(s)]
=============================================================================
