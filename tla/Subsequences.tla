---------------------------- MODULE Subsequences ----------------------------
(***************************************************************************)
(* The elements of a list that a comprehension with an `if`, or a loop     *)
(* with a `continue`, keeps: in their order, each as often as it is kept.  *)
(***************************************************************************)
EXTENDS Naturals, Sequences

(* The elements of s at the positions I. *)
Subsequence(s, I) ==
  LET upto[n \in 0..Len(s)] ==
        IF n = 0 THEN <<>>
        ELSE IF n \in I THEN Append(upto[n-1], s[n])
        ELSE upto[n-1]
  IN upto[Len(s)]

(* The elements of s that are in S. *)
Only(s, S) == Subsequence(s, {i \in DOMAIN s : s[i] \in S})
=============================================================================
