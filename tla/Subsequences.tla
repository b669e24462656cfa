----------------------------- MODULE Subsequences -----------------------------
(***************************************************************************)
(* What a loop over a sequence keeps of it: the elements of a set.         *)
(*                                                                         *)
(* SelectSeq says the same with a condition in place of the set; here the  *)
(* loop is a recursive function, so that SubsequenceLemmas can prove what  *)
(* is kept of every sequence.                                              *)
(***************************************************************************)
EXTENDS Integers, Sequences, Functions

\* What is kept of the first i elements of s.
KeptUpTo(s, S) ==
  LET kept[i \in 0 .. Len(s)] ==
        IF i = 0 THEN << >>
        ELSE IF s[i] \in S THEN Append(kept[i - 1], s[i]) ELSE kept[i - 1]
  IN  kept

Kept(s, S) == KeptUpTo(s, S)[Len(s)]

Increasing(s) == \A i, j \in DOMAIN s : i < j => s[i] < s[j]
=============================================================================
