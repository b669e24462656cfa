-------------------------- MODULE MCExtractRequests --------------------------
(***************************************************************************)
(* ExtractRequests with two spaced runs for one date and a trigger for it. *)
(***************************************************************************)
EXTENDS ExtractRequests, TLC

CONSTANTS r1, r2, d1, t1

SameDir == (r1 :> d1) @@ (r2 :> d1)
MCOf    == t1 :> r1
=============================================================================
