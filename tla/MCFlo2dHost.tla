----------------------------- MODULE MCFlo2dHost -----------------------------
(***************************************************************************)
(* Flo2dHost on small instances, which differ in how runs share model      *)
(* directories.                                                            *)
(***************************************************************************)
EXTENDS Flo2dHost, TLC

CONSTANTS r1, r2, r3, d1, d2

\* Tagged runs have a directory each.
OwnDir == (r1 :> d1) @@ (r2 :> d2)

\* A date that is forecast twice (-f) shares one.
SameDir == (r1 :> d1) @@ (r2 :> d1)

\* A date that is forecast twice, and another one.
TwoOfThree == (r1 :> d1) @@ (r2 :> d1) @@ (r3 :> d2)
=============================================================================
