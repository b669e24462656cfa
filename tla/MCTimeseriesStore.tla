-------------------------- MODULE MCTimeseriesStore --------------------------
(***************************************************************************)
(* TimeseriesStore on a small instance.  Programs of different kinds never *)
(* share an event (their variables, sources or names differ), so they meet *)
(* in casts of their own: runs of STORE_MYSQL.py that store water levels,  *)
(* and programs to which an event that exists is enough.  Times count half *)
(* days: 2 and 3 are the first date, 4 and 5 the second.                   *)
(***************************************************************************)
EXTENDS TimeseriesStore, TLC

CONSTANTS plain, force, next, glob, first, again, later, rain, s1, s2

MCSeries  == {s1, s2}
MCWriters == {plain, force, next, glob, first, again, later, rain}

File(s, slices) == [series |-> s, slices |-> slices]

\* The forecast of a whole first or second date, of one that starts at noon,
\* and of one that ends within its first slice.
Whole == <<{2, 3}, {4, 5}>>
Next2 == <<{4, 5}, {6}>>
Noon  == <<{3, 4}, {5, 6}>>
Cut   == <<{3}, {}>>

\* glob finds two files for a station; rain does, too, the shorter one first.
MCWork ==
  (plain :> <<File(s1, Whole), File(s2, Whole)>>) @@ (force :> <<File(s1, Noon)>>) @@
  (next :> <<File(s1, Next2)>>) @@ (glob :> <<File(s1, Whole), File(s1, Cut)>>) @@
  (first :> <<File(s1, Whole), File(s2, Whole)>>) @@ (again :> <<File(s2, Whole)>>) @@
  (later :> <<File(s1, Next2)>>) @@ (rain :> <<File(s1, Cut), File(s1, Whole)>>)

MCByRows == {plain, force, next, glob}
MCForced == {force, again}

MCCasts  == {{plain, force, next}, {glob, force}, {glob, next},
             {first, again, later}, {rain, again}, {rain, later}}
=============================================================================
