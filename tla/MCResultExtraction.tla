-------------------------- MODULE MCResultExtraction --------------------------
(***************************************************************************)
(* ResultExtraction on small files: three channel elements, one of them    *)
(* not wanted, series of up to four rows, days of two hours, BASE.OUT with *)
(* two steps, and every point at which a file may end.                     *)
(***************************************************************************)
EXTENDS ResultExtraction, TLC

LOCAL INSTANCE SequencesExt

CONSTANTS e1, e2, e3, f1, f2, f3

MCWanted     == {e1, e3}
MCFloodCells == {f1, f2}

\* f3 is a cell of the grid only; the cells lie on a lattice with a hole.
MCPlace == (f1 :> [x |-> 397199, y |-> 492500]) @@ (f2 :> [x |-> 397199, y |-> 492750])
           @@ (f3 :> [x |-> 397449, y |-> 492750])

\* HYCHAN.OUT with series of n rows of which the step without has no number.
Hychan(n, without) ==
  FlattenSeq([i \in 1 .. 3 |->
    LET e == <<e1, e2, e3>>[i] IN
    <<Heading(e), Text>>
      \o [s \in 1 .. n |-> Row(e, s - 1, IF s - 1 = without THEN "none" ELSE "number")]
      \o <<Text>>])

\* It may end after any line, in one of its rows, too.
CutRow(line) == IF line.kind = "row" THEN [line EXCEPT !.value = "short"] ELSE line
EndsOf(file) ==
  {SubSeq(file, 1, k) : k \in 0 .. Len(file)} \cup
  {Append(SubSeq(file, 1, k - 1), CutRow(file[k])) : k \in DOMAIN file}

\* BASE.OUT; the cells flooded are listed, f2 only in the second step.
Base == <<Time(0), Levels({f1, f3}), Channels, Time(1), Levels({f1, f2, f3}), Channels>>

Input(program, counted, valued, flooded, base, model, zone) ==
  [program |-> program, counted |-> counted, valued |-> valued, flooded |-> flooded,
   base |-> base, model |-> model, zone |-> zone]

\* Complete files, at all hours and in three zones.
Clocks ==
  {Input(p, Hychan(n, w), Hychan(n, w), Base, b, m, z) :
     p \in {"level", "discharge"}, n \in 1 .. 4, w \in -1 .. 3,
     b \in 2 .. 3, m \in 2 .. 5, z \in -1 .. 1}

\* Both passes over a file that ends anywhere.
Cuts ==
  {Input(p, f, f, Base, 2, 2, 0) : p \in {"level", "discharge"}, f \in EndsOf(Hychan(2, -1))}

\* The passes meet files of different runs.
Mixes ==
  {Input("level", f, g, Base, 2, 2, 0) :
     f \in {Hychan(n, -1) : n \in 1 .. 3}, g \in EndsOf(Hychan(2, -1))}

\* BASE.OUT ends anywhere; the model state is at either step or after both.
Floods ==
  {Input(p, Hychan(1, -1), Hychan(1, -1), f, 2, m, 0) :
     p \in {"level", "grid"}, f \in {SubSeq(Base, 1, k) : k \in 0 .. Len(Base)}, m \in 2 .. 4}

MCInputs == Clocks \cup Cuts \cup Mixes \cup Floods
=============================================================================
