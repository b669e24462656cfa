------------------------------- MODULE CellGrid -------------------------------
(***************************************************************************)
(* LIBFLO2DWATERLEVELGRID.py: where a FLO2D cell lies in the ESRI grid of  *)
(* water levels.  CADPTS.DAT gives each cell a position in metres, all of  *)
(* them whole numbers; the grid's squares have sides of 250 m.             *)
(***************************************************************************)
EXTENDS Integers, FiniteSetsExt

Gap == 250

\* The smallest rectangle around the positions p.
GridBoundary(p) ==
  [x_min |-> Min({p[c].x : c \in DOMAIN p}), x_max |-> Max({p[c].x : c \in DOMAIN p}),
   y_min |-> Min({p[c].y : c \in DOMAIN p}), y_max |-> Max({p[c].y : c \in DOMAIN p})]

\* Rounded up, and one more.
Squares(width) == (width + Gap - 1) \div Gap + 1
Columns(b) == Squares(b.x_max - b.x_min)
Rows(b)    == Squares(b.y_max - b.y_min)

\* Columns count from the west, rows from the north.
Square(b, pos) ==
  LET i == (pos.x - b.x_min) \div Gap
      j == (pos.y - b.y_min) \div Gap
  IN  <<i, Rows(b) - j - 1>>

\* The grid of the levels of some cells at the positions p; missing elsewhere.
EsriGrid(level, p, missing) ==
  LET b == GridBoundary(p)
      at(i, j) == {c \in DOMAIN level : Square(b, p[c]) = <<i, j>>}
  IN  [sq \in (0 .. Columns(b) - 1) \X (0 .. Rows(b) - 1) |->
         IF at(sq[1], sq[2]) = {} THEN missing
         ELSE level[CHOOSE c \in at(sq[1], sq[2]) : TRUE]]
=============================================================================
