------------------------ MODULE ResultExtractionProofs ------------------------
(***************************************************************************)
(* Theorems about CellGrid, for every set of cells and every rectangle     *)
(* around them, and about ResultExtraction, for files of any length that   *)
(* end anywhere, any cells and any times.                                  *)
(***************************************************************************)
EXTENDS ResultExtraction, SubsequenceLemmas, FiniteSetTheorems, SequenceTheorems

-----------------------------------------------------------------------------
(* The square of a cell.                                                   *)

Boundary == [x_min : Int, x_max : Int, y_min : Int, y_max : Int]
Position == [x : Int, y : Int]

Encloses(b, point) ==
  b.x_min <= point.x /\ point.x <= b.x_max /\ b.y_min <= point.y /\ point.y <= b.y_max

\* An offset within a width falls into one of its squares.
LEMMA SquareOf ==
  ASSUME NEW width \in Int, NEW offset \in Int, 0 <= offset, offset <= width
  PROVE  offset \div Gap \in 0 .. Squares(width) - 1
BY DEF Gap, Squares

\* Offsets that are a gap apart fall into different squares.
LEMMA SquaresApart ==
  ASSUME NEW a \in Int, NEW b \in Int, a + Gap <= b
  PROVE  a \div Gap < b \div Gap
BY DEF Gap

\* The square of a cell lies in the grid: getEsriGrid never indexes outside its
\* rows and columns, and the first row is the northernmost.
THEOREM SquareInGrid ==
  ASSUME NEW b \in Boundary, NEW point \in Position, Encloses(b, point)
  PROVE  Square(b, point) \in (0 .. Columns(b) - 1) \X (0 .. Rows(b) - 1)
<1> DEFINE i == (point.x - b.x_min) \div Gap
           j == (point.y - b.y_min) \div Gap
<1>1. /\ b.x_min \in Int /\ b.x_max \in Int /\ b.y_min \in Int /\ b.y_max \in Int
      /\ point.x \in Int /\ point.y \in Int
  BY DEF Boundary, Position
<1>2. i \in 0 .. Columns(b) - 1
  BY <1>1, SquareOf DEF Encloses, Columns
<1>3. j \in 0 .. Rows(b) - 1
  BY <1>1, SquareOf DEF Encloses, Rows
<1>4. Rows(b) \in Int
  BY <1>1 DEF Rows, Squares, Gap
<1>5. Rows(b) - j - 1 \in 0 .. Rows(b) - 1
  BY <1>3, <1>4
<1>6. QED  BY <1>2, <1>5 DEF Square

\* Cells that are at least a gap apart, west to east or south to north, have
\* squares of their own: no level overwrites another in a grid file.
THEOREM NoCellHidden ==
  ASSUME NEW b \in Boundary, NEW p \in Position, NEW q \in Position,
         p.x + Gap <= q.x \/ p.y + Gap <= q.y
  PROVE  Square(b, p) # Square(b, q)
<1>1. /\ b.x_min \in Int /\ b.y_min \in Int /\ b.x_max \in Int /\ b.y_max \in Int
      /\ p.x \in Int /\ p.y \in Int /\ q.x \in Int /\ q.y \in Int
  BY DEF Boundary, Position
<1>2. CASE p.x + Gap <= q.x
  <2>1. (p.x - b.x_min) \div Gap < (q.x - b.x_min) \div Gap
    BY <1>1, <1>2, SquaresApart DEF Gap
  <2>2. (p.x - b.x_min) \div Gap \in Int /\ (q.x - b.x_min) \div Gap \in Int
    BY <1>1 DEF Gap
  <2>3. QED  BY <2>1, <2>2 DEF Square
<1>3. CASE p.y + Gap <= q.y
  <2> DEFINE j == (p.y - b.y_min) \div Gap
             k == (q.y - b.y_min) \div Gap
  <2>1. j < k
    BY <1>1, <1>3, SquaresApart DEF Gap
  <2>2. j \in Int /\ k \in Int /\ Rows(b) \in Int
    BY <1>1 DEF Gap, Rows, Squares
  <2>3. Rows(b) - j - 1 # Rows(b) - k - 1
    <3> HIDE DEF j, k
    <3>1. QED  BY <2>1, <2>2
  <2>4. QED  BY <2>3 DEF Square
<1>4. QED  BY <1>2, <1>3
-----------------------------------------------------------------------------
(* The rectangle around the cells.  getGridBoudary begins with 10^9 and 0,  *)
(* so the positions lie between some such limits.                           *)

LEMMA MinOf ==
  ASSUME NEW S, NEW limit \in Nat, S \subseteq 0 .. limit, S # {}
  PROVE  Min(S) \in S /\ \A y \in S : Min(S) <= y
<1> DEFINE R == {ss \in Nat \X Nat : ss[1] < ss[2]}
<1>1. IsWellFoundedOn(R, Nat)
  BY NatLessThanWellFounded DEF OpToRel
<1>2. \E x \in S : \A y \in S : ~(<<y, x>> \in R)
  <2> HIDE DEF R
  <2>1. S \subseteq Nat
    OBVIOUS
  <2>2. QED  BY <1>1, <2>1, WFMin
<1>3. PICK x \in S : \A y \in S : ~(<<y, x>> \in R)
  BY <1>2
<1>4. ASSUME NEW y \in S PROVE x <= y
  <2>1. x \in Nat /\ y \in Nat
    OBVIOUS
  <2>2. ~(y < x)
    BY <1>3, <2>1
  <2>3. QED  BY <2>1, <2>2
<1>5. QED  BY <1>4 DEF Min

LEMMA MaxOf ==
  ASSUME NEW S, NEW limit \in Nat, S \subseteq 0 .. limit, S # {}
  PROVE  Max(S) \in S /\ \A y \in S : y <= Max(S)
<1> DEFINE T == {limit - y : y \in S}
<1>1. T \subseteq 0 .. limit /\ T # {}
  <2>1. \A y \in S : y \in 0 .. limit /\ limit - y \in 0 .. limit
    OBVIOUS
  <2>2. T \subseteq 0 .. limit
    BY <2>1
  <2>3. PICK y \in S : TRUE
    OBVIOUS
  <2>4. limit - y \in T
    BY <2>3
  <2>5. QED  BY <2>2, <2>4
<1>2. Min(T) \in T /\ \A y \in T : Min(T) <= y
  BY <1>1, MinOf
<1>3. PICK x \in S : Min(T) = limit - x
  BY <1>2
<1>4. ASSUME NEW y \in S PROVE x >= y
  <2>1. limit - x <= limit - y
    BY <1>2, <1>3
  <2>2. x \in Int /\ y \in Int
    OBVIOUS
  <2>3. QED  BY <2>1, <2>2
<1>5. Max(S) \in S /\ \A y \in S : Max(S) >= y
  BY <1>4 DEF Max
<1>6. QED  BY <1>5

LEMMA Enclosed ==
  ASSUME NEW p, NEW limit \in Nat, DOMAIN p # {},
         \A c \in DOMAIN p : p[c] \in Position /\ p[c].x \in 0 .. limit /\ p[c].y \in 0 .. limit
  PROVE  /\ GridBoundary(p) \in Boundary
         /\ \A c \in DOMAIN p : Encloses(GridBoundary(p), p[c])
<1> DEFINE X == {p[c].x : c \in DOMAIN p}
           Y == {p[c].y : c \in DOMAIN p}
           b == GridBoundary(p)
<1>1. X \subseteq 0 .. limit /\ X # {} /\ Y \subseteq 0 .. limit /\ Y # {}
  OBVIOUS
<1>2. Min(X) \in X /\ \A y \in X : Min(X) <= y
  BY <1>1, MinOf
<1>3. Max(X) \in X /\ \A y \in X : y <= Max(X)
  BY <1>1, MaxOf
<1>4. Min(Y) \in Y /\ \A y \in Y : Min(Y) <= y
  BY <1>1, MinOf
<1>5. Max(Y) \in Y /\ \A y \in Y : y <= Max(Y)
  BY <1>1, MaxOf
<1>6. b = [x_min |-> Min(X), x_max |-> Max(X), y_min |-> Min(Y), y_max |-> Max(Y)]
  BY DEF GridBoundary
<1>7. b \in Boundary
  <2>1. Min(X) \in Int /\ Max(X) \in Int /\ Min(Y) \in Int /\ Max(Y) \in Int
    BY <1>1, <1>2, <1>3, <1>4, <1>5
  <2>2. QED  BY <1>6, <2>1 DEF Boundary
<1>8. ASSUME NEW c \in DOMAIN p PROVE Encloses(b, p[c])
  <2>1. p[c].x \in X /\ p[c].y \in Y
    OBVIOUS
  <2>2. QED  BY <1>2, <1>3, <1>4, <1>5, <1>6, <2>1 DEF Encloses
<1>9. QED  BY <1>7, <1>8

\* The rectangle that getGridBoudary finds holds every cell, so the square of
\* every cell lies in the grid.
THEOREM CellsInGrid ==
  ASSUME NEW p, NEW limit \in Nat, DOMAIN p # {},
         \A c \in DOMAIN p : p[c] \in Position /\ p[c].x \in 0 .. limit /\ p[c].y \in 0 .. limit
  PROVE  LET b == GridBoundary(p) IN
         \A c \in DOMAIN p :
           Square(b, p[c]) \in (0 .. Columns(b) - 1) \X (0 .. Rows(b) - 1)
<1>1. /\ GridBoundary(p) \in Boundary
      /\ \A c \in DOMAIN p : Encloses(GridBoundary(p), p[c])
  BY Enclosed
<1>2. QED  BY <1>1, SquareInGrid

-----------------------------------------------------------------------------
(* The days of a series.                                                   *)

\* A sequence is what comes before its last element, and that element.
LEMMA LastAppended ==
  ASSUME NEW X, NEW m \in Nat, NEW f \in [1 .. m + 1 -> X]
  PROVE  f = Append([k \in 1 .. m |-> f[k]], f[m + 1])
<1> DEFINE q == [k \in 1 .. m |-> f[k]]
<1>1. q \in Seq(X) /\ Len(q) = m /\ f \in Seq(X) /\ Len(f) = m + 1 /\ f[m + 1] \in X
  <2>1. q \in [1 .. m -> X] /\ f[m + 1] \in X
    OBVIOUS
  <2> HIDE DEF q
  <2>2. q \in Seq(X) /\ f \in Seq(X)
    BY <2>1
  <2>3. QED  BY <2>1, <2>2
<1>2. \A k \in 1 .. m : q[k] = f[k]
  OBVIOUS
<1> HIDE DEF q
<1>3. Append(q, f[m + 1]) \in Seq(X) /\ Len(Append(q, f[m + 1])) = Len(f)
  BY <1>1
<1>4. \A k \in 1 .. Len(f) : Append(q, f[m + 1])[k] = f[k]
  BY <1>1, <1>2
<1>5. Append(q, f[m + 1]) = f
  BY <1>1, <1>3, <1>4, SeqEqual
<1>6. QED  BY <1>5 DEF q

\* A time is on the day whose midnight is behind it, and days follow times.
LEMMA DayOrder ==
  /\ \A t \in Int : Day(t) \in Int
  /\ \A t, d \in Int : t >= d * DayLength <=> Day(t) >= d
  /\ \A t, u \in Int : t <= u => Day(t) <= Day(u)
<1>1. DayLength \in Nat \ {0}
  BY DayAssumption
<1>2. ASSUME NEW t \in Int
      PROVE  /\ Day(t) \in Int
             /\ Day(t) * DayLength <= t /\ t < Day(t) * DayLength + DayLength
  BY <1>1 DEF Day
<1>3. ASSUME NEW a \in Int, NEW b \in Int, a <= b
      PROVE  a * DayLength <= b * DayLength
  BY <1>1, <1>3
<1>4. ASSUME NEW a \in Int, NEW b \in Int, a < b
      PROVE  a * DayLength + DayLength <= b * DayLength
  BY <1>1, <1>4
<1>5. \A a \in Int : a * DayLength \in Int
  BY <1>1
<1>6. ASSUME NEW t \in Int, NEW d \in Int
      PROVE  t >= d * DayLength <=> Day(t) >= d
  <2>1. /\ Day(t) \in Int /\ Day(t) * DayLength \in Int /\ d * DayLength \in Int
        /\ Day(t) * DayLength <= t /\ t < Day(t) * DayLength + DayLength
    BY <1>2, <1>5
  <2>2. Day(t) >= d => d * DayLength <= Day(t) * DayLength
    BY <1>3, <2>1
  <2>3. Day(t) < d => Day(t) * DayLength + DayLength <= d * DayLength
    BY <1>4, <2>1
  <2>4. QED  BY <1>1, <2>1, <2>2, <2>3
<1>7. ASSUME NEW t \in Int, NEW u \in Int, t <= u
      PROVE  Day(t) <= Day(u)
  <2>1. u >= Day(t) * DayLength
    BY <1>2, <1>5, <1>7
  <2>2. QED  BY <1>2, <1>6, <2>1
<1>8. QED  BY <1>2, <1>6, <1>7

\* The days of increasing times come in order.
LEMMA RowsByDay ==
  ASSUME NEW ts \in Seq(Int)
  PROVE  /\ Len(ts) \in Nat /\ DOMAIN ts = 1 .. Len(ts)
         /\ \A i \in 1 .. Len(ts) : ts[i] \in Int /\ Day(ts[i]) \in Int
         /\ Increasing(ts) =>
              \A i, j \in 1 .. Len(ts) : i <= j => ts[i] <= ts[j] /\ Day(ts[i]) <= Day(ts[j])
<1>1. Len(ts) \in Nat /\ DOMAIN ts = 1 .. Len(ts) /\ \A i \in 1 .. Len(ts) : ts[i] \in Int
  OBVIOUS
<1>2. \A t \in Int : Day(t) \in Int
  BY DayOrder
<1>3. \A t, u \in Int : t <= u => Day(t) <= Day(u)
  BY DayOrder
<1>4. ASSUME Increasing(ts), NEW i \in 1 .. Len(ts), NEW j \in 1 .. Len(ts), i <= j
      PROVE  ts[i] <= ts[j]
  <2>1. CASE i = j
    BY <1>1, <2>1
  <2>2. CASE i < j
    <3>1. ts[i] < ts[j]
      BY <1>1, <1>4, <2>2 DEF Increasing
    <3>2. QED  BY <1>1, <3>1
  <2>3. QED  BY <1>4, <2>1, <2>2
<1>5. QED  BY <1>1, <1>2, <1>3, <1>4

\* The loop over the rows is what its equations say.
LEMMA GroupedSteps ==
  ASSUME NEW ts, Len(ts) \in Nat
  PROVE  /\ Grouped(ts)[0] = [day |-> Day(ts[1]), group |-> << >>, groups |-> << >>]
         /\ \A i \in 1 .. Len(ts) : Grouped(ts)[i] = NextRow(Grouped(ts)[i - 1], ts[i])
<1> DEFINE first == [day |-> Day(ts[1]), group |-> << >>, groups |-> << >>]
           Turn(i, last) == NextRow(last, ts[i])
           Computes(n, f) == f = [i \in 0 .. n |-> IF i = 0 THEN first ELSE Turn(i, f[i - 1])]
           T == {n \in 0 .. Len(ts) : \E f : Computes(n, f)}
<1> HIDE DEF first, Turn
<1>1. 0 \in T
  <2>1. Computes(0, [i \in 0 .. 0 |-> first])
    OBVIOUS
  <2>2. \E f : Computes(0, f)
    BY <2>1
  <2> HIDE DEF Computes
  <2>3. QED  BY <2>2
<1>2. ASSUME NEW n \in 0 .. Len(ts) - 1, n \in T
      PROVE  n + 1 \in T
  <2>1. PICK f : Computes(n, f)
    BY <1>2
  <2> DEFINE g == [i \in 0 .. n + 1 |-> IF i = n + 1 THEN Turn(n + 1, f[n]) ELSE f[i]]
  <2>2. \A i \in 0 .. n : g[i] = f[i]
    OBVIOUS
  <2>3. \A i \in 1 .. n + 1 : g[i] = Turn(i, g[i - 1])
    <3> TAKE i \in 1 .. n + 1
    <3>1. CASE i = n + 1
      BY <3>1, <2>2
    <3>2. CASE i # n + 1
      <4>1. i \in 0 .. n /\ i # 0 /\ i - 1 \in 0 .. n
        BY <3>2
      <4>2. f[i] = Turn(i, f[i - 1])
        BY <2>1, <4>1
      <4>3. QED  BY <4>1, <4>2, <2>2
    <3>3. QED  BY <3>1, <3>2
  <2>4. g[0] = first
    BY <2>1
  <2>5. Computes(n + 1, g)
    <3>1. g = [i \in 0 .. n + 1 |-> g[i]]
      OBVIOUS
    <3> HIDE DEF g
    <3>2. \A i \in 0 .. n + 1 : i = 0 \/ i \in 1 .. n + 1
      OBVIOUS
    <3>3. \A i \in 0 .. n + 1 : g[i] = IF i = 0 THEN first ELSE Turn(i, g[i - 1])
      BY <2>3, <2>4, <3>2
    <3>4. QED  BY <3>1, <3>3
  <2>6. \E h : Computes(n + 1, h)
    BY <2>5
  <2> HIDE DEF Computes
  <2>7. QED  BY <2>6
<1>3. Len(ts) \in T
  <2> HIDE DEF T
  <2>1. 0 .. Len(ts) \subseteq T
    BY <1>1, <1>2, UpTo
  <2>2. QED  BY <2>1
<1>4. PICK f : Computes(Len(ts), f)
  BY <1>3
<1>5. Computes(Len(ts), Grouped(ts))
  BY <1>4 DEF Grouped, Turn, first
<1>6. \A i \in 0 .. Len(ts) :
        Grouped(ts)[i] = IF i = 0 THEN first ELSE Turn(i, Grouped(ts)[i - 1])
  BY <1>5
<1>7. QED  BY <1>6 DEF Turn, first

\* The rows of day d among the first n.
OnDay(ts, d)     == {t \in Range(ts) : Day(t) = d}
DayUpTo(ts, d, n) == KeptUpTo(ts, OnDay(ts, d))[n]

LEMMA DaySteps ==
  ASSUME NEW ts \in Seq(Int), NEW d
  PROVE  /\ DayUpTo(ts, d, 0) = << >>
         /\ \A n \in 1 .. Len(ts) :
              DayUpTo(ts, d, n) = IF Day(ts[n]) = d THEN Append(DayUpTo(ts, d, n - 1), ts[n])
                                  ELSE DayUpTo(ts, d, n - 1)
<1>1. \A n \in 1 .. Len(ts) : ts[n] \in OnDay(ts, d) <=> Day(ts[n]) = d
  BY DEF OnDay, Range
<1>2. Len(ts) \in Nat
  OBVIOUS
<1>3. QED  BY <1>1, <1>2, KeptSteps DEF DayUpTo

\* Before its first row there is nothing of a day.
LEMMA DayToCome ==
  ASSUME NEW ts \in Seq(Int), NEW d, NEW n \in 0 .. Len(ts), \A i \in 1 .. n : Day(ts[i]) # d
  PROVE  DayUpTo(ts, d, n) = << >>
<1>1. \A i \in 0 + 1 .. n : ts[i] \notin OnDay(ts, d)
  BY DEF OnDay
<1>2. 0 \in 0 .. Len(ts) /\ n \in 0 .. Len(ts) /\ Len(ts) \in Nat
  OBVIOUS
<1>3. DayUpTo(ts, d, n) = DayUpTo(ts, d, 0)
  BY <1>1, <1>2, KeptNone DEF DayUpTo
<1>4. QED  BY <1>3, DaySteps

\* A day that has rows has one in the sequence.
LEMMA DayHasRow ==
  ASSUME NEW ts \in Seq(Int), NEW d, RowsOn(ts, d) # << >>
  PROVE  \E i \in 1 .. Len(ts) : Day(ts[i]) = d
<1>1. SUFFICES ASSUME \A i \in 1 .. Len(ts) : Day(ts[i]) # d PROVE FALSE
  OBVIOUS
<1>2. Len(ts) \in 0 .. Len(ts)
  OBVIOUS
<1>3. DayUpTo(ts, d, Len(ts)) = << >>
  BY <1>1, <1>2, DayToCome
<1>4. QED  BY <1>3 DEF DayUpTo, OnDay, RowsOn, Kept

\* When n rows are behind, the group holds those of the day of the last one, and
\* the closed groups are the days before.
LEMMA GroupsSoFar ==
  ASSUME NEW ts \in Seq(Int), Increasing(ts), ts # << >>,
         \A d \in Day(ts[1]) .. Day(ts[Len(ts)]) : RowsOn(ts, d) # << >>
  PROVE  \A n \in 1 .. Len(ts) :
           Grouped(ts)[n] =
             [day |-> Day(ts[n]),
              group |-> DayUpTo(ts, Day(ts[n]), n),
              groups |-> [k \in 1 .. Day(ts[n]) - Day(ts[1]) |->
                            DayUpTo(ts, Day(ts[1]) + k - 1, n)]]
<1> DEFINE D(n) == Day(ts[n])
           Closed(n) == [k \in 1 .. D(n) - D(1) |-> DayUpTo(ts, D(1) + k - 1, n)]
           Acc(n) == [day |-> D(n), group |-> DayUpTo(ts, D(n), n), groups |-> Closed(n)]
           g == Grouped(ts)
           T == {n \in 0 .. Len(ts) : n = 0 \/ g[n] = Acc(n)}
<1>1. Len(ts) \in Nat /\ 1 \in 1 .. Len(ts) /\ Len(ts) \in 1 .. Len(ts)
  OBVIOUS
<1>2. /\ \A n \in 1 .. Len(ts) : ts[n] \in Int /\ D(n) \in Int
      /\ \A m, n \in 1 .. Len(ts) : m <= n => D(m) <= D(n)
  BY RowsByDay
<1>3. /\ g[0] = [day |-> D(1), group |-> << >>, groups |-> << >>]
      /\ \A n \in 1 .. Len(ts) : g[n] = NextRow(g[n - 1], ts[n])
  BY <1>1, GroupedSteps
<1>4. /\ \A d : DayUpTo(ts, d, 0) = << >>
      /\ \A d : \A n \in 1 .. Len(ts) :
           DayUpTo(ts, d, n) = IF D(n) = d THEN Append(DayUpTo(ts, d, n - 1), ts[n])
                               ELSE DayUpTo(ts, d, n - 1)
  BY DaySteps
<1> HIDE DEF g
<1>5. g[1] = Acc(1)
  <2>1. g[1] = NextRow(g[0], ts[1])
    BY <1>1, <1>3
  <2>2. g[1] = [day |-> D(1), group |-> Append(<< >>, ts[1]), groups |-> << >>]
    BY <1>3, <2>1 DEF NextRow
  <2>3. DayUpTo(ts, D(1), 1) = Append(<< >>, ts[1])
    <3>1. 1 - 1 = 0
      OBVIOUS
    <3>2. \A d : d = D(1) => DayUpTo(ts, d, 1) = Append(DayUpTo(ts, d, 0), ts[1])
      <4> TAKE d
      <4>1. DayUpTo(ts, d, 1) = IF D(1) = d THEN Append(DayUpTo(ts, d, 1 - 1), ts[1])
                                ELSE DayUpTo(ts, d, 1 - 1)
        BY <1>1, <1>4, Zenon
      <4>2. QED  BY <3>1, <4>1
    <3>3. QED  BY <1>4, <3>2
  <2>4. Closed(1) = << >>
    <3>1. D(1) - D(1) = 0
      BY <1>1, <1>2
    <3>2. QED  BY <3>1
  <2> HIDE DEF D, Closed
  <2>5. QED  BY <2>2, <2>3, <2>4
<1>6. ASSUME NEW n \in 1 .. Len(ts) - 1, g[n] = Acc(n)
      PROVE  g[n + 1] = Acc(n + 1)
  <2>1. n \in 1 .. Len(ts) /\ n + 1 \in 1 .. Len(ts) /\ (n + 1) - 1 = n /\ n <= n + 1
    OBVIOUS
  <2>2. g[n + 1] = NextRow(Acc(n), ts[n + 1])
    <3> HIDE DEF Acc
    <3>1. QED  BY <1>3, <1>6, <2>1
  <2>3. D(1) \in Int /\ D(n) \in Int /\ D(n + 1) \in Int /\ D(1) <= D(n) /\ D(n) <= D(n + 1)
    BY <1>1, <1>2, <2>1
  <2>4. \A d : DayUpTo(ts, d, n + 1) = IF D(n + 1) = d THEN Append(DayUpTo(ts, d, n), ts[n + 1])
                                       ELSE DayUpTo(ts, d, n)
    <3> HIDE DEF D
    <3> TAKE d
    <3>1. DayUpTo(ts, d, n + 1) = IF D(n + 1) = d
                                  THEN Append(DayUpTo(ts, d, (n + 1) - 1), ts[n + 1])
                                  ELSE DayUpTo(ts, d, (n + 1) - 1)
      BY <1>4, <2>1, Zenon
    <3>2. QED  BY <2>1, <3>1, Zenon
  <2>5. CASE D(n + 1) = D(n)
    <3>1. g[n + 1] = [Acc(n) EXCEPT !.group = Append(@, ts[n + 1])]
      BY <2>2, <2>5 DEF NextRow
    <3>2. DayUpTo(ts, D(n + 1), n + 1) = Append(DayUpTo(ts, D(n), n), ts[n + 1])
      BY <2>4, <2>5
    <3>3. Closed(n + 1) = Closed(n)
      <4>1. \A k \in 1 .. D(n) - D(1) : D(1) + k - 1 # D(n + 1)
        BY <2>3
      <4> HIDE DEF D
      <4>2. \A k \in 1 .. D(n) - D(1) :
              DayUpTo(ts, D(1) + k - 1, n + 1) = DayUpTo(ts, D(1) + k - 1, n)
        BY <2>4, <4>1
      <4>3. QED  BY <2>5, <4>2
    <3> HIDE DEF D, Closed
    <3>4. QED  BY <2>5, <3>1, <3>2, <3>3
  <2>6. CASE D(n + 1) # D(n)
    <3>1. D(n + 1) = D(n) + 1
      <4>1. SUFFICES ASSUME D(n) + 1 < D(n + 1) PROVE FALSE
        BY <2>3, <2>6
      <4>2. D(n + 1) <= D(Len(ts))
        BY <1>1, <1>2, <2>1
      <4>3. D(n) + 1 \in D(1) .. D(Len(ts))
        <5>1. D(Len(ts)) \in Int
          BY <1>1, <1>2
        <5> HIDE DEF D
        <5>2. QED  BY <2>3, <4>1, <4>2, <5>1
      <4>4. PICK i \in 1 .. Len(ts) : D(i) = D(n) + 1
        BY <4>3, DayHasRow
      <4>5. i <= n \/ n + 1 <= i
        OBVIOUS
      <4>6. QED  BY <1>2, <2>1, <2>3, <4>1, <4>4, <4>5
    <3>2. g[n + 1] = [day |-> D(n + 1), group |-> <<ts[n + 1]>>,
                      groups |-> Append(Closed(n), DayUpTo(ts, D(n), n))]
      BY <2>2, <2>6 DEF NextRow
    <3>3. DayUpTo(ts, D(n + 1), n + 1) = <<ts[n + 1]>>
      <4>1. \A i \in 1 .. n : D(i) # D(n + 1)
        <5> TAKE i \in 1 .. n
        <5>1. i \in 1 .. Len(ts) /\ i <= n
          OBVIOUS
        <5>2. D(i) <= D(n) /\ D(i) \in Int
          BY <1>2, <2>1, <5>1
        <5>3. QED  BY <2>3, <3>1, <5>2
      <4>2. DayUpTo(ts, D(n + 1), n) = << >>
        <5>1. n \in 0 .. Len(ts)
          OBVIOUS
        <5>2. QED  BY <4>1, <5>1, DayToCome
      <4>3. DayUpTo(ts, D(n + 1), n + 1) = Append(<< >>, ts[n + 1])
        BY <2>4, <4>2
      <4>4. Append(<< >>, ts[n + 1]) = <<ts[n + 1]>>
        BY <1>2, <2>1
      <4>5. QED  BY <4>3, <4>4
    <3>4. Closed(n + 1) = Append(Closed(n), DayUpTo(ts, D(n), n))
      <4> DEFINE m == D(n) - D(1)
                 X == {DayUpTo(ts, D(1) + k - 1, n) : k \in 1 .. m + 1}
                 all == [k \in 1 .. m + 1 |-> DayUpTo(ts, D(1) + k - 1, n)]
      <4>1. m \in Nat /\ D(n + 1) - D(1) = m + 1 /\ D(1) + (m + 1) - 1 = D(n)
        <5> HIDE DEF D
        <5>1. QED  BY <2>3, <3>1
      <4>2. \A k \in 1 .. m + 1 : D(1) + k - 1 # D(n + 1)
        BY <2>3, <3>1
      <4>3. Closed(n + 1) = all
        <5> HIDE DEF D
        <5>1. \A k \in 1 .. m + 1 :
                DayUpTo(ts, D(1) + k - 1, n + 1) = DayUpTo(ts, D(1) + k - 1, n)
          BY <2>4, <4>2
        <5>2. QED  BY <4>1, <5>1
      <4>4. all \in [1 .. m + 1 -> X]
        OBVIOUS
      <4>5. [k \in 1 .. m |-> all[k]] = Closed(n)
        <5>1. \A k \in 1 .. m : k \in 1 .. m + 1
          BY <4>1
        <5> HIDE DEF D
        <5>2. QED  BY <5>1
      <4>6. all[m + 1] = DayUpTo(ts, D(n), n)
        <5>1. m + 1 \in 1 .. m + 1
          BY <4>1
        <5> HIDE DEF m
        <5>2. all[m + 1] = DayUpTo(ts, D(1) + (m + 1) - 1, n)
          BY <5>1
        <5> HIDE DEF all
        <5>3. QED  BY <4>1, <5>2
      <4> HIDE DEF m, X, all, Closed, D
      <4>7. all = Append([k \in 1 .. m |-> all[k]], all[m + 1])
        BY <4>1, <4>4, LastAppended
      <4>8. QED  BY <4>3, <4>5, <4>6, <4>7
    <3> HIDE DEF D, Closed
    <3>5. QED  BY <3>2, <3>3, <3>4
  <2>7. QED  BY <2>5, <2>6
<1> HIDE DEF Acc
<1>7. 0 \in T
  OBVIOUS
<1>8. ASSUME NEW n \in 0 .. Len(ts) - 1, n \in T
      PROVE  n + 1 \in T
  <2>1. n + 1 \in 0 .. Len(ts)
    OBVIOUS
  <2>2. CASE n = 0
    BY <1>5, <2>1, <2>2
  <2>3. CASE n # 0
    BY <1>6, <1>8, <2>1, <2>3
  <2>4. QED  BY <2>2, <2>3
<1> HIDE DEF T
<1>9. 0 .. Len(ts) \subseteq T
  BY <1>1, <1>7, <1>8, UpTo
<1>10. \A n \in 1 .. Len(ts) : g[n] = Acc(n)
  BY <1>9 DEF T
<1>11. QED  BY <1>10 DEF Acc, g

\* The groups are the days, and the last one is not closed.
LEMMA DaysOfSeries ==
  ASSUME NEW ts \in Seq(Int), Increasing(ts), ts # << >>,
         \A d \in Day(ts[1]) .. Day(ts[Len(ts)]) : RowsOn(ts, d) # << >>
  PROVE  InDays(ts) = [k \in 1 .. Day(ts[Len(ts)]) - Day(ts[1]) |-> RowsOn(ts, Day(ts[1]) + k - 1)]
<1>1. Len(ts) \in 1 .. Len(ts)
  OBVIOUS
<1>2. \A d : DayUpTo(ts, d, Len(ts)) = RowsOn(ts, d)
  BY DEF DayUpTo, RowsOn, Kept, OnDay
<1>3. Grouped(ts)[Len(ts)].groups =
        [k \in 1 .. Day(ts[Len(ts)]) - Day(ts[1]) |-> DayUpTo(ts, Day(ts[1]) + k - 1, Len(ts))]
  <2> DEFINE D == Day(ts[1])
             G(n) == [k \in 1 .. Day(ts[n]) - D |-> DayUpTo(ts, D + k - 1, n)]
  <2>1. \A n \in 1 .. Len(ts) :
          Grouped(ts)[n] = [day |-> Day(ts[n]), group |-> DayUpTo(ts, Day(ts[n]), n),
                            groups |-> G(n)]
    BY GroupsSoFar
  <2>2. Grouped(ts)[Len(ts)].groups = G(Len(ts))
    <3> DEFINE n == Len(ts)
    <3> HIDE DEF D, G, n
    <3>1. Grouped(ts)[n] = [day |-> Day(ts[n]), group |-> DayUpTo(ts, Day(ts[n]), n),
                            groups |-> G(n)]
      BY <1>1, <2>1 DEF n
    <3>2. Grouped(ts)[n].groups = G(n)
      BY <3>1
    <3>3. QED  BY <3>2 DEF n
  <2> HIDE DEF D, G
  <2>3. QED  BY <2>2 DEF G, D
<1>4. QED  BY <1>2, <1>3 DEF InDays

\* What FromMidnight leaves out is of the days before.
LEMMA MidnightOn ==
  ASSUME NEW ts \in Seq(Int), Increasing(ts), NEW d \in Int
  PROVE  /\ (\A i \in 1 .. Len(ts) : Day(ts[i]) < d) => FromMidnight(ts, d) = << >>
         /\ (\E i \in 1 .. Len(ts) : Day(ts[i]) >= d) =>
              \E m \in 1 .. Len(ts) :
                /\ FromMidnight(ts, d) = SubSeq(ts, m, Len(ts))
                /\ \A i \in 1 .. Len(ts) : Day(ts[i]) >= d <=> m <= i
<1> DEFINE later == {i \in DOMAIN ts : ts[i] >= d * DayLength}
           m == CHOOSE i \in later : \A j \in later : i <= j
<1>1. DOMAIN ts = 1 .. Len(ts) /\ \A i \in 1 .. Len(ts) : ts[i] \in Int /\ Day(ts[i]) \in Int
  BY RowsByDay
<1>2. \A i : i \in later <=> i \in 1 .. Len(ts) /\ Day(ts[i]) >= d
  BY <1>1, DayOrder
<1>3. FromMidnight(ts, d) = IF later = {} THEN << >> ELSE SubSeq(ts, m, Len(ts))
  BY DEF FromMidnight
<1> HIDE DEF later
<1>4. ASSUME \A i \in 1 .. Len(ts) : Day(ts[i]) < d
      PROVE  FromMidnight(ts, d) = << >>
  <2>1. later = {}
    BY <1>1, <1>2, <1>4
  <2>2. QED  BY <1>3, <2>1
<1>5. ASSUME \E i \in 1 .. Len(ts) : Day(ts[i]) >= d
      PROVE  /\ m \in 1 .. Len(ts)
             /\ FromMidnight(ts, d) = SubSeq(ts, m, Len(ts))
             /\ \A i \in 1 .. Len(ts) : Day(ts[i]) >= d <=> m <= i
  <2>1. later # {} /\ later \subseteq Nat
    BY <1>2, <1>5
  <2>2. m \in later /\ \A j \in later : m <= j
    <3>1. \E i \in later : \A j \in later : i <= j
      BY <2>1, Least
    <3>2. QED  BY <3>1
  <2> HIDE DEF m
  <2>3. m \in 1 .. Len(ts) /\ Day(ts[m]) >= d
    BY <1>2, <2>2
  <2>4. ASSUME NEW i \in 1 .. Len(ts), m <= i
        PROVE  Day(ts[i]) >= d
    <3>1. Day(ts[m]) <= Day(ts[i])
      BY <2>3, <2>4, RowsByDay
    <3>2. QED  BY <1>1, <2>3, <3>1
  <2>5. ASSUME NEW i \in 1 .. Len(ts), Day(ts[i]) >= d
        PROVE  m <= i
    BY <1>2, <2>2, <2>5
  <2>6. FromMidnight(ts, d) = SubSeq(ts, m, Len(ts))
    BY <1>3, <2>1
  <2>7. QED  BY <2>3, <2>4, <2>5, <2>6
<1>6. QED  BY <1>4, <1>5

LEMMA FirstLeads ==
  ASSUME NEW n \in Nat, NEW l \in 0 .. n, NEW X, NEW f \in [1 .. n -> X]
  PROVE  SubSeq(f, 1, l) = [k \in 1 .. l |-> f[k]]
<1>1. f \in Seq(X) /\ Len(f) = n
  OBVIOUS
<1>2. SubSeq(f, 1, l) \in Seq(X) /\ Len(SubSeq(f, 1, l)) = l
      /\ \A k \in 1 .. l : SubSeq(f, 1, l)[k] = f[k]
  BY <1>1
<1>3. DOMAIN SubSeq(f, 1, l) = 1 .. l
  BY <1>2
<1>4. SubSeq(f, 1, l) = [k \in DOMAIN SubSeq(f, 1, l) |-> SubSeq(f, 1, l)[k]]
  BY <1>2
<1>5. QED  BY <1>2, <1>3, <1>4

\* A series of increasing times with a row on each day from that of the forecast
\* to its last is cut into these days, whatever hour it begins at and however
\* many rows a day has; the last day, and those beyond the leads, are not stored.
THEOREM SlotsOfSeries ==
  ASSUME NEW ts \in Seq(Int), Increasing(ts), ts # << >>, NEW d \in Int,
         \A e \in d .. Day(ts[Len(ts)]) : RowsOn(ts, e) # << >>
  PROVE  LET days == Day(ts[Len(ts)]) - d IN
         SlotsOf(ts, d) = [k \in 1 .. (IF days < MaxLeads THEN days ELSE MaxLeads) |->
                             RowsOn(ts, d + k - 1)]
<1> DEFINE n == Len(ts)
           last == Day(ts[n])
           days == last - d
           all == InDays(FromMidnight(ts, d))
           leads == IF days < MaxLeads THEN days ELSE MaxLeads
<1>1. /\ n \in Nat /\ n \in 1 .. n /\ MaxLeads \in Nat
      /\ \A i \in 1 .. n : ts[i] \in Int /\ Day(ts[i]) \in Int
      /\ DOMAIN ts = 1 .. n
  <2>1. Len(ts) # 0
    OBVIOUS
  <2>2. QED  BY <2>1, DayAssumption, RowsByDay
<1>2. \A i, j \in 1 .. n : i <= j => ts[i] <= ts[j] /\ Day(ts[i]) <= Day(ts[j])
  BY RowsByDay
<1>3. CASE last < d
  <2>1. \A i \in 1 .. n : Day(ts[i]) < d
    BY <1>1, <1>2, <1>3
  <2>2. FromMidnight(ts, d) = << >>
    BY <2>1, MidnightOn
  <2>3. all = << >>
    BY <2>2 DEF InDays
  <2>4. SlotsOf(ts, d) = << >>
    BY <1>1, <2>3 DEF SlotsOf
  <2>5. leads < 1
    BY <1>1, <1>3
  <2> HIDE DEF leads
  <2>6. [k \in 1 .. leads |-> RowsOn(ts, d + k - 1)] = << >>
    <3>1. 1 .. leads = {}
      BY <1>1, <2>5 DEF leads
    <3>2. QED  BY <3>1
  <2>7. QED  BY <2>4, <2>6 DEF leads
<1>4. CASE last >= d
  <2>1. PICK m \in 1 .. n :
          /\ FromMidnight(ts, d) = SubSeq(ts, m, n)
          /\ \A i \in 1 .. n : Day(ts[i]) >= d <=> m <= i
    BY <1>1, <1>4, MidnightOn
  <2> DEFINE q == SubSeq(ts, m, n)
  <2>2. /\ q \in Seq(Int) /\ Len(q) = n - m + 1 /\ q # << >>
        /\ \A i \in 1 .. n - m + 1 : q[i] = ts[m + i - 1]
    <3>1. m \in Int /\ n \in Int /\ \A i \in m .. n : i \in 1 .. Len(ts)
      BY <1>1
    <3>2. q \in Seq(Int) /\ Len(q) = n - m + 1 /\ \A i \in 1 .. n - m + 1 : q[i] = ts[m + i - 1]
      BY <3>1
    <3>3. n - m + 1 # 0
      BY <1>1
    <3> HIDE DEF q
    <3>4. QED  BY <3>2, <3>3
  <2> HIDE DEF q
  <2>3. Increasing(q)
    <3> SUFFICES ASSUME NEW i \in 1 .. Len(q), NEW j \in 1 .. Len(q), i < j
                 PROVE  q[i] < q[j]
      <4>1. DOMAIN q = 1 .. Len(q)
        BY <2>2
      <4>2. QED  BY <4>1 DEF Increasing
    <3>1. m + i - 1 \in 1 .. n /\ m + j - 1 \in 1 .. n /\ m + i - 1 < m + j - 1
      BY <1>1, <2>2
    <3>2. q[i] = ts[m + i - 1] /\ q[j] = ts[m + j - 1]
      BY <2>2
    <3>3. ts[m + i - 1] < ts[m + j - 1]
      BY <1>1, <3>1 DEF Increasing
    <3>4. QED  BY <3>2, <3>3
  <2>4. q[Len(q)] = ts[n]
    <3>1. n - m + 1 \in 1 .. n - m + 1 /\ m + (n - m + 1) - 1 = n
      BY <1>1
    <3>2. q[n - m + 1] = ts[n]
      BY <2>2, <3>1
    <3>3. QED  BY <2>2, <3>2
  <2>5. q[1] = ts[m]
    <3>1. 1 \in 1 .. n - m + 1 /\ m + 1 - 1 = m
      BY <1>1
    <3>2. QED  BY <2>2, <3>1
  <2>6. \A e \in Int : e >= d => RowsOn(q, e) = RowsOn(ts, e)
    <3> TAKE e \in Int
    <3> HAVE e >= d
    <3>1. /\ \A i \in 1 .. n : ts[i] \in OnDay(ts, e) <=> Day(ts[i]) = e
          /\ \A i \in 1 .. n : m <= i => (ts[i] \in OnDay(q, e) <=> Day(ts[i]) = e)
      <4>1. \A i \in 1 .. n : m <= i => ts[i] \in Range(q)
        <5> TAKE i \in 1 .. n
        <5> HAVE m <= i
        <5> DEFINE k == i - m + 1
        <5>0. k \in 1 .. n - m + 1 /\ m + k - 1 = i
          BY <1>1
        <5> HIDE DEF k
        <5>1. k \in 1 .. n - m + 1 /\ q[k] = ts[i]
          BY <2>2, <5>0
        <5>2. DOMAIN q = 1 .. n - m + 1
          BY <2>2
        <5>3. QED  BY <5>1, <5>2 DEF Range
      <4>2. \A i \in 1 .. n : ts[i] \in Range(ts)
        BY <1>1 DEF Range
      <4>3. QED  BY <4>1, <4>2 DEF OnDay
    <3>2. \A i \in 1 .. n : ts[i] \in OnDay(ts, e) <=> i \in m .. n /\ ts[i] \in OnDay(q, e)
      BY <1>1, <2>1, <3>1
    <3>3. m \in 1 .. n + 1 /\ n \in m - 1 .. n
      BY <1>1
    <3>4. Kept(SubSeq(ts, m, n), OnDay(q, e)) = Kept(ts, OnDay(ts, e))
      BY <3>2, <3>3, KeptOfPart
    <3>5. QED  BY <3>4 DEF q, RowsOn, OnDay
  <2>7. Day(q[1]) = d
    <3>1. d \in d .. last
      BY <1>1, <1>4
    <3>2. PICK i \in 1 .. n : Day(ts[i]) = d
      BY <3>1, DayHasRow
    <3>3. m <= i
      BY <2>1, <3>2
    <3>4. Day(ts[m]) <= d /\ Day(ts[m]) >= d
      BY <1>2, <2>1, <3>2, <3>3
    <3>5. QED  BY <1>1, <2>5, <3>4
  <2>8. \A e \in Day(q[1]) .. Day(q[Len(q)]) : RowsOn(q, e) # << >>
    BY <2>4, <2>6, <2>7
  <2>9. all = [k \in 1 .. days |-> RowsOn(q, d + k - 1)]
    <3>1. InDays(q) = [k \in 1 .. Day(q[Len(q)]) - Day(q[1]) |-> RowsOn(q, Day(q[1]) + k - 1)]
      BY <2>2, <2>3, <2>8, DaysOfSeries
    <3>2. QED  BY <2>1, <2>4, <2>7, <3>1 DEF q
  <2>10. days \in Nat
    BY <1>1, <1>4
  <2> DEFINE X == {RowsOn(q, d + k - 1) : k \in 1 .. days}
  <2>11. leads \in 0 .. days
    BY <1>1, <2>10
  <2> HIDE DEF days
  <2>12. all \in [1 .. days -> X] /\ \A k \in 1 .. days : all[k] = RowsOn(q, d + k - 1)
    BY <2>9
  <2> HIDE DEF all, X
  <2>13. Len(all) = days
    BY <2>10, <2>12
  <2>14. SlotsOf(ts, d) = SubSeq(all, 1, leads)
    BY <2>13 DEF SlotsOf, all
  <2> HIDE DEF leads
  <2>15. SubSeq(all, 1, leads) = [k \in 1 .. leads |-> all[k]]
    BY <2>10, <2>11, <2>12, FirstLeads
  <2>16. \A k \in 1 .. leads : all[k] = RowsOn(ts, d + k - 1)
    <3> TAKE k \in 1 .. leads
    <3>1. k \in 1 .. days
      BY <2>10, <2>11
    <3>2. d + k - 1 \in Int /\ d + k - 1 >= d
      BY <2>10, <2>11
    <3>3. QED  BY <2>6, <2>12, <3>1, <3>2
  <2>17. [k \in 1 .. leads |-> all[k]] = [k \in 1 .. leads |-> RowsOn(ts, d + k - 1)]
    BY <2>16
  <2>18. QED  BY <2>14, <2>15, <2>17 DEF leads, days
<1>5. QED  BY <1>1, <1>3, <1>4

-----------------------------------------------------------------------------
(* The invariant.                                                          *)

AllLines == Range(in.valued) \cup Range(in.flooded)

Control ==
  /\ in \in Inputs
  /\ pass \in {"count", "values", "flood", "store", "ended", "failed"}
  /\ pos \in Nat
  /\ inSeries \in BOOLEAN
  /\ size \in Nat /\ length \in Nat
  /\ lines \in Seq(AllLines)

\* What is collected of HYCHAN.OUT begins with the heading of a wanted element.
ValuesInv ==
  pass = "values" =>
    /\ inSeries => lines # << >>
    /\ lines # << >> => lines[1].cell \in Wanted

SavedInv ==
  \E S : /\ saved \in Seq(S)
        /\ \A t \in S : t.cell \in Wanted \cup FloodCells

\* Within BASE.OUT, what is collected is the block at hand.
BlockInv ==
  pass = "flood" =>
    /\ pos <= Len(in.flooded)
    /\ inSeries <=> pos % 3 # 0
    /\ pos % 3 = 0 => lines = << >>
    /\ pos % 3 = 1 => lines = <<in.flooded[pos]>>
    /\ pos % 3 = 2 => lines = <<in.flooded[pos - 1], in.flooded[pos]>>

FloodRow == [kind : {"row"}, cell : FloodCells, step : Nat, value : {"number", Missing}]

\* Each cell has a row for each of the first n steps.
Steps(n) ==
  \A c \in FloodCells : Len(flood[c]) = n /\ \A k \in 1 .. n : flood[c][k].step = k - 1

StepsInv ==
  /\ flood \in [FloodCells -> Seq(FloodRow)]
  /\ pass \in {"count", "values"} => Steps(0)
  /\ in.program = "level" =>
       /\ pass = "flood" => Steps(pos \div 3)
       /\ pass = "store" => Steps(Len(in.flooded) \div 3)

\* A grid file shows the cells of the block of its step.
GridOf(s) ==
  [step |-> s,
   grid |-> EsriGrid(LevelsOf(in.flooded[3 * s + 2].cells, s), Place, Missing)]

Written == {s \in 0 .. Len(in.flooded) : 3 * s + 2 \in DOMAIN in.flooded}

GridInv ==
  /\ in.program # "grid" => grids = << >>
  /\ grids \in Seq({GridOf(s) : s \in Written})

ReadInv == Control /\ ValuesInv /\ SavedInv /\ BlockInv /\ StepsInv /\ GridInv

\* What the files are made of.
LEMMA Files ==
  ASSUME Control
  PROVE  /\ in.program \in {"level", "discharge", "grid"}
         /\ Len(in.counted) \in Nat
         /\ in.valued \in Seq(AllLines) /\ in.flooded \in Seq(AllLines)
         /\ \A l \in AllLines : l.kind \in LineKinds
         /\ BaseOut(in.flooded)
<1>1. /\ in.program \in {"level", "discharge", "grid"}
      /\ in.counted \in Seq(Range(in.counted))
      /\ in.valued \in Seq(Range(in.valued)) /\ in.flooded \in Seq(Range(in.flooded))
      /\ \A l \in Range(in.valued) : l.kind \in LineKinds
      /\ \A l \in Range(in.flooded) : l.kind \in LineKinds
      /\ BaseOut(in.flooded)
  BY InputsAssumption DEF Control
<1>2. Range(in.valued) \subseteq AllLines /\ Range(in.flooded) \subseteq AllLines
  BY DEF AllLines
<1>3. in.valued \in Seq(AllLines) /\ in.flooded \in Seq(AllLines)
  BY <1>1, <1>2
<1>4. QED  BY <1>1, <1>3 DEF AllLines

LEMMA Appended ==
  ASSUME NEW S, NEW s \in Seq(S), NEW e \in S
  PROVE  /\ Append(s, e) \in Seq(S) /\ Append(s, e) # << >>
         /\ Append(s, e)[1] = IF s = << >> THEN e ELSE s[1]
<1>1. s # << >> => 1 \in 1 .. Len(s)
  OBVIOUS
<1>2. Len(<< >>) = 0
  OBVIOUS
<1>3. QED  BY <1>1, <1>2, AppendProperties

LEMMA Pairs ==
  ASSUME NEW a, NEW b
  PROVE  Append(<< >>, b) = <<b>> /\ Append(<<a>>, b) = <<a, b>>
<1>1. << >> \in Seq({a, b}) /\ <<a>> \in Seq({a, b}) /\ <<a, b>> \in Seq({a, b})
  OBVIOUS
<1>2. Append(<< >>, b) = <<b>>
  BY <1>1
<1>3. Append(<<a>>, b) = <<a, b>>
  <2>1. /\ Append(<<a>>, b) \in Seq({a, b}) /\ Len(Append(<<a>>, b)) = 2
        /\ Append(<<a>>, b)[1] = a /\ Append(<<a>>, b)[2] = b
    BY <1>1, AppendProperties
  <2>2. Len(<<a, b>>) = 2 /\ <<a, b>>[1] = a /\ <<a, b>>[2] = b
    OBVIOUS
  <2>3. \A i \in 1 .. Len(Append(<<a>>, b)) : Append(<<a>>, b)[i] = <<a, b>>[i]
    <3>1. 1 .. 2 = {1, 2}
      OBVIOUS
    <3>2. QED  BY <2>1, <2>2, <3>1, Zenon
  <2>4. Len(Append(<<a>>, b)) = Len(<<a, b>>)
    BY <2>1, <2>2
  <2> DEFINE s == Append(<<a>>, b)
             t == <<a, b>>
  <2>5. s \in Seq({a, b}) /\ t \in Seq({a, b})
    BY <1>1, <2>1
  <2> HIDE DEF s, t
  <2>6. s = t
    BY <2>3, <2>4, <2>5, SeqEqual DEF s, t
  <2>7. QED  BY <2>6 DEF s, t
<1>4. QED  BY <1>2, <1>3

LEMMA ReadInit == Init => ReadInv
<1> SUFFICES ASSUME Init PROVE ReadInv
  OBVIOUS
<1>1. Control
  <2>1. lines \in Seq(AllLines)
    BY DEF Init
  <2>2. pass \in {"flood", "count"} /\ in \in Inputs
    BY DEF Init
  <2>3. inSeries \in BOOLEAN
    BY DEF Init
  <2>4. pos \in Nat /\ size \in Nat /\ length \in Nat
    BY DEF Init
  <2>5. QED  BY <2>1, <2>2, <2>3, <2>4 DEF Control
<1>2. ValuesInv /\ BlockInv
  BY <1>1, Files DEF Init, ValuesInv, BlockInv
<1>3. SavedInv
  <2>1. saved \in Seq({})
    BY DEF Init
  <2>2. QED  BY <2>1 DEF SavedInv
<1>4. StepsInv
  BY DEF Init, StepsInv, Steps
<1>5. GridInv
  BY DEF Init, GridInv
<1>6. QED  BY <1>1, <1>2, <1>3, <1>4, <1>5 DEF ReadInv

\* The first pass over HYCHAN.OUT.
LEMMA CountKeeps ==
  ASSUME ReadInv, CountLine \/ CountEnds
  PROVE  ReadInv'
<1>1. /\ pass = "count" /\ pass' \in {"count", "values"}
      /\ UNCHANGED <<in, saved, flood, grids>>
      /\ pos' \in Nat /\ size' \in Nat /\ length' \in Nat
      /\ pass' = "count" => lines' = lines
      /\ pass' = "values" => inSeries' = FALSE /\ lines' = << >>
  <2>1. pos \in Nat /\ size \in Nat /\ length \in Nat
    BY DEF ReadInv, Control
  <2>2. CASE CountLine
    BY <2>1, <2>2 DEF CountLine, Begin
  <2>3. CASE CountEnds
    BY <2>1, <2>3 DEF CountEnds, Begin
  <2>4. QED  BY <2>2, <2>3
<1>2. inSeries' \in BOOLEAN
  BY Zenon DEF CountLine, CountEnds, Begin
<1>3. Control'
  <2>1. AllLines' = AllLines
    BY <1>1 DEF AllLines
  <2>2. lines' \in Seq(AllLines)
    <3>1. << >> \in Seq(AllLines) /\ lines \in Seq(AllLines)
      BY DEF ReadInv, Control
    <3>2. QED  BY <1>1, <3>1
  <2>3. QED  BY <1>1, <1>2, <2>1, <2>2 DEF ReadInv, Control
<1>4. ValuesInv' /\ BlockInv'
  BY <1>1 DEF ValuesInv, BlockInv
<1>5. SavedInv' /\ GridInv'
  BY <1>1 DEF ReadInv, SavedInv, GridInv, GridOf, Written
<1>6. StepsInv'
  BY <1>1 DEF ReadInv, StepsInv, Steps
<1>7. QED  BY <1>3, <1>4, <1>5, <1>6 DEF ReadInv

\* The second pass.
LEMMA ValuesKeep ==
  ASSUME ReadInv,
         ValuesHeading \/ ValuesPass \/ ValuesRow \/ ValuesComplete \/ ValuesEnd
  PROVE  ReadInv'
<1>1. pass = "values" /\ UNCHANGED <<in, length, flood, grids>>
  BY DEF ValuesHeading, ValuesPass, ValuesRow, ValuesComplete, ValuesEnd
<1>2. pos \in Nat /\ size \in Nat /\ length \in Nat /\ lines \in Seq(AllLines)
  BY DEF ReadInv, Control
<1>3. ASSUME More PROVE Line \in AllLines
  <2>1. in.valued \in Seq(AllLines) /\ pos + 1 \in 1 .. Len(in.valued)
    BY <1>1, <1>2, <1>3, Files DEF ReadInv, More, File
  <2>2. Line = in.valued[pos + 1]
    BY <1>1 DEF Line, File
  <2>3. QED  BY <2>1, <2>2
<1>4. \/ pass' \in {"values", "failed"}
      \/ /\ pass' \in {"flood", "ended"}
         /\ pos' = 0 /\ inSeries' = FALSE /\ lines' = << >>
  BY DEF ValuesHeading, ValuesPass, ValuesRow, ValuesComplete, ValuesEnd, Begin
<1>5. Control'
  <2>1. pos' \in Nat
    BY <1>2 DEF ValuesHeading, ValuesPass, ValuesRow, ValuesComplete, ValuesEnd, Begin
  <2>2. size' \in Nat
    BY <1>2 DEF ValuesHeading, ValuesPass, ValuesRow, ValuesComplete, ValuesEnd, Begin
  <2>3. inSeries' \in BOOLEAN
    <3>1. inSeries \in BOOLEAN
      BY DEF ReadInv, Control
    <3>2. inSeries' \in {inSeries, FALSE} \/ inSeries' = (Line.cell \in Wanted)
      BY DEF ValuesHeading, ValuesPass, ValuesRow, ValuesComplete, ValuesEnd, Begin
    <3>3. (Line.cell \in Wanted) \in BOOLEAN
      OBVIOUS
    <3>4. QED  BY <3>1, <3>2, <3>3, Zenon
  <2>4. lines' \in Seq(AllLines)
    <3>1. \/ lines' \in {lines, << >>}
          \/ More /\ lines' = Append(lines, Line)
      BY DEF ValuesHeading, ValuesPass, ValuesRow, ValuesComplete, ValuesEnd, Begin
    <3>2. << >> \in Seq(AllLines)
      OBVIOUS
    <3>3. More => Append(lines, Line) \in Seq(AllLines)
      BY <1>2, <1>3, Appended
    <3>4. QED  BY <1>2, <3>1, <3>2, <3>3
  <2>5. AllLines' = AllLines /\ in' \in Inputs
    BY <1>1 DEF AllLines, ReadInv, Control
  <2>6. QED  BY <1>1, <1>2, <1>4, <2>1, <2>2, <2>3, <2>4, <2>5 DEF Control
<1>6. ValuesInv'
  <2>1. CASE ValuesHeading
    <3>1. More /\ Append(lines, Line) # << >>
          /\ Append(lines, Line)[1] = IF lines = << >> THEN Line ELSE lines[1]
      BY <1>2, <1>3, <2>1, Appended DEF ValuesHeading
    <3>2. QED  BY <2>1, <3>1 DEF ValuesHeading, ReadInv, ValuesInv
  <2>2. CASE ValuesRow
    <3>1. More /\ Append(lines, Line) # << >>
          /\ Append(lines, Line)[1] = IF lines = << >> THEN Line ELSE lines[1]
      BY <1>2, <1>3, <2>2, Appended DEF ValuesRow
    <3>2. QED  BY <2>2, <3>1 DEF ValuesRow, ReadInv, ValuesInv
  <2>3. CASE ValuesComplete
    BY <2>3 DEF ValuesComplete, ReadInv, ValuesInv
  <2>4. CASE ValuesPass
    BY <2>4 DEF ValuesPass, ReadInv, ValuesInv
  <2>5. CASE ValuesEnd
    BY <2>5 DEF ValuesEnd, Begin, ValuesInv
  <2>6. QED  BY <2>1, <2>2, <2>3, <2>4, <2>5
<1>7. SavedInv'
  <2>1. CASE saved' = saved
    BY <2>1 DEF ReadInv, SavedInv
  <2>2. CASE saved' = Append(saved, Series(lines[1].cell, Numbers)) /\ inSeries
    <3> DEFINE new == Series(lines[1].cell, Numbers)
    <3>1. PICK S : saved \in Seq(S) /\ \A t \in S : t.cell \in Wanted \cup FloodCells
      BY DEF ReadInv, SavedInv
    <3>2. new.cell \in Wanted
      BY <1>1, <2>2 DEF Series, ReadInv, ValuesInv
    <3> HIDE DEF new
    <3>3. saved \in Seq(S \cup {new})
      BY <3>1
    <3>4. saved' \in Seq(S \cup {new})
      BY <2>2, <3>3 DEF new
    <3>5. \A t \in S \cup {new} : t.cell \in Wanted \cup FloodCells
      BY <3>1, <3>2
    <3>6. QED  BY <3>4, <3>5 DEF SavedInv
  <2>3. QED
    BY <2>1, <2>2 DEF ValuesHeading, ValuesPass, ValuesRow, ValuesComplete, ValuesEnd
<1>8. BlockInv'
  <2>1. Len(in.flooded) \in Nat
    BY Files DEF ReadInv
  <2>2. QED  BY <1>1, <1>4, <2>1 DEF BlockInv
<1>9. StepsInv'
  <2>1. flood \in [FloodCells -> Seq(FloodRow)] /\ Steps(0)
    BY <1>1 DEF ReadInv, StepsInv
  <2>2. Steps(0)'
    BY <1>1, <2>1 DEF Steps
  <2>3. pass' = "flood" => pos' \div 3 = 0
    BY <1>4
  <2>4. QED  BY <1>1, <1>4, <2>1, <2>2, <2>3 DEF StepsInv, Steps
<1>10. GridInv'
  BY <1>1 DEF ReadInv, GridInv, GridOf, Written
<1>11. QED  BY <1>5, <1>6, <1>7, <1>8, <1>9, <1>10 DEF ReadInv

\* Lines and blocks of three lines.
LEMMA Phases ==
  ASSUME NEW n \in Nat
  PROVE  /\ n % 3 \in 0 .. 2 /\ n \div 3 \in Nat /\ n = 3 * (n \div 3) + (n % 3)
         /\ n % 3 # 2 => (n + 1) % 3 = (n % 3) + 1 /\ (n + 1) \div 3 = n \div 3
         /\ n % 3 = 2 => (n + 1) % 3 = 0 /\ (n + 1) \div 3 = n \div 3 + 1
         /\ n % 3 = 2 => (n - 1) % 3 = 1 /\ (n - 1) \div 3 = n \div 3
<1>1. PICK q \in Nat, r \in 0 .. 2 : n = 3 * q + r
  <2>1. n \div 3 \in Nat /\ n % 3 \in 0 .. 2 /\ n = 3 * (n \div 3) + (n % 3)
    OBVIOUS
  <2>2. QED  BY <2>1
<1>2. n \div 3 = q /\ n % 3 = r
  BY <1>1
<1>3. r # 2 => (n + 1) % 3 = r + 1 /\ (n + 1) \div 3 = q
  BY <1>1
<1>4. r = 2 => (n + 1) % 3 = 0 /\ (n + 1) \div 3 = q + 1
  BY <1>1
<1>5. r = 2 => (n - 1) % 3 = 1 /\ (n - 1) \div 3 = q
  BY <1>1
<1>6. QED  BY <1>1, <1>2, <1>3, <1>4, <1>5

\* The line that is read next.
LEMMA NextLine ==
  ASSUME ReadInv, pass = "flood", More
  PROVE  /\ Len(in.flooded) \in Nat /\ pos + 1 \in 1 .. Len(in.flooded)
         /\ Line = in.flooded[pos + 1] /\ Line \in AllLines
         /\ pos % 3 = 0 => Line = Time(pos \div 3)
         /\ pos % 3 = 1 => Line.kind = "levels"
         /\ pos % 3 = 2 => Line = Channels
<1>1. in.flooded \in Seq(AllLines) /\ BaseOut(in.flooded) /\ pos \in Nat
  BY Files DEF ReadInv, Control
<1>2. Len(in.flooded) \in Nat /\ pos + 1 \in 1 .. Len(in.flooded)
  BY <1>1 DEF More, File
<1>3. Line = in.flooded[pos + 1] /\ Line \in AllLines
  BY <1>1, <1>2 DEF Line, File
<1>4. /\ (pos + 1) % 3 = 1 => Line = Time((pos + 1) \div 3)
      /\ (pos + 1) % 3 = 2 => \E cells \in SUBSET DOMAIN Place : Line = Levels(cells)
      /\ (pos + 1) % 3 = 0 => Line = Channels
  BY <1>1, <1>2, <1>3 DEF BaseOut
<1>5. (pos + 1) % 3 = 2 => Line.kind = "levels"
  BY <1>4 DEF Levels
<1>6. /\ pos % 3 = 0 => (pos + 1) % 3 = 1 /\ (pos + 1) \div 3 = pos \div 3
      /\ pos % 3 = 1 => (pos + 1) % 3 = 2
      /\ pos % 3 = 2 => (pos + 1) % 3 = 0
  BY <1>1, Phases
<1>7. QED  BY <1>2, <1>3, <1>4, <1>5, <1>6

LEMMA FloodLineKeeps ==
  ASSUME ReadInv, FloodLine
  PROVE  ReadInv'
<1>1. /\ pass = "flood" /\ More /\ pos' = pos + 1
      /\ UNCHANGED <<in, pass, size, length, saved, flood, grids>>
  BY DEF FloodLine
<1>2. pos \in Nat /\ lines \in Seq(AllLines) /\ inSeries \in BOOLEAN
  BY DEF ReadInv, Control
<1>3. /\ pos % 3 # 2 /\ inSeries' = TRUE /\ lines' = Append(lines, Line)
      /\ pos % 3 = 0 => lines = << >>
      /\ pos % 3 = 1 => lines = <<in.flooded[pos]>>
  <2>1. /\ inSeries <=> pos % 3 # 0
        /\ pos % 3 = 0 => lines = << >>
        /\ pos % 3 = 1 => lines = <<in.flooded[pos]>>
    BY <1>1 DEF ReadInv, BlockInv
  <2>2. pos % 3 \in 0 .. 2
    BY <1>2, Phases
  <2>3. /\ pos % 3 = 0 => Line.kind = "time"
        /\ pos % 3 = 2 => Line.kind = "channels"
    BY <1>1, NextLine DEF Time, Channels
  <2>4. pos % 3 # 2
    BY <2>1, <2>3 DEF FloodLine
  <2>5. inSeries' = TRUE
    BY <1>2, <2>1, <2>2, <2>3, <2>4, Zenon DEF FloodLine
  <2>6. lines' = Append(lines, Line)
    BY <2>5 DEF FloodLine
  <2>7. QED  BY <2>1, <2>4, <2>5, <2>6
<1>4. Control'
  <2>1. AllLines' = AllLines /\ in' \in Inputs
    BY <1>1 DEF AllLines, ReadInv, Control
  <2>2. lines' \in Seq(AllLines)
    BY <1>1, <1>2, <1>3, NextLine, Appended
  <2>3. QED  BY <1>1, <1>2, <1>3, <2>1, <2>2 DEF ReadInv, Control
<1>5. ValuesInv'
  BY <1>1 DEF ValuesInv
<1>6. SavedInv' /\ GridInv'
  BY <1>1 DEF ReadInv, SavedInv, GridInv, GridOf, Written
<1>7. BlockInv'
  <2>1. pos + 1 \in 1 .. Len(in.flooded) /\ Line = in.flooded[pos + 1]
    BY <1>1, NextLine
  <2>2. pos % 3 \in 0 .. 1 /\ pos' % 3 = (pos % 3) + 1
    BY <1>1, <1>2, <1>3, Phases
  <2>3. ASSUME NEW a, NEW b
        PROVE  Append(<< >>, b) = <<b>> /\ Append(<<a>>, b) = <<a, b>>
    BY Pairs
  <2>4. /\ pos % 3 = 0 => lines' = <<in.flooded[pos']>>
        /\ pos % 3 = 1 => lines' = <<in.flooded[pos], in.flooded[pos']>>
    BY <1>1, <1>3, <2>1, <2>3, Zenon
  <2>5. pos' - 1 = pos
    BY <1>1, <1>2
  <2>6. /\ pos' <= Len(in.flooded) /\ pos' % 3 \in 1 .. 2
        /\ pos' % 3 = 1 => pos % 3 = 0
        /\ pos' % 3 = 2 => pos % 3 = 1
    BY <1>1, <1>2, <2>1, <2>2
  <2>7. (inSeries' = TRUE /\ pos' % 3 # 0) /\ UNCHANGED in
    BY <1>1, <1>3, <2>6
  <2>8. QED  BY <2>4, <2>5, <2>6, <2>7 DEF BlockInv
<1>8. StepsInv'
  <2>1. pos' \div 3 = pos \div 3
    BY <1>1, <1>2, <1>3, Phases
  <2>2. ASSUME NEW n, Steps(n) PROVE Steps(n)'
    BY <1>1, <2>2 DEF Steps
  <2>3. QED  BY <1>1, <2>1, <2>2 DEF ReadInv, StepsInv
<1>9. QED  BY <1>4, <1>5, <1>6, <1>7, <1>8 DEF ReadInv

\* A block is complete: its step and its cells.
LEMMA Block ==
  ASSUME ReadInv, FloodBlock
  PROVE  LET n == pos \div 3 IN
         /\ n \in Written /\ pos % 3 = 2
         /\ lines[1] = Time(n) /\ Listed = in.flooded[3 * n + 2].cells
<1>1. /\ pos \in Nat /\ pass = "flood" /\ More /\ inSeries /\ Line.kind = "channels"
      /\ in.flooded \in Seq(AllLines) /\ BaseOut(in.flooded)
  BY Files DEF FloodBlock, ReadInv, Control
<1>2. pos % 3 = 2
  <2>1. pos % 3 # 0
    BY <1>1 DEF ReadInv, BlockInv
  <2>2. pos % 3 # 1
    BY <1>1, NextLine
  <2>3. QED  BY <1>1, <2>1, <2>2, Phases
<1>3. PICK n \in Nat : n = pos \div 3 /\ pos = 3 * n + 2
  BY <1>1, <1>2, Phases
<1>4. /\ pos - 1 \in DOMAIN in.flooded /\ pos \in DOMAIN in.flooded
      /\ (pos - 1) % 3 = 1 /\ (pos - 1) \div 3 = n
      /\ n \in 0 .. Len(in.flooded)
  <2>1. Len(in.flooded) \in Nat /\ pos + 1 \in 1 .. Len(in.flooded)
    BY <1>1, NextLine
  <2>2. DOMAIN in.flooded = 1 .. Len(in.flooded)
    BY <1>1
  <2>3. (pos - 1) % 3 = 1 /\ (pos - 1) \div 3 = n
    BY <1>1, <1>2, <1>3, Phases
  <2>4. pos - 1 \in 1 .. Len(in.flooded) /\ pos \in 1 .. Len(in.flooded)
    BY <1>3, <2>1
  <2>5. n \in 0 .. Len(in.flooded)
    BY <1>3, <2>1
  <2>6. QED  BY <2>2, <2>3, <2>4, <2>5
<1>5. in.flooded[pos - 1] = Time(n)
  BY <1>1, <1>4 DEF BaseOut
<1>6. PICK cells : in.flooded[pos] = Levels(cells)
  BY <1>1, <1>2, <1>4 DEF BaseOut
<1>7. lines = <<Time(n), Levels(cells)>>
  BY <1>1, <1>2, <1>5, <1>6 DEF ReadInv, BlockInv
<1>8. lines[1] = Time(n) /\ lines[2] = Levels(cells) /\ DOMAIN lines = {1, 2}
  BY <1>7
<1>9. Listed = cells
  BY <1>8 DEF Listed, Time, Levels
<1>10. n \in Written /\ in.flooded[3 * n + 2].cells = cells
  <2>1. 3 * n + 2 \in DOMAIN in.flooded /\ in.flooded[3 * n + 2] = Levels(cells)
    BY <1>3, <1>4, <1>6
  <2>2. QED  BY <1>4, <2>1 DEF Written, Levels
<1>11. QED  BY <1>2, <1>3, <1>8, <1>9, <1>10

LEMMA FloodBlockKeeps ==
  ASSUME ReadInv, FloodBlock
  PROVE  ReadInv'
<1>0. PICK n \in Nat : n = pos \div 3
  BY Phases DEF ReadInv, Control
<1>1. /\ pass = "flood" /\ More /\ pos' = pos + 1 /\ inSeries' = FALSE /\ lines' = << >>
      /\ UNCHANGED <<in, pass, size, length, saved>>
  BY DEF FloodBlock
<1>2. pos \in Nat /\ pos' % 3 = 0 /\ pos' \div 3 = n + 1
  BY <1>0, <1>1, Block, Phases DEF ReadInv, Control
<1>3. Control'
  <2>1. AllLines' = AllLines /\ in' \in Inputs
    BY <1>1 DEF AllLines, ReadInv, Control
  <2>2. lines' \in Seq(AllLines)
    BY <1>1
  <2>3. /\ pos' \in Nat /\ inSeries' \in BOOLEAN
        /\ pass' = pass /\ size' = size /\ length' = length
    <3>1. pos + 1 \in Nat
      BY <1>2
    <3>2. QED  BY <1>1, <3>1
  <2>4. QED  BY <2>1, <2>2, <2>3 DEF ReadInv, Control
<1>4. ValuesInv' /\ SavedInv'
  BY <1>1 DEF ReadInv, ValuesInv, SavedInv
<1>5. BlockInv'
  BY <1>1, <1>2, NextLine DEF BlockInv
<1>6. CASE in.program = "grid"
  <2>1. GridStep
    BY <1>6 DEF FloodBlock
  <2>2. UNCHANGED flood /\ grids' \in {grids, Append(grids, GridOf(n))}
    BY <1>0, <2>1, Block DEF GridStep, GridOf, Time
  <2>3. StepsInv'
    BY <1>1, <1>6, <2>2 DEF ReadInv, StepsInv
  <2>4. GridInv'
    <3> DEFINE files == {GridOf(s) : s \in Written}
    <3>1. grids \in Seq(files) /\ GridOf(n) \in files
      BY <1>0, Block DEF ReadInv, GridInv
    <3> HIDE DEF files
    <3>2. grids' \in Seq(files)
      BY <2>2, <3>1
    <3>3. files' = files
      BY <1>1 DEF files, GridOf, Written
    <3>4. QED  BY <1>1, <1>6, <3>2, <3>3 DEF GridInv, files
  <2>5. QED  BY <1>3, <1>4, <1>5, <2>3, <2>4 DEF ReadInv
<1>7. CASE in.program # "grid"
  <2>1. FloodStep
    BY <1>7 DEF FloodBlock
  <2>2. GridInv'
    BY <1>1, <2>1 DEF ReadInv, GridInv, GridOf, Written, FloodStep
  <2> DEFINE new(c) == Row(c, n, IF c \in Listed THEN "number" ELSE Missing)
  <2>3. flood' = [c \in FloodCells |-> Append(flood[c], new(c))]
    BY <1>0, <2>1, Block DEF FloodStep, Time
  <2>4. \A c \in FloodCells : new(c) \in FloodRow /\ new(c).step = n
    BY <1>2 DEF Row, FloodRow
  <2>5. flood \in [FloodCells -> Seq(FloodRow)]
    BY DEF ReadInv, StepsInv
  <2> HIDE DEF new
  <2>6. flood' \in [FloodCells -> Seq(FloodRow)]
    BY <2>3, <2>4, <2>5
  <2>7. Steps(n) => Steps(n + 1)'
    <3> SUFFICES ASSUME Steps(n), NEW c \in FloodCells
                 PROVE  Len(flood'[c]) = n + 1 /\ \A k \in 1 .. n + 1 : flood'[c][k].step = k - 1
      BY DEF Steps
    <3>1. Len(flood[c]) = n /\ \A k \in 1 .. n : flood[c][k].step = k - 1
      BY DEF Steps
    <3>2. flood'[c] = Append(flood[c], new(c)) /\ flood[c] \in Seq(FloodRow)
      BY <2>3, <2>5
    <3>3. /\ Len(flood'[c]) = n + 1 /\ flood'[c][n + 1] = new(c)
          /\ \A k \in 1 .. n : flood'[c][k] = flood[c][k]
      BY <2>4, <3>1, <3>2, AppendProperties
    <3>4. QED  BY <1>2, <2>4, <3>1, <3>3
  <2>8. StepsInv'
    <3>1. in.program = "level" => Steps(n)
      BY <1>0, <1>1 DEF ReadInv, StepsInv
    <3>2. QED  BY <1>1, <1>2, <2>6, <2>7, <3>1 DEF StepsInv
  <2>9. QED  BY <1>3, <1>4, <1>5, <2>2, <2>8 DEF ReadInv
<1>8. QED  BY <1>6, <1>7

LEMMA FloodEndKeeps ==
  ASSUME ReadInv, FloodEnd
  PROVE  ReadInv'
<1>1. /\ pass = "flood" /\ pos = Len(in.flooded) /\ pass' \in {"ended", "store"}
      /\ pos' = 0 /\ inSeries' = FALSE /\ size' = 0 /\ lines' = << >>
      /\ UNCHANGED <<in, length, saved, flood, grids>>
  BY DEF FloodEnd, AtEnd, File, Begin
<1>2. Control'
  <2>1. AllLines' = AllLines /\ in' \in Inputs /\ length \in Nat
    BY <1>1 DEF AllLines, ReadInv, Control
  <2>2. lines' \in Seq(AllLines)
    BY <1>1
  <2>3. QED  BY <1>1, <2>1, <2>2 DEF Control
<1>3. ValuesInv' /\ BlockInv' /\ SavedInv' /\ GridInv'
  BY <1>1 DEF ReadInv, ValuesInv, BlockInv, SavedInv, GridInv, GridOf, Written
<1>4. StepsInv'
  <2>1. ASSUME NEW n, Steps(n) PROVE Steps(n)'
    BY <1>1, <2>1 DEF Steps
  <2>2. QED  BY <1>1, <2>1 DEF ReadInv, StepsInv
<1>5. QED  BY <1>2, <1>3, <1>4 DEF ReadInv

LEMMA StoreKeeps ==
  ASSUME ReadInv, StoreFlood
  PROVE  ReadInv'
<1>1. /\ pass = "store" /\ pass' \in {"failed", "ended"}
      /\ UNCHANGED <<in, pos, inSeries, size, length, lines, flood, grids>>
  BY DEF StoreFlood
<1>2. Control'
  <2>1. AllLines' = AllLines
    BY <1>1 DEF AllLines
  <2>2. QED  BY <1>1, <2>1 DEF ReadInv, Control
<1>3. ValuesInv' /\ BlockInv' /\ GridInv'
  BY <1>1 DEF ReadInv, ValuesInv, BlockInv, GridInv, GridOf, Written
<1>4. StepsInv'
  BY <1>1 DEF ReadInv, StepsInv
<1>5. SavedInv'
  <2>1. CASE saved' = saved
    BY <2>1 DEF ReadInv, SavedInv
  <2>2. ASSUME NEW cells \in [1 .. Cardinality(FloodCells) -> FloodCells],
               saved' = saved \o [i \in DOMAIN cells |-> Series(cells[i], flood[cells[i]])]
        PROVE  SavedInv'
    <3> DEFINE all == {Series(c, flood[c]) : c \in FloodCells}
               new == [i \in DOMAIN cells |-> Series(cells[i], flood[cells[i]])]
    <3>1. PICK S : saved \in Seq(S) /\ \A t \in S : t.cell \in Wanted \cup FloodCells
      BY DEF ReadInv, SavedInv
    <3>2. \A t \in all : t.cell \in FloodCells
      BY DEF Series
    <3>3. new \in Seq(all)
      <4>1. Cardinality(FloodCells) \in Nat
        BY InputsAssumption, FS_CardinalityType
      <4>2. new \in [1 .. Cardinality(FloodCells) -> all]
        OBVIOUS
      <4> HIDE DEF new, all
      <4>3. QED  BY <4>1, <4>2
    <3> HIDE DEF new, all
    <3>4. saved \in Seq(S \cup all) /\ new \in Seq(S \cup all)
      BY <3>1, <3>3
    <3>5. saved' \in Seq(S \cup all)
      BY <2>2, <3>4, ConcatProperties DEF new
    <3>6. \A t \in S \cup all : t.cell \in Wanted \cup FloodCells
      BY <3>1, <3>2
    <3>7. QED  BY <3>5, <3>6 DEF SavedInv
  <2>3. QED  BY <2>1, <2>2 DEF StoreFlood
<1>6. QED  BY <1>2, <1>3, <1>4, <1>5 DEF ReadInv

LEMMA ReadNext == ReadInv /\ [Next]_vars => ReadInv'
<1> SUFFICES ASSUME ReadInv, [Next]_vars PROVE ReadInv'
  OBVIOUS
<1>1. CASE UNCHANGED vars
  <2>1. AllLines' = AllLines
    BY <1>1 DEF vars, AllLines
  <2>2. Control'
    BY <1>1, <2>1 DEF vars, ReadInv, Control
  <2>3. ValuesInv' /\ SavedInv'
    BY <1>1 DEF vars, ReadInv, ValuesInv, SavedInv
  <2>4. BlockInv'
    BY <1>1 DEF vars, ReadInv, BlockInv
  <2>5. StepsInv'
    BY <1>1 DEF vars, ReadInv, StepsInv, Steps
  <2>6. GridInv'
    BY <1>1 DEF vars, ReadInv, GridInv, GridOf, Written
  <2>7. QED  BY <2>2, <2>3, <2>4, <2>5, <2>6 DEF ReadInv
<1>2. CASE Next
  BY <1>2, CountKeeps, ValuesKeep, FloodLineKeeps, FloodBlockKeeps, FloodEndKeeps,
     StoreKeeps DEF Next
<1>3. QED  BY <1>1, <1>2

LEMMA ReadInvariance == Spec => []ReadInv
BY ReadInit, ReadNext, PTL DEF Spec

\* Whatever the files, the locals of the loops keep their types, and only wanted
\* elements and cells of the flood plain are stored.
THEOREM TypeCorrect == Spec => []TypeOK
<1>1. ReadInv => TypeOK
  <2> SUFFICES ASSUME ReadInv PROVE TypeOK
    OBVIOUS
  <2>1. \A i \in DOMAIN lines : lines[i].kind \in LineKinds
    BY Files DEF ReadInv, Control
  <2>2. \A i \in DOMAIN saved : saved[i].cell \in Wanted \cup FloodCells
    BY DEF ReadInv, SavedInv
  <2>3. QED  BY <2>1, <2>2 DEF ReadInv, Control, StepsInv, GridInv, TypeOK
<1>2. QED  BY <1>1, ReadInvariance, PTL

\* For any BASE.OUT, wherever it ends, the flooded cells keep step.
THEOREM FloodInStep == Spec => []FloodStepsAgree
<1>1. ReadInv => FloodStepsAgree
  <2> SUFFICES ASSUME ReadInv, pass \in {"flood", "store"}, in.program = "level",
                      NEW c \in FloodCells, NEW d \in FloodCells
               PROVE  /\ Len(flood[c]) = Len(flood[d])
                      /\ \A k \in DOMAIN flood[c] :
                           flood[c][k].step = k - 1 /\ flood[d][k].step = k - 1
    BY DEF FloodStepsAgree
  <2>1. PICK n : Steps(n)
    BY DEF ReadInv, StepsInv
  <2>2. DOMAIN flood[c] = 1 .. Len(flood[c])
    BY DEF ReadInv, StepsInv
  <2>3. QED  BY <2>1, <2>2 DEF Steps
<1>2. QED  BY <1>1, ReadInvariance, PTL

-----------------------------------------------------------------------------
(* The grid files.                                                         *)

\* All cells of FLO2D lie in the grid, on squares of their own.
LEMMA SquaresOfPlace ==
  LET b == GridBoundary(Place) IN
  \A c \in DOMAIN Place :
    /\ Square(b, Place[c]) \in (0 .. Columns(b) - 1) \X (0 .. Rows(b) - 1)
    /\ \A d \in DOMAIN Place : Square(b, Place[d]) = Square(b, Place[c]) => c = d
<1> SUFFICES ASSUME NEW c \in DOMAIN Place
             PROVE  LET b == GridBoundary(Place) IN
                    /\ Square(b, Place[c]) \in (0 .. Columns(b) - 1) \X (0 .. Rows(b) - 1)
                    /\ \A d \in DOMAIN Place : Square(b, Place[d]) = Square(b, Place[c]) => c = d
  OBVIOUS
<1> DEFINE limit == 10^9
           b == GridBoundary(Place)
<1>1. limit \in Nat
  OBVIOUS
<1>2. \A d \in DOMAIN Place :
        Place[d] \in Position /\ Place[d].x \in 0 .. limit /\ Place[d].y \in 0 .. limit
  <2> HIDE DEF limit
  <2>1. \A d \in DOMAIN Place : Place[d] \in [x : 0 .. limit, y : 0 .. limit]
    BY PlaceAssumption DEF limit
  <2>2. QED  BY <1>1, <2>1 DEF Position
<1> HIDE DEF limit
<1>3. b \in Boundary
  BY <1>1, <1>2, Enclosed
<1>4. Square(b, Place[c]) \in (0 .. Columns(b) - 1) \X (0 .. Rows(b) - 1)
  BY <1>1, <1>2, CellsInGrid
<1>5. ASSUME NEW d \in DOMAIN Place, c # d
      PROVE  Square(b, Place[d]) # Square(b, Place[c])
  <2> HIDE DEF b
  <2>1. \/ Place[c].x + Gap <= Place[d].x \/ Place[d].x + Gap <= Place[c].x
        \/ Place[c].y + Gap <= Place[d].y \/ Place[d].y + Gap <= Place[c].y
    BY <1>5, PlaceAssumption
  <2>2. QED  BY <1>2, <1>3, <2>1, NoCellHidden
<1>6. QED  BY <1>4, <1>5

\* Which blocks are of the step s: one.
LEMMA BlockOfStep ==
  ASSUME ReadInv, NEW s \in Written
  PROVE  /\ in.flooded[3 * s + 2].kind = "levels"
         /\ in.flooded[3 * s + 2].cells \subseteq DOMAIN Place
         /\ in.flooded[3 * s + 1] = Time(s)
         /\ \A k \in DOMAIN in.flooded :
              k > 1 /\ in.flooded[k - 1] = Time(s) => k = 3 * s + 2
<1>1. /\ in.flooded \in Seq(AllLines) /\ BaseOut(in.flooded)
      /\ DOMAIN in.flooded = 1 .. Len(in.flooded) /\ Len(in.flooded) \in Nat
  BY Files DEF ReadInv
<1>2. s \in Nat /\ 3 * s + 2 \in DOMAIN in.flooded
  BY <1>1 DEF Written
<1>3. 3 * s + 1 \in DOMAIN in.flooded
  BY <1>1, <1>2
<1>4. (3 * s + 2) % 3 = 2 /\ (3 * s + 1) % 3 = 1 /\ (3 * s + 1) \div 3 = s
  BY <1>2
<1>5. PICK cells \in SUBSET DOMAIN Place : in.flooded[3 * s + 2] = Levels(cells)
  BY <1>1, <1>2, <1>4 DEF BaseOut
<1>6. in.flooded[3 * s + 1] = Time(s)
  BY <1>1, <1>3, <1>4 DEF BaseOut
<1>7. ASSUME NEW k \in DOMAIN in.flooded, k > 1, in.flooded[k - 1] = Time(s)
      PROVE  k = 3 * s + 2
  <2> DEFINE j == k - 1
  <2>1. j \in DOMAIN in.flooded /\ j \in Nat /\ k = j + 1
    BY <1>1, <1>7
  <2> HIDE DEF j
  <2>2. in.flooded[j] = Time(s)
    BY <1>7 DEF j
  <2>3. /\ j % 3 = 1 => in.flooded[j] = Time(j \div 3)
        /\ j % 3 = 2 => \E c \in SUBSET DOMAIN Place : in.flooded[j] = Levels(c)
        /\ j % 3 = 0 => in.flooded[j] = Channels
    BY <1>1, <2>1 DEF BaseOut
  <2>4. j % 3 # 2 /\ j % 3 # 0
    <3>1. in.flooded[j].kind = "time"
      BY <2>2 DEF Time
    <3>2. j % 3 = 2 => in.flooded[j].kind = "levels"
      <4>1. \A c : Levels(c).kind = "levels"
        BY DEF Levels
      <4>2. QED  BY <2>3, <4>1, Zenon
    <3>3. j % 3 = 0 => in.flooded[j].kind = "channels"
      BY <2>3 DEF Channels
    <3>4. QED  BY <3>1, <3>2, <3>3
  <2>5. j % 3 = 1 /\ j = 3 * (j \div 3) + (j % 3)
    BY <2>1, <2>4, Phases
  <2>6. j \div 3 = s
    BY <2>2, <2>3, <2>5 DEF Time
  <2>7. QED  BY <1>2, <2>1, <2>5, <2>6
<1>8. QED  BY <1>5, <1>6, <1>7 DEF Levels

\* For any cells and any BASE.OUT, a grid file shows each cell of its step on a
\* square of its own, and nothing else.
THEOREM GridsComplete == Spec => []GridsShowAllCells
<1>1. ReadInv => GridsShowAllCells
  <2> SUFFICES ASSUME ReadInv, NEW g \in DOMAIN grids
               PROVE  LET b      == GridBoundary(Place)
                          grid   == grids[g].grid
                          listed == {c \in DOMAIN Place : \E k \in DOMAIN in.flooded :
                                       /\ in.flooded[k].kind = "levels"
                                       /\ k > 1 /\ in.flooded[k - 1] = Time(grids[g].step)
                                       /\ c \in in.flooded[k].cells}
                      IN  /\ \A c \in listed : grid[Square(b, Place[c])] = <<c, grids[g].step>>
                          /\ \A sq \in DOMAIN grid :
                               grid[sq] # Missing => \E c \in listed : Square(b, Place[c]) = sq
    BY DEF GridsShowAllCells
  <2>1. PICK s \in Written : grids[g] = GridOf(s)
    BY DEF ReadInv, GridInv
  <2> DEFINE b == GridBoundary(Place)
             shown == in.flooded[3 * s + 2].cells
             squares == (0 .. Columns(b) - 1) \X (0 .. Rows(b) - 1)
             at(sq) == {c \in shown : Square(b, Place[c]) = sq}
  <2>2. grids[g].step = s /\ grids[g].grid = EsriGrid(LevelsOf(shown, s), Place, Missing)
    BY <2>1 DEF GridOf
  <2>3. {c \in DOMAIN Place : \E k \in DOMAIN in.flooded :
           /\ in.flooded[k].kind = "levels"
           /\ k > 1 /\ in.flooded[k - 1] = Time(s)
           /\ c \in in.flooded[k].cells} = shown
    <3>1. /\ 3 * s + 2 \in DOMAIN in.flooded /\ 3 * s + 2 > 1
          /\ (3 * s + 2) - 1 = 3 * s + 1
      BY DEF Written
    <3>2. /\ in.flooded[3 * s + 2].kind = "levels"
          /\ shown \subseteq DOMAIN Place
          /\ in.flooded[3 * s + 1] = Time(s)
          /\ \A k \in DOMAIN in.flooded :
               k > 1 /\ in.flooded[k - 1] = Time(s) => k = 3 * s + 2
      BY BlockOfStep
    <3>3. in.flooded[(3 * s + 2) - 1] = Time(s)
      BY <3>1, <3>2
    <3>4. QED  BY <3>1, <3>2, <3>3, Zenon
  <2>4. \A sq \in squares :
          grids[g].grid[sq] = IF at(sq) = {} THEN Missing
                              ELSE LevelsOf(shown, s)[CHOOSE c \in at(sq) : TRUE]
    <3>1. DOMAIN LevelsOf(shown, s) = shown
      BY DEF LevelsOf
    <3>2. ASSUME NEW i \in 0 .. Columns(b) - 1, NEW j \in 0 .. Rows(b) - 1
          PROVE  grids[g].grid[<<i, j>>] = IF at(<<i, j>>) = {} THEN Missing
                   ELSE LevelsOf(shown, s)[CHOOSE c \in at(<<i, j>>) : TRUE]
      <4> DEFINE level == LevelsOf(shown, s)
                 found(sq) == {c \in DOMAIN level : Square(b, Place[c]) = <<sq[1], sq[2]>>}
      <4>1. grids[g].grid = [sq \in squares |-> IF found(sq) = {} THEN Missing
                                                ELSE level[CHOOSE c \in found(sq) : TRUE]]
        BY <2>2 DEF EsriGrid
      <4>2. <<i, j>> \in squares
        OBVIOUS
      <4>3. found(<<i, j>>) = at(<<i, j>>)
        BY <3>1
      <4> HIDE DEF level, found, squares, at
      <4>4. QED  BY <4>1, <4>2, <4>3 DEF level
    <3>3. QED  BY <3>2
  <2>5. DOMAIN grids[g].grid = squares
    BY <2>2 DEF EsriGrid
  <2>6. ASSUME NEW c \in shown
        PROVE  grids[g].grid[Square(b, Place[c])] = <<c, s>>
    <3>1. /\ Square(b, Place[c]) \in squares
          /\ \A d \in DOMAIN Place : Square(b, Place[d]) = Square(b, Place[c]) => c = d
          /\ shown \subseteq DOMAIN Place
      BY SquaresOfPlace, BlockOfStep
    <3>2. at(Square(b, Place[c])) = {c}
      BY <3>1
    <3>3. (CHOOSE d \in {c} : TRUE) = c
      OBVIOUS
    <3>4. LevelsOf(shown, s)[c] = <<c, s>>
      BY DEF LevelsOf
    <3>5. QED  BY <2>4, <3>1, <3>2, <3>3, <3>4
  <2>7. ASSUME NEW sq \in squares, grids[g].grid[sq] # Missing
        PROVE  \E c \in shown : Square(b, Place[c]) = sq
    BY <2>4, <2>7
  <2>8. QED  BY <2>2, <2>3, <2>5, <2>6, <2>7
<1>2. QED  BY <1>1, ReadInvariance, PTL

-----------------------------------------------------------------------------
(* What the second pass makes of HYCHAN.OUT.                               *)

\* The rows of each series but the last, which may be cut.
StepCount == CHOOSE n \in 0 .. Len(in.valued) : HychanOut(in.valued, n)

Heads     == {h \in DOMAIN in.valued : in.valued[h].kind = "heading"}
CellAt(h) == in.valued[h].cell
BlockOf(h) == h .. h + StepCount + 2

\* How many rows of the series at h there are in the first p lines.
RowsBehind(h, p) ==
  IF p < h + 2 THEN 0
  ELSE IF p < h + StepCount + 1 THEN p - h - 1 ELSE StepCount

\* The series are long enough for the count of the first pass.
Countable == 0 < length /\ length <= StepCount

FirstRows(h, k) == SubSeq(in.valued, h + 2, h + 1 + k)
Gathered(h, k)  == <<in.valued[h]>> \o FirstRows(h, k)

\* What is stored of the element c, and of the first q lines.
Result(c) == Series(c, Numbered(SubSeq(RowsOf(in.valued, c), 1, length)))
StoredUpTo(q) ==
  LET whole == KeptUpTo(in.valued, WholeHeadings(in.valued))[q]
  IN  [j \in DOMAIN whole |-> Result(whole[j].cell)]

\* The file, block by block.
LEMMA HychanLines ==
  ASSUME Control
  PROVE  /\ StepCount \in Nat /\ Len(in.valued) \in Nat
         /\ in.valued \in Seq(AllLines) /\ DOMAIN in.valued = 1 .. Len(in.valued)
         /\ Heads \subseteq 1 .. Len(in.valued)
         /\ \A g, h \in Heads : g < h => g + StepCount + 2 < h /\ CellAt(g) # CellAt(h)
         /\ \A k \in 1 .. Len(in.valued) : \E h \in Heads : k \in BlockOf(h)
<1>1. in.valued \in Seq(AllLines)
  BY Files
<1>2. Len(in.valued) \in Nat /\ DOMAIN in.valued = 1 .. Len(in.valued)
  BY <1>1
<1>3. \E n \in 0 .. Len(in.valued) : HychanOut(in.valued, n)
  BY InputsAssumption DEF Control
<1>4. StepCount \in 0 .. Len(in.valued) /\ HychanOut(in.valued, StepCount)
  BY <1>3 DEF StepCount
<1>5. \A k \in 1 .. Len(in.valued) : \E h \in Heads : k \in BlockOf(h)
  BY <1>2, <1>4 DEF HychanOut, Heads, BlockOf
<1>6. \A g, h \in Heads : g < h => g + StepCount + 2 < h /\ CellAt(g) # CellAt(h)
  BY <1>4 DEF HychanOut, Heads, CellAt
<1>7. Heads \subseteq 1 .. Len(in.valued)
  BY <1>2 DEF Heads
<1>8. QED  BY <1>1, <1>2, <1>4, <1>5, <1>6, <1>7

\* A line is in one block.
LEMMA OneBlock ==
  ASSUME Control, NEW g \in Heads, NEW h \in Heads, NEW k \in Int, k \in BlockOf(g),
         k \in BlockOf(h)
  PROVE  g = h
<1>1. g \in Int /\ h \in Int /\ StepCount \in Nat
  BY HychanLines
<1>2. ~(g < h)
  BY <1>1, HychanLines DEF BlockOf
<1>3. ~(h < g)
  BY <1>1, HychanLines DEF BlockOf
<1>4. QED  BY <1>1, <1>2, <1>3

\* The lines of a block.
LEMMA LineOfBlock ==
  ASSUME Control, NEW h \in Heads, NEW k \in 1 .. Len(in.valued), k \in BlockOf(h)
  PROVE  /\ k = h <=> in.valued[k].kind = "heading"
         /\ k \in h + 2 .. h + StepCount + 1 <=> in.valued[k].kind = "row"
         /\ k \in h + 2 .. h + StepCount + 1 =>
              /\ in.valued[k].cell = CellAt(h)
              /\ in.valued[k].step = k - h - 2
<1>1. \E n \in 0 .. Len(in.valued) : HychanOut(in.valued, n)
  BY InputsAssumption DEF Control
<1>2. HychanOut(in.valued, StepCount)
  BY <1>1 DEF StepCount
<1>3. /\ StepCount \in Nat /\ Len(in.valued) \in Nat /\ DOMAIN in.valued = 1 .. Len(in.valued)
      /\ h \in Int /\ k \in Int /\ h <= k /\ k <= h + StepCount + 2
  BY HychanLines DEF BlockOf
<1>4. PICK g \in Heads :
        /\ k \in g .. g + StepCount + 2
        /\ k \in {g + 1, g + StepCount + 2} => in.valued[k] = Text
        /\ k \in g + 2 .. g + StepCount + 1 =>
             \E value \in {"number", "none", "short"} :
               in.valued[k] = Row(CellAt(g), k - g - 2, value)
  <2>1. k \in DOMAIN in.valued
    BY <1>3
  <2>2. PICK g \in {i \in DOMAIN in.valued : in.valued[i].kind = "heading"} :
          /\ k \in g .. g + StepCount + 2
          /\ k \in {g + 1, g + StepCount + 2} => in.valued[k] = Text
          /\ k \in g + 2 .. g + StepCount + 1 =>
               \E value \in {"number", "none", "short"} :
                 /\ in.valued[k] = Row(in.valued[g].cell, k - g - 2, value)
                 /\ value = "short" => k = Len(in.valued)
    <3> HIDE DEF StepCount
    <3>1. QED  BY <1>2, <2>1, Zenon DEF HychanOut
  <2>3. g \in Heads
    BY DEF Heads
  <2>4. k \in g + 2 .. g + StepCount + 1 =>
               \E value \in {"number", "none", "short"} :
                 in.valued[k] = Row(in.valued[g].cell, k - g - 2, value)
    BY <2>2
  <2>5. QED  BY <2>2, <2>3, <2>4 DEF CellAt
<1>5. g = h
  BY <1>3, <1>4, OneBlock DEF BlockOf
<1>6. k = h => in.valued[k].kind = "heading"
  BY DEF Heads
<1>7. k \in {h + 1, h + StepCount + 2} => in.valued[k].kind = "text"
  BY <1>4, <1>5 DEF Text
<1>8. k \in h + 2 .. h + StepCount + 1 =>
        /\ in.valued[k].kind = "row"
        /\ in.valued[k].cell = CellAt(h)
        /\ in.valued[k].step = k - h - 2
  BY <1>4, <1>5 DEF Row
<1>9. k = h \/ k \in {h + 1, h + StepCount + 2} \/ k \in h + 2 .. h + StepCount + 1
  BY <1>3
<1>10. ~(k = h /\ k \in {h + 1, h + StepCount + 2}) /\ ~(k = h /\ k \in h + 2 .. h + StepCount + 1)
       /\ ~(k \in {h + 1, h + StepCount + 2} /\ k \in h + 2 .. h + StepCount + 1)
  BY <1>3
<1>11. QED  BY <1>6, <1>7, <1>8, <1>9, <1>10

\* A line that is no heading is in the block of the line before.
LEMMA NextInBlock ==
  ASSUME Control, NEW h \in Heads, NEW p \in Nat, p \in BlockOf(h), p < Len(in.valued),
         in.valued[p + 1].kind # "heading"
  PROVE  p + 1 \in BlockOf(h)
<1>1. p + 1 \in 1 .. Len(in.valued) /\ h \in Int /\ StepCount \in Nat
  BY HychanLines
<1>2. PICK g \in Heads : p + 1 \in BlockOf(g)
  BY <1>1, HychanLines
<1>3. g # p + 1 /\ g \in Int
  BY HychanLines DEF Heads
<1>4. p \in BlockOf(g)
  BY <1>1, <1>2, <1>3 DEF BlockOf
<1>5. g = h
  BY <1>4, OneBlock
<1>6. QED  BY <1>2, <1>5

\* Between a heading and the end of its block there is no other.
LEMMA NoOtherHead ==
  ASSUME Control, NEW h \in Heads, NEW p \in BlockOf(h)
  PROVE  \A i \in h + 1 .. p : i \notin Heads
<1>1. \A g \in Heads : g > h => g > h + StepCount + 2
  BY HychanLines
<1>2. h \in Int /\ StepCount \in Nat
  BY HychanLines
<1>3. QED  BY <1>1, <1>2 DEF BlockOf

\* The rows of an element are those of its block.
LEMMA OwnRows ==
  ASSUME Control, NEW h \in Heads
  PROVE  LET m == RowsBehind(h, Len(in.valued)) IN
         /\ m \in Nat /\ (m > 0 => h + 1 + m <= Len(in.valued)) /\ m <= StepCount
         /\ RowsOf(in.valued, CellAt(h)) = FirstRows(h, m)
         /\ RowsOf(in.valued, CellAt(h)) \in Seq(AllLines)
         /\ Len(RowsOf(in.valued, CellAt(h))) = m
<1> DEFINE v == in.valued
           n == Len(v)
           m == RowsBehind(h, n)
           S == {l \in Range(v) : l.kind = "row" /\ l.cell = CellAt(h)}
<1>1. /\ StepCount \in Nat /\ n \in Nat /\ v \in Seq(AllLines) /\ DOMAIN v = 1 .. n
      /\ h \in 1 .. n
  BY HychanLines
<1>2. m \in Nat /\ (m > 0 => h + 1 + m <= n) /\ m <= StepCount
      /\ \A i \in 1 .. n : i \in h + 2 .. h + 1 + m <=> i \in h + 2 .. h + StepCount + 1
  <2>1. m = IF n < h + 2 THEN 0 ELSE IF n < h + StepCount + 1 THEN n - h - 1 ELSE StepCount
    BY DEF RowsBehind
  <2> HIDE DEF m, n, S
  <2>2. CASE n < h + 2
    BY <1>1, <2>1, <2>2
  <2>3. CASE ~(n < h + 2) /\ n < h + StepCount + 1
    BY <1>1, <2>1, <2>3
  <2>4. CASE ~(n < h + 2) /\ ~(n < h + StepCount + 1)
    BY <1>1, <2>1, <2>4
  <2>5. QED  BY <2>2, <2>3, <2>4
<1>3. \A i \in 1 .. n : v[i] \in S <=> v[i].kind = "row" /\ v[i].cell = CellAt(h)
  BY <1>1 DEF Range
<1>4. ASSUME NEW i \in 1 .. n
      PROVE  v[i] \in S <=> i \in h + 2 .. h + 1 + m
  <2>1. PICK g \in Heads : i \in BlockOf(g)
    BY HychanLines
  <2>2. /\ i \in g + 2 .. g + StepCount + 1 <=> v[i].kind = "row"
        /\ i \in g + 2 .. g + StepCount + 1 => v[i].cell = CellAt(g)
    BY <2>1, LineOfBlock
  <2>3. CASE g = h
    BY <1>2, <1>3, <2>2, <2>3
  <2>4. CASE g # h
    <3>1. CellAt(g) # CellAt(h)
      <4>1. g \in Int /\ h \in Int
        BY HychanLines
      <4>2. g < h \/ h < g
        BY <2>4, <4>1
      <4>3. QED  BY <4>2, HychanLines
    <3>2. v[i] \notin S
      BY <1>3, <2>2, <3>1
    <3>3. i \notin BlockOf(h)
      BY <2>1, <2>4, OneBlock
    <3>4. i \notin h + 2 .. h + StepCount + 1
      BY <1>1, <3>3 DEF BlockOf
    <3>5. QED  BY <1>2, <3>2, <3>4
  <2>5. QED  BY <2>3, <2>4
<1> HIDE DEF S, m
<1>5. RowsOf(v, CellAt(h)) = Kept(v, S)
  BY DEF RowsOf, S
<1>6. CASE h = n
  <2>1. m = 0
    BY <1>1, <1>6 DEF m, RowsBehind
  <2>2. \A i \in 0 + 1 .. n : v[i] \notin S
    BY <1>1, <1>4, <1>6, <2>1
  <2>3. Kept(v, S) = << >>
    <3>1. 0 \in 0 .. n /\ n \in 0 .. n
      BY <1>1
    <3>2. KeptUpTo(v, S)[n] = KeptUpTo(v, S)[0]
      BY <1>1, <2>2, <3>1, KeptNone
    <3>3. QED  BY <1>1, <3>2, KeptSteps DEF Kept
  <2>4. FirstRows(h, m) = << >>
    BY <1>1, <2>1 DEF FirstRows
  <2>5. QED  BY <1>2, <1>5, <2>1, <2>3, <2>4 DEF m
<1>7. CASE h # n
  <2> DEFINE q == SubSeq(v, h + 2, h + 1 + m)
  <2>1. h + 2 \in 1 .. n + 1 /\ h + 1 + m \in (h + 2) - 1 .. n
    BY <1>1, <1>2, <1>7
  <2>2. \A i \in 1 .. n : v[i] \in S <=> i \in h + 2 .. h + 1 + m /\ v[i] \in S
    BY <1>4
  <2>3. Kept(q, S) = Kept(v, S)
    BY <1>1, <2>1, <2>2, KeptOfPart
  <2>4. q \in Seq(AllLines) /\ Len(q) = m /\ \A i \in 1 .. m : q[i] = v[h + 2 + i - 1]
    <3>1. h + 2 \in Int /\ h + 1 + m \in Int /\ \A i \in h + 2 .. h + 1 + m : i \in 1 .. n
      BY <2>1
    <3>2. (h + 1 + m) - (h + 2) + 1 = m
      BY <1>1, <1>2
    <3>3. QED  BY <1>1, <1>2, <2>1, <3>1, <3>2
  <2>5. \A i \in 1 .. Len(q) : q[i] \in S
    <3> TAKE i \in 1 .. Len(q)
    <3>1. h + 2 + i - 1 \in h + 2 .. h + 1 + m /\ h + 2 + i - 1 \in 1 .. n
      BY <1>1, <1>2, <2>1, <2>4
    <3>2. QED  BY <1>4, <2>4, <3>1
  <2> HIDE DEF q
  <2>6. Kept(q, S) = q
    BY <2>4, <2>5, KeptAll
  <2>7. FirstRows(h, m) = q
    BY DEF FirstRows, q
  <2>8. QED  BY <1>2, <1>5, <2>3, <2>4, <2>6, <2>7 DEF m
<1>8. QED  BY <1>6, <1>7

\* A series is whole when the file has as many of its rows as were counted.
LEMMA WholeSeries ==
  ASSUME Control, NEW h \in Heads
  PROVE  /\ Whole(in.valued, CellAt(h)) <=>
              0 < length /\ length <= RowsBehind(h, Len(in.valued))
         /\ Whole(in.valued, CellAt(h)) =>
              /\ Countable
              /\ SubSeq(RowsOf(in.valued, CellAt(h)), 1, length) = FirstRows(h, length)
<1> DEFINE v == in.valued
           m == RowsBehind(h, Len(v))
           all == RowsOf(v, CellAt(h))
<1>1. /\ m \in Nat /\ m <= StepCount /\ (m > 0 => h + 1 + m <= Len(v))
      /\ all = FirstRows(h, m) /\ all \in Seq(AllLines) /\ Len(all) = m
  BY OwnRows
<1>2. /\ length \in Nat /\ StepCount \in Nat /\ Len(v) \in Nat /\ v \in Seq(AllLines)
      /\ h \in 1 .. Len(v)
  BY HychanLines DEF Control
<1> HIDE DEF m, all
<1>3. Whole(v, CellAt(h)) <=> 0 < length /\ length <= m
  BY <1>1, <1>2 DEF Whole, all
<1>4. ASSUME 0 < length, length <= m
      PROVE  SubSeq(all, 1, length) = FirstRows(h, length)
  <2>1. h + 1 + m <= Len(v) /\ h + 1 + length <= Len(v)
    BY <1>1, <1>2, <1>4
  <2> DEFINE f(k) == SubSeq(v, h + 2, h + 1 + k)
  <2>2. ASSUME NEW k \in Nat, h + 1 + k <= Len(v)
        PROVE  f(k) \in Seq(AllLines) /\ Len(f(k)) = k /\ \A i \in 1 .. k : f(k)[i] = v[h + 2 + i - 1]
    <3>1. h + 2 \in Int /\ h + 1 + k \in Int /\ \A i \in h + 2 .. h + 1 + k : i \in 1 .. Len(v)
      BY <1>2, <2>2
    <3>2. (h + 1 + k) - (h + 2) + 1 = k
      BY <1>2
    <3>3. QED  BY <1>2, <2>2, <3>1, <3>2
  <2> HIDE DEF f
  <2>3. all = f(m)
    BY <1>1 DEF FirstRows, f
  <2>4. /\ SubSeq(all, 1, length) \in Seq(AllLines) /\ Len(SubSeq(all, 1, length)) = length
        /\ \A i \in 1 .. length : SubSeq(all, 1, length)[i] = all[i]
    BY <1>1, <1>2, <1>4
  <2>5. /\ f(m) \in Seq(AllLines) /\ \A i \in 1 .. m : f(m)[i] = v[h + 2 + i - 1]
        /\ f(length) \in Seq(AllLines) /\ Len(f(length)) = length
        /\ \A i \in 1 .. length : f(length)[i] = v[h + 2 + i - 1]
    BY <1>1, <1>2, <2>1, <2>2
  <2>6. \A i \in 1 .. length : SubSeq(all, 1, length)[i] = f(length)[i]
    <3> TAKE i \in 1 .. length
    <3>1. i \in 1 .. m
      BY <1>1, <1>2, <1>4
    <3>2. QED  BY <2>3, <2>4, <2>5, <3>1
  <2> DEFINE a == SubSeq(all, 1, length)
  <2> HIDE DEF a
  <2>7. a = f(length)
    BY <2>4, <2>5, <2>6, SeqEqual DEF a
  <2>8. QED  BY <2>7 DEF a, f, FirstRows
<1>5. 0 < length /\ length <= m => Countable
  BY <1>1, <1>2 DEF Countable
<1>6. QED  BY <1>3, <1>4, <1>5 DEF m, all

\* The headings of whole series of wanted elements.
LEMMA WantedHeading ==
  ASSUME Control, NEW i \in 1 .. Len(in.valued)
  PROVE  in.valued[i] \in WholeHeadings(in.valued) <=>
           i \in Heads /\ CellAt(i) \in Wanted /\ Whole(in.valued, CellAt(i))
<1>1. DOMAIN in.valued = 1 .. Len(in.valued)
  BY HychanLines
<1>2. in.valued[i] \in Range(in.valued)
  BY <1>1 DEF Range
<1>3. QED  BY <1>1, <1>2 DEF WholeHeadings, Heads, CellAt

LEMMA StoredSteps ==
  ASSUME Control
  PROVE  /\ StoredUpTo(0) = << >>
         /\ \A q \in 0 .. Len(in.valued) :
              StoredUpTo(q) \in Seq({Result(c) : c \in Wanted})
         /\ \A q \in 1 .. Len(in.valued) :
              q \in Heads /\ CellAt(q) \in Wanted /\ Whole(in.valued, CellAt(q)) =>
                StoredUpTo(q) = Append(StoredUpTo(q - 1), Result(CellAt(q)))
         /\ \A m, n \in 0 .. Len(in.valued) :
              m <= n /\ (\A i \in m + 1 .. n : in.valued[i] \notin WholeHeadings(in.valued)) =>
                StoredUpTo(n) = StoredUpTo(m)
<1> DEFINE v == in.valued
           W == WholeHeadings(v)
           k == KeptUpTo(v, W)
<1>1. v \in Seq(AllLines) /\ Len(v) \in Nat
  BY HychanLines
<1>2. k[0] = << >> /\ \A i \in 1 .. Len(v) : k[i] = IF v[i] \in W THEN Append(k[i - 1], v[i])
                                                  ELSE k[i - 1]
  BY <1>1, KeptSteps
<1>3. \A q \in 0 .. Len(v) :
        k[q] \in Seq(AllLines) /\ \A i \in 1 .. Len(k[q]) : k[q][i] \in W
  BY <1>1, KeptElements
<1>4. \A l \in W : l.cell \in Wanted
  BY DEF WholeHeadings
<1>5. \A m, n \in 0 .. Len(v) : m <= n /\ (\A i \in m + 1 .. n : v[i] \notin W) => k[n] = k[m]
  <2> HIDE DEF k, W
  <2> TAKE m, n \in 0 .. Len(v)
  <2> HAVE m <= n /\ (\A i \in m + 1 .. n : v[i] \notin W)
  <2>1. n \in m .. Len(v)
    BY <1>1
  <2>2. QED  BY <1>1, <2>1, KeptNone DEF k
<1> HIDE DEF k
<1>6. \A q : StoredUpTo(q) = [j \in DOMAIN k[q] |-> Result(k[q][j].cell)]
  BY DEF StoredUpTo, k
<1>7. StoredUpTo(0) = << >>
  BY <1>2, <1>6
<1> DEFINE R == {Result(c) : c \in Wanted}
<1>8. ASSUME NEW q \in 0 .. Len(v)
      PROVE  StoredUpTo(q) \in Seq(R)
  <2>1. k[q] \in Seq(AllLines) /\ \A i \in 1 .. Len(k[q]) : k[q][i].cell \in Wanted
    BY <1>3, <1>4
  <2>2. \A i \in 1 .. Len(k[q]) : Result(k[q][i].cell) \in R
    BY <2>1
  <2> HIDE DEF R
  <2>3. DOMAIN k[q] = 1 .. Len(k[q]) /\ Len(k[q]) \in Nat
    BY <2>1
  <2>4. [j \in 1 .. Len(k[q]) |-> Result(k[q][j].cell)] \in Seq(R)
    BY <2>2, <2>3
  <2>5. QED  BY <1>6, <2>3, <2>4
<1>9. ASSUME NEW q \in 1 .. Len(v), v[q] \in W
      PROVE  StoredUpTo(q) = Append(StoredUpTo(q - 1), Result(CellAt(q)))
  <2> DEFINE n == Len(k[q - 1])
  <2>1. k[q] = Append(k[q - 1], v[q]) /\ q - 1 \in 0 .. Len(v) /\ q \in 0 .. Len(v)
    <3> HIDE DEF W, k
    <3>1. k[q] = IF v[q] \in W THEN Append(k[q - 1], v[q]) ELSE k[q - 1]
      BY <1>2, Zenon
    <3>2. k[q] = Append(k[q - 1], v[q])
      BY <1>9, <3>1, Zenon
    <3>3. q - 1 \in 0 .. Len(v) /\ q \in 0 .. Len(v)
      BY <1>1
    <3>4. QED  BY <3>2, <3>3
  <2>2. k[q - 1] \in Seq(AllLines) /\ v[q] \in AllLines
    BY <1>1, <1>3, <2>1
  <2>3. /\ n \in Nat /\ DOMAIN k[q - 1] = 1 .. n /\ DOMAIN k[q] = 1 .. n + 1
        /\ k[q][n + 1] = v[q] /\ \A i \in 1 .. n : k[q][i] = k[q - 1][i]
    BY <2>1, <2>2
  <2> DEFINE f == [j \in 1 .. n + 1 |-> Result(k[q][j].cell)]
             g == [j \in 1 .. n |-> Result(k[q - 1][j].cell)]
  <2>4. StoredUpTo(q) = f /\ StoredUpTo(q - 1) = g
    BY <1>6, <2>3
  <2> HIDE DEF n
  <2>5. f[n + 1] = Result(CellAt(q))
    BY <2>3 DEF CellAt
  <2>6. [j \in 1 .. n |-> f[j]] = g
    BY <2>3
  <2> DEFINE X == {Result(k[q][j].cell) : j \in 1 .. n + 1}
  <2>7. f \in [1 .. n + 1 -> X]
    OBVIOUS
  <2> HIDE DEF f, g, X
  <2>8. f = Append([j \in 1 .. n |-> f[j]], f[n + 1])
    BY <2>3, <2>7, LastAppended
  <2>9. QED  BY <2>4, <2>5, <2>6, <2>8
<1>10. ASSUME NEW q \in 1 .. Len(v), q \in Heads, CellAt(q) \in Wanted, Whole(v, CellAt(q))
       PROVE  v[q] \in W
  BY <1>10, WantedHeading
<1>11. \A m, n \in 0 .. Len(v) :
         m <= n /\ (\A i \in m + 1 .. n : v[i] \notin W) => StoredUpTo(n) = StoredUpTo(m)
  BY <1>5, <1>6
<1> HIDE DEF W
<1>12. QED  BY <1>7, <1>8, <1>9, <1>10, <1>11 DEF W

LEMMA Prefixed ==
  ASSUME NEW S, NEW a \in S, NEW q \in Seq(S)
  PROVE  /\ <<a>> \o q \in Seq(S) /\ Len(<<a>> \o q) = Len(q) + 1
         /\ (<<a>> \o q)[1] = a
         /\ \A j \in 1 .. Len(q) : (<<a>> \o q)[j + 1] = q[j]
<1> DEFINE one == <<a>>
<1>1. one \in Seq(S) /\ Len(one) = 1 /\ one[1] = a
  OBVIOUS
<1> HIDE DEF one
<1>2. /\ one \o q \in Seq(S) /\ Len(one \o q) = 1 + Len(q) /\ Len(q) \in Nat
      /\ \A j \in 1 .. 1 + Len(q) : (one \o q)[j] = IF j <= 1 THEN one[j] ELSE q[j - 1]
  <2>1. Len(one \o q) = Len(one) + Len(q)
    BY <1>1, ConcatProperties
  <2>2. one \o q \in Seq(S)
    BY <1>1, ConcatProperties
  <2>3. \A j \in 1 .. Len(one) + Len(q) :
          (one \o q)[j] = IF j <= Len(one) THEN one[j] ELSE q[j - Len(one)]
    BY <1>1, ConcatProperties
  <2>4. QED  BY <1>1, <2>1, <2>2, <2>3
<1>3. (one \o q)[1] = a
  BY <1>1, <1>2
<1>4. \A j \in 1 .. Len(q) : (one \o q)[j + 1] = q[j]
  <2> TAKE j \in 1 .. Len(q)
  <2>1. j + 1 \in 1 .. 1 + Len(q) /\ ~(j + 1 <= 1) /\ (j + 1) - 1 = j
    BY <1>2
  <2>2. QED  BY <1>2, <2>1
<1>5. QED  BY <1>2, <1>3, <1>4 DEF one

\* Gathering a row.
LEMMA GatheredRows ==
  ASSUME Control, NEW h \in Heads, NEW k \in Nat, k > 0 => h + 1 + k <= Len(in.valued)
  PROVE  /\ Gathered(h, k) \in Seq(AllLines) /\ Gathered(h, k) # << >>
         /\ Gathered(h, k)[1] = in.valued[h]
         /\ Tail(Gathered(h, k)) = FirstRows(h, k)
         /\ k = 0 => Gathered(h, k) = <<in.valued[h]>>
         /\ h + 2 + k <= Len(in.valued) =>
              Append(Gathered(h, k), in.valued[h + 2 + k]) = Gathered(h, k + 1)
<1> DEFINE v == in.valued
           r(i) == FirstRows(h, i)
<1>1. v \in Seq(AllLines) /\ Len(v) \in Nat /\ h \in 1 .. Len(v) /\ v[h] \in AllLines
  BY HychanLines
<1>2. ASSUME NEW i \in Nat, i > 0 => h + 1 + i <= Len(v)
      PROVE  r(i) \in Seq(AllLines) /\ Len(r(i)) = i /\ \A j \in 1 .. i : r(i)[j] = v[h + 1 + j]
  <2> DEFINE q == SubSeq(v, h + 2, h + 1 + i)
  <2>1. h + 2 \in Int /\ h + 1 + i \in Int /\ \A j \in h + 2 .. h + 1 + i : j \in 1 .. Len(v)
    BY <1>1, <1>2
  <2>2. (h + 1 + i) - (h + 2) + 1 = i
    BY <1>1
  <2>3. q \in Seq(AllLines) /\ Len(q) = i
    BY <1>1, <2>1, <2>2
  <2>4. \A j \in 1 .. i : q[j] = v[h + 2 + j - 1] /\ h + 2 + j - 1 = h + 1 + j
    BY <1>1, <2>1, <2>2
  <2>5. QED  BY <2>3, <2>4 DEF FirstRows
<1>3. ASSUME NEW i \in Nat, i > 0 => h + 1 + i <= Len(v)
      PROVE  /\ Gathered(h, i) \in Seq(AllLines) /\ Len(Gathered(h, i)) = i + 1
             /\ Gathered(h, i)[1] = v[h]
             /\ \A j \in 1 .. i : Gathered(h, i)[j + 1] = v[h + 1 + j]
  <2> DEFINE q == r(i)
  <2>1. q \in Seq(AllLines) /\ Len(q) = i /\ \A j \in 1 .. i : q[j] = v[h + 1 + j]
    BY <1>2, <1>3
  <2>2. Gathered(h, i) = <<v[h]>> \o q
    BY DEF Gathered
  <2> HIDE DEF q
  <2>3. /\ <<v[h]>> \o q \in Seq(AllLines) /\ Len(<<v[h]>> \o q) = Len(q) + 1
        /\ (<<v[h]>> \o q)[1] = v[h]
        /\ \A j \in 1 .. Len(q) : (<<v[h]>> \o q)[j + 1] = q[j]
    BY <1>1, <2>1, Prefixed
  <2>4. QED  BY <2>1, <2>2, <2>3
<1> DEFINE g == Gathered(h, k)
<1>4. /\ g \in Seq(AllLines) /\ Len(g) = k + 1 /\ g[1] = v[h]
      /\ \A j \in 1 .. k : g[j + 1] = v[h + 1 + j]
  BY <1>3
<1> HIDE DEF g
<1>5. g # << >>
  BY <1>4
<1>6. Tail(g) = r(k)
  <2>1. r(k) \in Seq(AllLines) /\ Len(r(k)) = k /\ \A j \in 1 .. k : r(k)[j] = v[h + 1 + j]
    BY <1>2
  <2> DEFINE t == Tail(g)
  <2>2. t \in Seq(AllLines) /\ Len(t) = k /\ \A j \in 1 .. k : t[j] = g[j + 1]
    BY <1>4, <1>5
  <2> HIDE DEF t, r
  <2>3. \A j \in 1 .. Len(t) : t[j] = r(k)[j]
    BY <1>4, <2>1, <2>2
  <2>4. t = r(k)
    BY <2>1, <2>2, <2>3, SeqEqual
  <2>5. QED  BY <2>4 DEF t
<1>7. ASSUME k = 0 PROVE g = <<v[h]>>
  <2>1. <<v[h]>> \in Seq(AllLines) /\ Len(<<v[h]>>) = 1 /\ <<v[h]>>[1] = v[h]
    BY <1>1
  <2> DEFINE one == <<v[h]>>
  <2> HIDE DEF one
  <2>2. g = one
    BY <1>4, <1>7, <2>1, SeqEqual DEF one
  <2>3. QED  BY <2>2 DEF one
<1>8. ASSUME h + 2 + k <= Len(v)
      PROVE  Append(g, v[h + 2 + k]) = Gathered(h, k + 1)
  <2> DEFINE a == Append(g, v[h + 2 + k])
             b == Gathered(h, k + 1)
  <2>1. k + 1 \in Nat /\ h + 1 + (k + 1) <= Len(v) /\ h + 1 + (k + 1) = h + 2 + k
    BY <1>1, <1>8
  <2>2. /\ b \in Seq(AllLines) /\ Len(b) = (k + 1) + 1 /\ b[1] = v[h]
        /\ \A j \in 1 .. k + 1 : b[j + 1] = v[h + 1 + j]
    BY <1>3, <2>1
  <2>3. v[h + 2 + k] \in AllLines
    BY <1>1, <1>8
  <2>4. /\ a \in Seq(AllLines) /\ Len(a) = (k + 1) + 1 /\ a[k + 2] = v[h + 2 + k]
        /\ \A j \in 1 .. k + 1 : a[j] = g[j]
    BY <1>4, <2>3
  <2> HIDE DEF a, b
  <2>5. \A j \in 1 .. (k + 1) + 1 : a[j] = b[j]
    <3> TAKE j \in 1 .. (k + 1) + 1
    <3>1. CASE j = 1
      BY <1>4, <2>2, <2>4, <3>1
    <3>2. CASE j \in 2 .. k + 1
      <4>1. j - 1 \in 1 .. k /\ j - 1 \in 1 .. k + 1 /\ (j - 1) + 1 = j /\ j \in 1 .. k + 1
        BY <3>2
      <4>2. a[j] = g[j] /\ g[j] = v[h + 1 + (j - 1)]
        BY <1>4, <2>4, <4>1
      <4>3. b[j] = v[h + 1 + (j - 1)]
        BY <2>2, <4>1
      <4>4. QED  BY <4>2, <4>3
    <3>3. CASE j = k + 2
      <4>1. k + 1 \in 1 .. k + 1 /\ (k + 1) + 1 = k + 2
        OBVIOUS
      <4>2. b[k + 2] = v[h + 1 + (k + 1)]
        BY <2>2, <4>1
      <4>3. QED  BY <2>1, <2>4, <3>3, <4>2
    <3>4. QED  BY <3>1, <3>2, <3>3
  <2>6. a = b
    BY <2>2, <2>4, <2>5, SeqEqual
  <2>7. QED  BY <2>6 DEF a, b
<1>9. QED  BY <1>4, <1>5, <1>6, <1>7, <1>8 DEF g

\* The series at h is being collected.
Collecting(h) ==
  /\ CellAt(h) \in Wanted
  /\ pos \in BlockOf(h)
  /\ size = RowsBehind(h, pos)
  /\ Countable => size < length /\ lines = Gathered(h, size)

\* What is stored are the whole series of the lines behind, but for the one that
\* is being collected; where no series has as many rows as were counted, lines
\* of several elements may gather, and none is stored.
ChannelInv ==
  /\ pass \in {"count", "values", "store"} => in.program # "grid"
  /\ pass \in {"flood", "store"} => in.program # "discharge"
  /\ pass = "count" \/ in.program = "grid" => saved = << >>
  /\ pass = "values" =>
       /\ pos <= Len(in.valued)
       /\ inSeries => \E h \in Heads : Collecting(h) /\ saved = StoredUpTo(h - 1)
       /\ ~inSeries => saved = StoredUpTo(pos) /\ (Countable => lines = << >>)
  /\ pass \in {"flood", "store"} /\ in.program # "grid" => saved = StoredUpTo(Len(in.valued))
  /\ pass = "ended" /\ in.program # "grid" =>
       \E F \in Seq({Series(c, flood[c]) : c \in FloodCells}) :
         saved = StoredUpTo(Len(in.valued)) \o F
  /\ pass = "failed" => \E q \in 0 .. Len(in.valued) : saved = StoredUpTo(q)

\* What the file and the count say stays.
LEMMA SameFile ==
  ASSUME in' = in
  PROVE  /\ StepCount' = StepCount /\ Heads' = Heads
         /\ \A h : CellAt(h)' = CellAt(h) /\ BlockOf(h)' = BlockOf(h)
         /\ \A h, p : RowsBehind(h, p)' = RowsBehind(h, p)
         /\ \A h, k : Gathered(h, k)' = Gathered(h, k)
         /\ \A c, rows : Series(c, rows)' = Series(c, rows)
         /\ length' = length =>
              /\ Countable' = Countable
              /\ \A q : StoredUpTo(q)' = StoredUpTo(q)
<1>1. StepCount' = StepCount /\ Heads' = Heads
  BY DEF StepCount, Heads
<1>2. \A h : CellAt(h)' = CellAt(h) /\ BlockOf(h)' = BlockOf(h)
  BY <1>1 DEF CellAt, BlockOf
<1>3. \A h, p : RowsBehind(h, p)' = RowsBehind(h, p)
  BY <1>1 DEF RowsBehind
<1>4. \A h, k : Gathered(h, k)' = Gathered(h, k)
  BY DEF Gathered, FirstRows
<1>5. \A c, rows : Series(c, rows)' = Series(c, rows)
  BY DEF Series, Stored
<1>6. ASSUME length' = length
      PROVE  Countable' = Countable /\ \A q : StoredUpTo(q)' = StoredUpTo(q)
  <2>1. Countable' = Countable
    BY <1>1, <1>6 DEF Countable
  <2>2. \A c : Result(c)' = Result(c)
    BY <1>5, <1>6 DEF Result
  <2>3. WholeHeadings(in.valued)' = WholeHeadings(in.valued)
    BY <1>6 DEF WholeHeadings, Whole
  <2>4. QED  BY <2>1, <2>2, <2>3 DEF StoredUpTo
<1>7. QED  BY <1>1, <1>2, <1>3, <1>4, <1>5, <1>6

\* A series that is still being collected at the next heading, or at the end of
\* the file, is not whole.
LEMMA Unfinished ==
  ASSUME Control, NEW h \in Heads, Collecting(h), pos <= Len(in.valued),
         pos = Len(in.valued) \/ pos + 1 \in Heads
  PROVE  /\ StoredUpTo(pos) = StoredUpTo(h - 1)
         /\ pos + 1 \in Heads => ~Countable
<1>1. /\ h \in 1 .. Len(in.valued) /\ StepCount \in Nat /\ pos \in BlockOf(h)
      /\ Len(in.valued) \in Nat /\ pos \in Nat /\ length \in Nat
      /\ size = RowsBehind(h, pos)
  BY HychanLines DEF Collecting, Control
<1>2. ASSUME pos + 1 \in Heads
      PROVE  ~Countable
  <2>1. pos + 1 > h
    BY <1>1 DEF BlockOf
  <2>2. h + StepCount + 2 < pos + 1
    BY <1>2, <2>1, HychanLines
  <2>3. pos = h + StepCount + 2
    BY <1>1, <2>2 DEF BlockOf
  <2>4. size = StepCount
    BY <1>1, <2>3 DEF RowsBehind
  <2>5. QED  BY <1>1, <2>4 DEF Collecting, Countable
<1>3. ~Whole(in.valued, CellAt(h))
  <2>1. CASE pos = Len(in.valued)
    <3>1. Whole(in.valued, CellAt(h)) => Countable /\ length <= size
      BY <1>1, <2>1, WholeSeries
    <3>2. size \in Int
      BY DEF Control
    <3>3. QED  BY <1>1, <3>1, <3>2 DEF Collecting
  <2>2. CASE pos + 1 \in Heads
    BY <1>2, <2>2, WholeSeries
  <2>3. QED  BY <2>1, <2>2
<1>4. \A i \in (h - 1) + 1 .. pos : in.valued[i] \notin WholeHeadings(in.valued)
  <2> TAKE i \in (h - 1) + 1 .. pos
  <2>1. i \in 1 .. Len(in.valued)
    BY <1>1
  <2>2. i = h \/ i \in h + 1 .. pos
    BY <1>1
  <2>3. i = h \/ i \notin Heads
    BY <1>1, <2>2, NoOtherHead
  <2>4. QED  BY <1>3, <2>1, <2>3, WantedHeading
<1>5. h - 1 \in 0 .. Len(in.valued) /\ pos \in 0 .. Len(in.valued) /\ h - 1 <= pos
  BY <1>1 DEF BlockOf
<1>6. StoredUpTo(pos) = StoredUpTo(h - 1)
  BY <1>4, <1>5, StoredSteps
<1>7. QED  BY <1>2, <1>6

\* A line that is no heading of a wanted element stores nothing.
LEMMA NothingStored ==
  ASSUME Control, NEW p \in 0 .. Len(in.valued) - 1,
         p + 1 \notin Heads \/ CellAt(p + 1) \notin Wanted
  PROVE  StoredUpTo(p + 1) = StoredUpTo(p)
<1>1. /\ p \in 0 .. Len(in.valued) /\ p + 1 \in 0 .. Len(in.valued) /\ p <= p + 1
      /\ p + 1 \in 1 .. Len(in.valued)
  BY HychanLines
<1>2. in.valued[p + 1] \notin WholeHeadings(in.valued)
  BY <1>1, WantedHeading
<1>3. \A i \in p + 1 .. p + 1 : in.valued[i] \notin WholeHeadings(in.valued)
  BY <1>2
<1>4. QED  BY <1>1, <1>3, StoredSteps

\* The next line in the second pass.
LEMMA NextValue ==
  ASSUME Control, pass = "values", More
  PROVE  /\ pos \in 0 .. Len(in.valued) - 1 /\ pos + 1 \in 1 .. Len(in.valued)
         /\ Line = in.valued[pos + 1]
         /\ Line.kind = "heading" <=> pos + 1 \in Heads
<1>1. File = in.valued
  BY DEF File
<1>2. pos \in Nat /\ pos < Len(in.valued)
  BY <1>1 DEF Control, More
<1>3. Len(in.valued) \in Nat /\ DOMAIN in.valued = 1 .. Len(in.valued)
  BY HychanLines
<1>4. QED  BY <1>1, <1>2, <1>3 DEF Line, Heads

LEMMA ChannelInit == Init => ChannelInv
<1> SUFFICES ASSUME Init PROVE ChannelInv
  OBVIOUS
<1>1. in.program \in {"level", "discharge", "grid"}
  BY InputsAssumption DEF Init
<1>2. QED  BY <1>1 DEF Init, ChannelInv

\* At its beginning the second pass has stored nothing, whatever was counted.
LEMMA NothingYet ==
  ASSUME Control, in' = in
  PROVE  StoredUpTo(0)' = << >>
<1>1. Len(in.valued) \in Nat
  BY HychanLines
<1>2. KeptUpTo(in.valued, WholeHeadings(in.valued)')[0] = << >>
  BY <1>1, KeptSteps
<1>3. (in.valued)' = in.valued
  OBVIOUS
<1>4. StoredUpTo(0)' = [j \in DOMAIN << >> |-> Result(<< >>[j].cell)']
  BY <1>2, <1>3 DEF StoredUpTo
<1>5. QED  BY <1>4

\* What is to be shown of a step within the second pass.
LEMMA StillReading ==
  ASSUME Control, ChannelInv, in' = in, length' = length, pass = "values", pass' = "values",
         pos' \in 0 .. Len(in.valued),
         inSeries' => \E h \in Heads :
           /\ CellAt(h) \in Wanted
           /\ pos' \in BlockOf(h)
           /\ size' = RowsBehind(h, pos')
           /\ Countable => size' < length /\ lines' = Gathered(h, size')
           /\ saved' = StoredUpTo(h - 1),
         ~inSeries' => saved' = StoredUpTo(pos') /\ (Countable => lines' = << >>)
  PROVE  ChannelInv'
<1>1. in'.program # "grid" /\ (in.valued)' = in.valued
  BY DEF ChannelInv
<1>2. Len(in.valued) \in Nat /\ pos' <= Len(in.valued)
  BY HychanLines
<1>3. inSeries' => \E h \in Heads' : Collecting(h)' /\ saved' = StoredUpTo(h - 1)'
  <2> SUFFICES ASSUME inSeries'
               PROVE  \E h \in Heads' : Collecting(h)' /\ saved' = StoredUpTo(h - 1)'
    OBVIOUS
  <2>1. PICK h \in Heads :
           /\ CellAt(h) \in Wanted
           /\ pos' \in BlockOf(h)
           /\ size' = RowsBehind(h, pos')
           /\ Countable => size' < length /\ lines' = Gathered(h, size')
           /\ saved' = StoredUpTo(h - 1)
    OBVIOUS
  <2>2. /\ h \in Heads' /\ CellAt(h)' = CellAt(h) /\ BlockOf(h)' = BlockOf(h)
        /\ Countable' = Countable /\ StoredUpTo(h - 1)' = StoredUpTo(h - 1)
    BY SameFile
  <2>3. RowsBehind(h, pos)' = RowsBehind(h, pos')
    BY SameFile DEF RowsBehind
  <2>4. Gathered(h, size)' = Gathered(h, size')
    BY DEF Gathered, FirstRows
  <2>5. Collecting(h)'
    BY <2>1, <2>2, <2>3, <2>4 DEF Collecting
  <2>6. QED  BY <2>1, <2>2, <2>5
<1>4. ~inSeries' => saved' = StoredUpTo(pos)' /\ (Countable' => lines' = << >>)
  <2>1. Countable' = Countable
    BY SameFile
  <2>2. StoredUpTo(pos)' = StoredUpTo(pos')
    BY SameFile
  <2>3. QED  BY <2>1, <2>2
<1>5. pass' # "count" /\ pass' # "store" /\ pass' # "flood" /\ pass' # "ended" /\ pass' # "failed"
  OBVIOUS
<1>6. QED  BY <1>1, <1>2, <1>3, <1>4, <1>5 DEF ChannelInv

LEMMA CountKeepsChannel ==
  ASSUME Control, ChannelInv, CountLine \/ CountEnds
  PROVE  ChannelInv'
<1>1. /\ pass = "count" /\ pass' \in {"count", "values"} /\ in' = in /\ saved' = saved
      /\ pass' = "values" => pos' = 0 /\ inSeries' = FALSE /\ lines' = << >>
  BY DEF CountLine, CountEnds, Begin
<1>2. saved = << >> /\ in.program # "grid" /\ Len(in.valued) \in Nat
  BY <1>1, HychanLines DEF ChannelInv
<1>3. StoredUpTo(0)' = << >>
  BY <1>1, NothingYet
<1>4. pass' = "values" => StoredUpTo(pos)' = << >>
  BY <1>1, <1>3
<1>5. QED  BY <1>1, <1>2, <1>4 DEF ChannelInv

LEMMA HeadingKeepsChannel ==
  ASSUME Control, ChannelInv, ValuesHeading
  PROVE  ChannelInv'
<1> DEFINE h == pos + 1
<1>1. /\ pass = "values" /\ pass' = "values" /\ More /\ Line.kind = "heading"
      /\ UNCHANGED <<in, length, saved>> /\ pos' = h /\ size' = 0
      /\ inSeries' <=> Line.cell \in Wanted
      /\ lines' = IF Line.cell \in Wanted THEN Append(lines, Line) ELSE lines
  BY DEF ValuesHeading
<1>2. /\ pos \in 0 .. Len(in.valued) - 1 /\ h \in 1 .. Len(in.valued) /\ h \in Heads
      /\ Line = in.valued[h] /\ Line.cell = CellAt(h)
  BY <1>1, NextValue DEF CellAt
<1>3. saved = StoredUpTo(pos) /\ (Countable => lines = << >>)
  <2>1. CASE inSeries
    <3>1. PICK g \in Heads : Collecting(g) /\ saved = StoredUpTo(g - 1)
      BY <1>1, <2>1 DEF ChannelInv
    <3>2. pos <= Len(in.valued)
      BY <1>1 DEF ChannelInv
    <3>3. StoredUpTo(pos) = StoredUpTo(g - 1) /\ ~Countable
      BY <1>2, <3>1, <3>2, Unfinished
    <3>4. QED  BY <3>1, <3>3
  <2>2. CASE ~inSeries
    BY <1>1, <2>2 DEF ChannelInv
  <2>3. QED  BY <2>1, <2>2
<1>4. Len(in.valued) \in Nat /\ pos' \in 0 .. Len(in.valued) /\ StepCount \in Nat
  BY <1>1, <1>2, HychanLines
<1>5. CASE CellAt(h) \in Wanted
  <2>1. inSeries' /\ lines' = Append(lines, in.valued[h])
    BY <1>1, <1>2, <1>5
  <2>2. h \in BlockOf(h) /\ RowsBehind(h, h) = 0
    BY <1>2, <1>4 DEF BlockOf, RowsBehind
  <2>3. Countable => 0 < length /\ lines' = Gathered(h, 0)
    <3>1. Gathered(h, 0) = <<in.valued[h]>>
      BY <1>2, GatheredRows
    <3>2. Append(<< >>, in.valued[h]) = <<in.valued[h]>>
      BY Pairs
    <3>3. QED  BY <1>3, <2>1, <3>1, <3>2 DEF Countable
  <2>4. saved' = StoredUpTo(h - 1)
    BY <1>1, <1>2, <1>3
  <2> HIDE DEF h
  <2>5. \E g \in Heads :
           /\ CellAt(g) \in Wanted
           /\ pos' \in BlockOf(g)
           /\ size' = RowsBehind(g, pos')
           /\ Countable => size' < length /\ lines' = Gathered(g, size')
           /\ saved' = StoredUpTo(g - 1)
    BY <1>1, <1>2, <1>5, <2>2, <2>3, <2>4
  <2>6. QED  BY <1>1, <1>4, <2>1, <2>5, StillReading
<1>6. CASE CellAt(h) \notin Wanted
  <2>1. ~inSeries' /\ lines' = lines
    BY <1>1, <1>2, <1>6
  <2>2. StoredUpTo(h) = StoredUpTo(pos)
    BY <1>2, <1>6, NothingStored
  <2>3. saved' = StoredUpTo(pos') /\ (Countable => lines' = << >>)
    BY <1>1, <1>3, <2>1, <2>2
  <2>4. QED  BY <1>1, <1>4, <2>1, <2>3, StillReading
<1>7. QED  BY <1>5, <1>6

LEMMA PassKeepsChannel ==
  ASSUME Control, ChannelInv, ValuesPass
  PROVE  ChannelInv'
<1> DEFINE p == pos + 1
<1>1. /\ pass = "values" /\ pass' = "values" /\ More /\ Line.kind # "heading"
      /\ ~inSeries \/ Line.kind # "row"
      /\ UNCHANGED <<in, length, saved, inSeries, size, lines>> /\ pos' = p
  BY DEF ValuesPass
<1>2. /\ pos \in 0 .. Len(in.valued) - 1 /\ p \in 1 .. Len(in.valued) /\ p \notin Heads
      /\ Line = in.valued[p]
  BY <1>1, NextValue
<1>3. Len(in.valued) \in Nat /\ pos' \in 0 .. Len(in.valued) /\ StepCount \in Nat
  BY <1>1, <1>2, HychanLines
<1>4. CASE inSeries
  <2>1. PICK h \in Heads : Collecting(h) /\ saved = StoredUpTo(h - 1)
    BY <1>1, <1>4 DEF ChannelInv
  <2>2. pos \in BlockOf(h) /\ h \in Int
    BY <2>1, HychanLines DEF Collecting
  <2>3. p \in BlockOf(h)
    BY <1>1, <1>2, <2>2, NextInBlock
  <2>4. p \notin h + 2 .. h + StepCount + 1
    BY <1>1, <1>2, <1>4, <2>3, LineOfBlock
  <2>5. RowsBehind(h, p) = RowsBehind(h, pos)
    BY <1>2, <1>3, <2>2, <2>3, <2>4 DEF RowsBehind, BlockOf
  <2>6. \E g \in Heads :
           /\ CellAt(g) \in Wanted
           /\ pos' \in BlockOf(g)
           /\ size' = RowsBehind(g, pos')
           /\ Countable => size' < length /\ lines' = Gathered(g, size')
           /\ saved' = StoredUpTo(g - 1)
    BY <1>1, <2>1, <2>3, <2>5 DEF Collecting
  <2>7. QED  BY <1>1, <1>3, <1>4, <2>6, StillReading
<1>5. CASE ~inSeries
  <2>1. saved = StoredUpTo(pos) /\ (Countable => lines = << >>)
    BY <1>1, <1>5 DEF ChannelInv
  <2>2. StoredUpTo(p) = StoredUpTo(pos)
    BY <1>2, NothingStored
  <2>3. saved' = StoredUpTo(pos') /\ (Countable => lines' = << >>)
    BY <1>1, <2>1, <2>2
  <2>4. QED  BY <1>1, <1>3, <1>5, <2>3, StillReading
<1>6. QED  BY <1>4, <1>5

\* The row that is read next, within a series of a wanted element.
LEMMA NextRowOfSeries ==
  ASSUME Control, ChannelInv, pass = "values", More, inSeries, Line.kind = "row"
  PROVE  \E h \in Heads :
           /\ Collecting(h) /\ saved = StoredUpTo(h - 1)
           /\ pos + 1 \in BlockOf(h) /\ pos + 1 = h + 2 + size /\ pos + 1 <= Len(in.valued)
           /\ size + 1 <= StepCount /\ RowsBehind(h, pos + 1) = size + 1
           /\ Countable => Append(lines, Line) = Gathered(h, size + 1)
<1> DEFINE p == pos + 1
<1>1. /\ pos \in 0 .. Len(in.valued) - 1 /\ p \in 1 .. Len(in.valued) /\ p \notin Heads
      /\ Line = in.valued[p]
  BY NextValue
<1>2. Len(in.valued) \in Nat /\ StepCount \in Nat /\ size \in Nat
  BY HychanLines DEF Control
<1>3. PICK h \in Heads : Collecting(h) /\ saved = StoredUpTo(h - 1)
  BY DEF ChannelInv
<1>4. pos \in BlockOf(h) /\ h \in Int /\ size = RowsBehind(h, pos)
  BY <1>3, HychanLines DEF Collecting
<1>5. p \in BlockOf(h)
  BY <1>1, <1>4, NextInBlock
<1>6. p \in h + 2 .. h + StepCount + 1
  BY <1>1, <1>5, LineOfBlock
<1>7. p = h + 2 + size /\ size + 1 <= StepCount /\ RowsBehind(h, p) = size + 1
  BY <1>1, <1>2, <1>4, <1>6 DEF RowsBehind
<1>8. Countable => Append(lines, Line) = Gathered(h, size + 1)
  <2>1. Countable => lines = Gathered(h, size)
    BY <1>3 DEF Collecting
  <2>2. size > 0 => h + 1 + size <= Len(in.valued)
    BY <1>1, <1>2, <1>4, <1>7
  <2>3. h + 2 + size <= Len(in.valued)
    BY <1>1, <1>7
  <2>4. Append(Gathered(h, size), in.valued[h + 2 + size]) = Gathered(h, size + 1)
    BY <1>2, <2>2, <2>3, GatheredRows
  <2>5. QED  BY <1>1, <1>7, <2>1, <2>4
<1>9. QED  BY <1>1, <1>3, <1>5, <1>7, <1>8

LEMMA RowKeepsChannel ==
  ASSUME Control, ChannelInv, ValuesRow
  PROVE  ChannelInv'
<1>1. /\ pass = "values" /\ pass' = "values" /\ More /\ inSeries /\ Line.kind = "row"
      /\ size + 1 # length /\ size' = size + 1 /\ lines' = Append(lines, Line)
      /\ pos' = pos + 1 /\ UNCHANGED <<in, length, saved, inSeries>>
  BY DEF ValuesRow
<1>2. PICK h \in Heads :
           /\ Collecting(h) /\ saved = StoredUpTo(h - 1)
           /\ pos + 1 \in BlockOf(h) /\ pos + 1 <= Len(in.valued)
           /\ RowsBehind(h, pos + 1) = size + 1
           /\ Countable => Append(lines, Line) = Gathered(h, size + 1)
  BY <1>1, NextRowOfSeries
<1>3. Len(in.valued) \in Nat /\ pos' \in 0 .. Len(in.valued) /\ size \in Nat /\ length \in Nat
  BY <1>1, <1>2, HychanLines DEF Control
<1>4. Countable => size' < length /\ lines' = Gathered(h, size')
  BY <1>1, <1>2, <1>3 DEF Collecting
<1>5. \E g \in Heads :
           /\ CellAt(g) \in Wanted
           /\ pos' \in BlockOf(g)
           /\ size' = RowsBehind(g, pos')
           /\ Countable => size' < length /\ lines' = Gathered(g, size')
           /\ saved' = StoredUpTo(g - 1)
  BY <1>1, <1>2, <1>4 DEF Collecting
<1>6. QED  BY <1>1, <1>3, <1>5, StillReading

\* The last row that was counted: the series is whole, and what was collected
\* are its own rows.
LEMMA LastRowOfSeries ==
  ASSUME Control, ChannelInv, ValuesComplete
  PROVE  \E h \in Heads :
           /\ Countable /\ CellAt(h) \in Wanted /\ lines[1].cell = CellAt(h)
           /\ Collected = FirstRows(h, length) /\ h + 1 + length = pos + 1
           /\ pos + 1 <= Len(in.valued)
           /\ saved = StoredUpTo(h - 1)
           /\ Series(lines[1].cell, Numbers) = Result(CellAt(h))
           /\ StoredUpTo(pos + 1) = Append(StoredUpTo(h - 1), Result(CellAt(h)))
<1>1. /\ pass = "values" /\ More /\ inSeries /\ Line.kind = "row" /\ size + 1 = length
  BY DEF ValuesComplete
<1>2. PICK h \in Heads :
           /\ Collecting(h) /\ saved = StoredUpTo(h - 1)
           /\ pos + 1 \in BlockOf(h) /\ pos + 1 = h + 2 + size /\ pos + 1 <= Len(in.valued)
           /\ size + 1 <= StepCount /\ RowsBehind(h, pos + 1) = size + 1
           /\ Countable => Append(lines, Line) = Gathered(h, size + 1)
  BY <1>1, NextRowOfSeries
<1>3. /\ Len(in.valued) \in Nat /\ StepCount \in Nat /\ size \in Nat /\ length \in Nat
      /\ pos \in Nat /\ h \in 1 .. Len(in.valued)
  BY <1>2, HychanLines DEF Control
<1>4. Countable
  BY <1>1, <1>2, <1>3 DEF Countable
<1>5. Append(lines, Line) = Gathered(h, length) /\ lines = Gathered(h, size)
  BY <1>1, <1>2, <1>4 DEF Collecting
<1>6. h + 1 + length <= Len(in.valued) /\ h + 1 + length = pos + 1 /\ h + 1 + size <= Len(in.valued)
  BY <1>1, <1>2, <1>3
<1>7. Collected = FirstRows(h, length)
  BY <1>3, <1>5, <1>6, GatheredRows DEF Collected
<1>8. lines[1].cell = CellAt(h)
  BY <1>3, <1>5, <1>6, GatheredRows DEF CellAt
<1>9. Whole(in.valued, CellAt(h))
       /\ SubSeq(RowsOf(in.valued, CellAt(h)), 1, length) = FirstRows(h, length)
  <2>1. length <= RowsBehind(h, Len(in.valued))
    BY <1>1, <1>2, <1>3, <1>6 DEF RowsBehind
  <2>2. 0 < length
    BY <1>4 DEF Countable
  <2>3. QED  BY <2>1, <2>2, WholeSeries
<1>10. Series(lines[1].cell, Numbers) = Result(CellAt(h))
  BY <1>7, <1>8, <1>9 DEF Numbers, Result
<1>11. CellAt(h) \in Wanted
  BY <1>2 DEF Collecting
<1>12. StoredUpTo(pos + 1) = Append(StoredUpTo(h - 1), Result(CellAt(h)))
  <2>1. StoredUpTo(h) = Append(StoredUpTo(h - 1), Result(CellAt(h)))
    BY <1>3, <1>9, <1>11, StoredSteps
  <2>2. \A i \in h + 1 .. pos + 1 : in.valued[i] \notin WholeHeadings(in.valued)
    <3> TAKE i \in h + 1 .. pos + 1
    <3>1. i \notin Heads
      BY <1>2, NoOtherHead
    <3>2. i \in 1 .. Len(in.valued)
      BY <1>2, <1>3
    <3>3. QED  BY <3>1, <3>2, WantedHeading
  <2>3. StoredUpTo(pos + 1) = StoredUpTo(h)
    <3>1. h \in 0 .. Len(in.valued) /\ pos + 1 \in 0 .. Len(in.valued) /\ h <= pos + 1
      BY <1>2, <1>3
    <3>2. QED  BY <2>2, <3>1, StoredSteps
  <2>4. QED  BY <2>1, <2>3
<1>13. QED  BY <1>2, <1>4, <1>6, <1>7, <1>8, <1>10, <1>11, <1>12

LEMMA CompleteKeepsChannel ==
  ASSUME Control, ChannelInv, ValuesComplete
  PROVE  ChannelInv'
<1>1. PICK h \in Heads :
           /\ Countable
           /\ pos + 1 <= Len(in.valued)
           /\ saved = StoredUpTo(h - 1)
           /\ Series(lines[1].cell, Numbers) = Result(CellAt(h))
           /\ StoredUpTo(pos + 1) = Append(StoredUpTo(h - 1), Result(CellAt(h)))
  BY LastRowOfSeries
<1>2. pass = "values" /\ UNCHANGED <<in, length>>
  BY DEF ValuesComplete
<1>3. h - 1 \in 0 .. Len(in.valued) /\ Len(in.valued) \in Nat /\ pos \in Nat
  BY HychanLines DEF Control
<1>4. CASE Unreadable
  <2>1. pass' = "failed" /\ saved' = saved
    BY <1>4 DEF ValuesComplete
  <2>2. saved' = StoredUpTo(h - 1)'
    BY <1>1, <1>2, <2>1, SameFile
  <2>3. \E q \in 0 .. Len(in.valued)' : saved' = StoredUpTo(q)'
    BY <1>2, <1>3, <2>2
  <2>4. in'.program # "grid"
    BY <1>2 DEF ChannelInv
  <2>5. QED  BY <2>1, <2>3, <2>4 DEF ChannelInv
<1>5. CASE ~Unreadable
  <2>1. /\ saved' = Append(saved, Series(lines[1].cell, Numbers)) /\ inSeries' = FALSE
        /\ lines' = << >> /\ pos' = pos + 1 /\ pass' = "values"
    BY <1>2, <1>5 DEF ValuesComplete
  <2>2. saved' = StoredUpTo(pos') /\ pos' \in 0 .. Len(in.valued)
    BY <1>1, <1>3, <2>1
  <2>3. QED  BY <1>2, <2>1, <2>2, StillReading
<1>6. QED  BY <1>4, <1>5

LEMMA EndKeepsChannel ==
  ASSUME Control, ChannelInv, ValuesEnd
  PROVE  ChannelInv'
<1> DEFINE n == Len(in.valued)
<1>1. /\ pass = "values" /\ AtEnd /\ UNCHANGED <<in, length, saved, flood>>
      /\ pass' = IF in.program = "level" THEN "flood" ELSE "ended"
  BY DEF ValuesEnd, Begin
<1>2. pos = n /\ n \in Nat /\ in.program # "grid"
  BY <1>1, HychanLines DEF AtEnd, File, ChannelInv
<1>3. saved = StoredUpTo(n)
  <2>1. CASE inSeries
    <3>1. PICK g \in Heads : Collecting(g) /\ saved = StoredUpTo(g - 1)
      BY <1>1, <2>1 DEF ChannelInv
    <3>2. QED  BY <1>2, <3>1, Unfinished
  <2>2. CASE ~inSeries
    BY <1>1, <1>2, <2>2 DEF ChannelInv
  <2>3. QED  BY <2>1, <2>2
<1>4. saved' = StoredUpTo(n)'
  BY <1>1, <1>3, SameFile
<1>5. pass' = "ended" =>
        \E F \in Seq({Series(c, flood[c]) : c \in FloodCells})' : saved' = StoredUpTo(n)' \o F
  <2>1. saved' \in Seq({Result(c) : c \in Wanted})
    <3>1. n \in 0 .. n
      BY <1>2
    <3>2. QED  BY <1>1, <1>3, <3>1, StoredSteps
  <2>2. saved' = saved' \o << >>
    <3> DEFINE s == saved'
    <3> HIDE DEF s
    <3>1. s \in Seq({Result(c) : c \in Wanted})
      BY <2>1 DEF s
    <3>2. s = s \o << >>
      BY <3>1, ConcatEmptySeq
    <3>3. QED  BY <3>2 DEF s
  <2>3. << >> \in Seq({Series(c, flood[c]) : c \in FloodCells})'
    OBVIOUS
  <2>4. QED  BY <1>4, <2>2, <2>3
<1>6. /\ pass' \in {"flood", "ended"} /\ in'.program # "grid" /\ (n = Len(in.valued))'
      /\ pass' = "flood" => in'.program # "discharge"
  BY <1>1, <1>2
<1>7. QED  BY <1>4, <1>5, <1>6 DEF ChannelInv

\* BASE.OUT adds nothing to what is stored of HYCHAN.OUT.
LEMMA FloodKeepsChannel ==
  ASSUME Control, ChannelInv, FloodLine \/ FloodBlock \/ FloodEnd
  PROVE  ChannelInv'
<1>1. /\ pass = "flood" /\ UNCHANGED <<in, length, saved>>
      /\ \/ pass' = "flood"
         \/ in.program = "grid" /\ pass' = "ended"
         \/ in.program # "grid" /\ pass' = "store"
  BY DEF FloodLine, FloodBlock, FloodEnd, Begin
<1>2. in.program = "grid" => saved = << >>
  BY DEF ChannelInv
<1>3. in.program # "grid" => saved' = StoredUpTo(Len(in.valued))'
  BY <1>1, SameFile DEF ChannelInv
<1>4. in.program # "discharge"
  BY <1>1 DEF ChannelInv
<1>5. QED  BY <1>1, <1>2, <1>3, <1>4 DEF ChannelInv

LEMMA StoreKeepsChannel ==
  ASSUME Control, ChannelInv, StoreFlood
  PROVE  ChannelInv'
<1> DEFINE n == Len(in.valued)
           F == {Series(c, flood[c]) : c \in FloodCells}
<1>1. /\ pass = "store" /\ UNCHANGED <<in, length, flood>>
      /\ \/ pass' = "failed" /\ saved' = saved
         \/ /\ pass' = "ended"
            /\ \E cells \in [1 .. Cardinality(FloodCells) -> FloodCells] :
                 saved' = saved \o [i \in DOMAIN cells |-> Series(cells[i], flood[cells[i]])]
  BY DEF StoreFlood
<1>2. in.program # "grid" /\ saved = StoredUpTo(n) /\ n \in Nat
  BY <1>1, HychanLines DEF ChannelInv
<1>3. StoredUpTo(n)' = saved
  BY <1>1, <1>2, SameFile
<1>4. CASE pass' = "failed" /\ saved' = saved
  <2>1. n \in 0 .. Len(in.valued)' /\ saved' = StoredUpTo(n)'
    BY <1>1, <1>2, <1>3, <1>4
  <2>2. \E q \in 0 .. Len(in.valued)' : saved' = StoredUpTo(q)'
    <3> DEFINE N == Len(in.valued)'
               P(q) == saved' = StoredUpTo(q)'
    <3>1. P(n)
      BY <2>1
    <3> HIDE DEF P
    <3>2. \E q \in 0 .. N : P(q)
      BY <2>1, <3>1
    <3>3. QED  BY <3>2 DEF P
  <2>3. QED  BY <1>1, <1>2, <1>4, <2>2 DEF ChannelInv
<1>5. ASSUME NEW cells \in [1 .. Cardinality(FloodCells) -> FloodCells], pass' = "ended",
             saved' = saved \o [i \in DOMAIN cells |-> Series(cells[i], flood[cells[i]])]
      PROVE  ChannelInv'
  <2> DEFINE new == [i \in DOMAIN cells |-> Series(cells[i], flood[cells[i]])]
  <2>1. Cardinality(FloodCells) \in Nat
    BY InputsAssumption, FS_CardinalityType
  <2>2. new \in Seq(F)
    <3>1. new \in [1 .. Cardinality(FloodCells) -> F]
      OBVIOUS
    <3> HIDE DEF new, F
    <3>2. QED  BY <2>1, <3>1
  <2>3. F' = F
    BY <1>1, SameFile
  <2>4. saved' = StoredUpTo(n)' \o new
    BY <1>3, <1>5
  <2> HIDE DEF new
  <2>5. \E G \in Seq(F') : saved' = StoredUpTo(n)' \o G
    BY <2>2, <2>3, <2>4
  <2>6. QED  BY <1>1, <1>2, <1>5, <2>5 DEF ChannelInv
<1>6. QED  BY <1>1, <1>4, <1>5

LEMMA ChannelNext == Control /\ ChannelInv /\ [Next]_vars => ChannelInv'
<1> SUFFICES ASSUME Control, ChannelInv, [Next]_vars PROVE ChannelInv'
  OBVIOUS
<1>1. CASE UNCHANGED vars
  <2>1. in' = in /\ length' = length /\ Len(in.valued)' = Len(in.valued)
    BY <1>1 DEF vars
  <2>2. /\ UNCHANGED <<pass, pos, inSeries, size, lines, saved, flood>>
    BY <1>1 DEF vars
  <2>3. \A q : StoredUpTo(q)' = StoredUpTo(q)
    BY <2>1, SameFile
  <2>4. CASE pass = "values"
    <3>1. pos \in 0 .. Len(in.valued)
      BY <2>4, HychanLines DEF Control, ChannelInv
    <3>2. inSeries' => \E h \in Heads :
           /\ CellAt(h) \in Wanted
           /\ pos' \in BlockOf(h)
           /\ size' = RowsBehind(h, pos')
           /\ Countable => size' < length /\ lines' = Gathered(h, size')
           /\ saved' = StoredUpTo(h - 1)
      BY <2>2, <2>4 DEF ChannelInv, Collecting
    <3>3. ~inSeries' => saved' = StoredUpTo(pos') /\ (Countable => lines' = << >>)
      BY <2>2, <2>4 DEF ChannelInv
    <3>4. QED  BY <2>1, <2>2, <2>4, <3>1, <3>2, <3>3, StillReading
  <2>5. CASE pass # "values"
    <3>1. {Series(c, flood[c]) : c \in FloodCells}' = {Series(c, flood[c]) : c \in FloodCells}
      BY <2>1, <2>2, SameFile
    <3>2. StoredUpTo(Len(in.valued))' = StoredUpTo(Len(in.valued))
      BY <2>1, <2>3
    <3>3. QED  BY <2>1, <2>2, <2>3, <2>5, <3>1, <3>2 DEF ChannelInv
  <2>6. QED  BY <2>4, <2>5
<1>2. CASE Next
  BY <1>2, CountKeepsChannel, HeadingKeepsChannel, PassKeepsChannel, RowKeepsChannel,
     CompleteKeepsChannel, EndKeepsChannel, FloodKeepsChannel, StoreKeepsChannel DEF Next
<1>3. QED  BY <1>1, <1>2

LEMMA ChannelInvariance == Spec => [](Control /\ ChannelInv)
<1>1. ReadInv => Control
  BY DEF ReadInv
<1>2. Spec => []Control
  BY <1>1, ReadInvariance, PTL
<1>3. Spec => []ChannelInv
  BY <1>2, ChannelInit, ChannelNext, PTL DEF Spec
<1>4. QED  BY <1>2, <1>3, PTL

\* Of what is stored, the series of channel elements are those of HYCHAN.OUT.
LEMMA ChannelStored ==
  ASSUME Control, ChannelInv
  PROVE  \E q \in 0 .. Len(in.valued) :
           /\ Channel = StoredUpTo(q)
           /\ pass \in {"flood", "store", "ended"} /\ in.program # "grid" =>
                q = Len(in.valued)
<1> DEFINE n == Len(in.valued)
           R == {Result(c) : c \in Wanted}
           F == {Series(c, flood[c]) : c \in FloodCells}
           W == {t \in Range(saved) : t.cell \in Wanted}
<1>1. n \in Nat /\ StoredUpTo(0) = << >> /\ \A q \in 0 .. n : StoredUpTo(q) \in Seq(R)
  BY HychanLines, StoredSteps
<1>2. (\A t \in R : t.cell \in Wanted) /\ (\A t \in F : t.cell \notin Wanted)
  BY InputsAssumption DEF Result, Series
<1> HIDE DEF R
<1>3. \E q \in 0 .. n : \E G \in Seq(F) :
        /\ saved = StoredUpTo(q) \o G
        /\ pass \in {"flood", "store", "ended"} /\ in.program # "grid" => q = n
  <2>1. ASSUME NEW q \in 0 .. n, saved = StoredUpTo(q)
        PROVE  saved = StoredUpTo(q) \o << >>
    <3> DEFINE s == StoredUpTo(q)
    <3>1. s \in Seq(R)
      BY <1>1
    <3> HIDE DEF s
    <3>2. s \o << >> = s
      BY <3>1, ConcatEmptySeq
    <3>3. QED  BY <2>1, <3>2 DEF s
  <2>2. << >> \in Seq(F)
    OBVIOUS
  <2> DEFINE P(q, G) == /\ saved = StoredUpTo(q) \o G
                        /\ pass \in {"flood", "store", "ended"} /\ in.program # "grid" => q = n
  <2> SUFFICES \E q \in 0 .. n : \E G \in Seq(F) : P(q, G)
    OBVIOUS
  <2> HIDE DEF F
  <2>3. CASE pass = "count" \/ in.program = "grid"
    <3>1. saved = StoredUpTo(0) /\ 0 \in 0 .. n
      BY <1>1, <2>3 DEF ChannelInv
    <3>2. P(0, << >>)
      BY <2>1, <2>3, <3>1
    <3> HIDE DEF P
    <3>3. QED  BY <2>2, <3>1, <3>2
  <2>4. CASE pass = "values"
    <3>1. \E q \in 0 .. n : saved = StoredUpTo(q)
      <4>1. CASE inSeries
        <5>1. PICK h \in Heads : saved = StoredUpTo(h - 1)
          BY <2>4, <4>1 DEF ChannelInv
        <5>2. h - 1 \in 0 .. n
          BY <1>1, HychanLines
        <5>3. QED  BY <5>1, <5>2
      <4>2. CASE ~inSeries
        <5>1. saved = StoredUpTo(pos) /\ pos \in 0 .. n
          BY <1>1, <2>4, <4>2 DEF ChannelInv, Control
        <5>2. QED  BY <5>1
      <4>3. QED  BY <4>1, <4>2
    <3>2. PICK q \in 0 .. n : saved = StoredUpTo(q)
      BY <3>1
    <3>3. P(q, << >>)
      BY <2>1, <2>4, <3>2
    <3> HIDE DEF P
    <3>4. QED  BY <2>2, <3>3
  <2>5. CASE pass \in {"flood", "store"} /\ in.program # "grid"
    <3>1. saved = StoredUpTo(n) /\ n \in 0 .. n
      BY <1>1, <2>5 DEF ChannelInv
    <3>2. P(n, << >>)
      BY <2>1, <3>1
    <3> HIDE DEF P, n
    <3>3. QED  BY <2>2, <3>1, <3>2
  <2>6. CASE pass = "ended" /\ in.program # "grid"
    <3>1. PICK G \in Seq(F) : saved = StoredUpTo(n) \o G
      BY <2>6 DEF ChannelInv, F
    <3>2. P(n, G) /\ n \in 0 .. n
      BY <1>1, <3>1
    <3> HIDE DEF P, n
    <3>3. QED  BY <3>2
  <2>7. CASE pass = "failed"
    <3>1. PICK q \in 0 .. n : saved = StoredUpTo(q)
      BY <2>7 DEF ChannelInv
    <3>2. P(q, << >>)
      BY <2>1, <2>7, <3>1
    <3> HIDE DEF P
    <3>3. QED  BY <2>2, <3>2
  <2>8. QED  BY <2>3, <2>4, <2>5, <2>6, <2>7 DEF Control
<1>4. PICK q \in 0 .. n, G \in Seq(F) :
        /\ saved = StoredUpTo(q) \o G
        /\ pass \in {"flood", "store", "ended"} /\ in.program # "grid" => q = n
  <2> HIDE DEF n, F
  <2>1. QED  BY <1>3
<1> DEFINE A == StoredUpTo(q)
           m == Len(A)
<1>5. A \in Seq(R) /\ m \in Nat /\ \A i \in 1 .. m : A[i] \in R
  BY <1>1
<1>6. /\ saved \in Seq(R \cup F) /\ Len(saved) = m + Len(G) /\ Len(G) \in Nat
      /\ \A i \in 1 .. m : saved[i] = A[i]
      /\ \A i \in m + 1 .. Len(saved) : saved[i] \in F
  <2> HIDE DEF A, F
  <2>1. A \in Seq(R \cup F) /\ G \in Seq(R \cup F) /\ saved = A \o G
    BY <1>4, <1>5 DEF A
  <2>2. /\ saved \in Seq(R \cup F) /\ Len(saved) = m + Len(G)
        /\ \A i \in 1 .. m + Len(G) : saved[i] = IF i <= m THEN A[i] ELSE G[i - m]
    BY <2>1, ConcatProperties
  <2>3. ASSUME NEW i \in m + 1 .. Len(saved)
        PROVE  saved[i] \in F
    <3>1. i \in 1 .. m + Len(G) /\ ~(i <= m) /\ i - m \in 1 .. Len(G)
      BY <1>5, <2>2
    <3>2. QED  BY <2>2, <3>1
  <2>4. QED  BY <1>5, <2>2, <2>3
<1> HIDE DEF A, F
<1>7. \A i \in 1 .. Len(saved) : saved[i] \in W <=> saved[i].cell \in Wanted
  BY <1>6 DEF Range
<1>8. \A i \in 1 .. Len(saved) : saved[i] \in W <=> i \in 1 .. m /\ saved[i] \in W
  <2> TAKE i \in 1 .. Len(saved)
  <2>1. CASE i \in 1 .. m
    BY <2>1
  <2>2. CASE i \notin 1 .. m
    <3>1. i \in m + 1 .. Len(saved)
      BY <1>5, <1>6, <2>2
    <3>2. saved[i] \notin W
      BY <1>2, <1>6, <1>7, <3>1 DEF F
    <3>3. QED  BY <2>2, <3>2
  <2>3. QED  BY <2>1, <2>2
<1>9. SubSeq(saved, 1, m) = A
  <2> DEFINE b == SubSeq(saved, 1, m)
  <2>1. b \in Seq(R \cup F) /\ Len(b) = m /\ \A i \in 1 .. m : b[i] = saved[i]
    BY <1>5, <1>6
  <2>2. A \in Seq(R \cup F) /\ \A i \in 1 .. Len(b) : b[i] = A[i]
    BY <1>5, <1>6, <2>1
  <2> HIDE DEF b
  <2>3. b = A
    BY <2>1, <2>2, SeqEqual
  <2>4. QED  BY <2>3 DEF b
<1>10. \A i \in 1 .. Len(A) : A[i] \in W
  BY <1>2, <1>5, <1>6, <1>7
<1> HIDE DEF W
<1>11. Kept(A, W) = A
  BY <1>5, <1>10, KeptAll
<1>12. Kept(SubSeq(saved, 1, m), W) = Kept(saved, W)
  <2>1. 1 \in 1 .. Len(saved) + 1 /\ m \in 1 - 1 .. Len(saved)
    BY <1>5, <1>6
  <2>2. QED  BY <1>6, <1>8, <2>1, KeptOfPart
<1>13. Channel = A
  BY <1>9, <1>11, <1>12 DEF Channel, W
<1>14. QED  BY <1>4, <1>13 DEF A

\* The elements of the series that are stored.
LEMMA StoredCells ==
  ASSUME Control, NEW q \in 0 .. Len(in.valued)
  PROVE  LET k == KeptUpTo(in.valued, WholeHeadings(in.valued)) IN
         /\ DOMAIN StoredUpTo(q) = DOMAIN k[q]
         /\ \A i \in DOMAIN k[q] :
              /\ StoredUpTo(q)[i] = Result(k[q][i].cell)
              /\ Whole(in.valued, k[q][i].cell)
              /\ k[q][i] \in Range(in.valued) /\ k[q][i].kind = "heading"
              /\ k[q][i].cell \in Wanted
<1> DEFINE v == in.valued
           k == KeptUpTo(v, WholeHeadings(v))
<1>1. v \in Seq(AllLines) /\ Len(v) \in Nat
  BY HychanLines
<1>2. k[q] \in Seq(AllLines) /\ \A i \in 1 .. Len(k[q]) : k[q][i] \in WholeHeadings(v)
  BY <1>1, KeptElements
<1>3. StoredUpTo(q) = [j \in DOMAIN k[q] |-> Result(k[q][j].cell)]
  BY DEF StoredUpTo
<1> HIDE DEF k
<1>4. DOMAIN k[q] = 1 .. Len(k[q])
  BY <1>2
<1>5. \A i \in DOMAIN k[q] : StoredUpTo(q)[i] = Result(k[q][i].cell)
  BY <1>3
<1>6. \A i \in DOMAIN k[q] : /\ Whole(v, k[q][i].cell) /\ k[q][i] \in Range(v)
                             /\ k[q][i].kind = "heading" /\ k[q][i].cell \in Wanted
  BY <1>2, <1>4 DEF WholeHeadings
<1>7. QED  BY <1>3, <1>5, <1>6 DEF k

\* For any HYCHAN.OUT of FLO2D, of any length and cut anywhere, and any count of
\* a first pass over another one, a stored channel series holds the first rows of
\* its own element, as many as were counted, without those that have no number:
\* rows of elements that were not finished never mix into it.
THEOREM OwnRowsStored == Spec => []SeriesOfOwnElement
<1>1. Control /\ ChannelInv => SeriesOfOwnElement
  <2> SUFFICES ASSUME Control, ChannelInv, NEW i \in DOMAIN Channel
               PROVE  /\ Whole(in.valued, Channel[i].cell)
                      /\ Channel[i].rows =
                           Numbered(SubSeq(RowsOf(in.valued, Channel[i].cell), 1, length))
    BY DEF SeriesOfOwnElement
  <2>1. PICK q \in 0 .. Len(in.valued) : Channel = StoredUpTo(q)
    BY ChannelStored
  <2> DEFINE k == KeptUpTo(in.valued, WholeHeadings(in.valued))
             c == k[q][i].cell
  <2>2. i \in DOMAIN k[q] /\ Channel[i] = Result(c) /\ Whole(in.valued, c)
    BY <2>1, StoredCells
  <2> HIDE DEF c
  <2>3. /\ Result(c).cell = c
        /\ Result(c).rows = Numbered(SubSeq(RowsOf(in.valued, c), 1, length))
    BY DEF Result, Series
  <2>4. QED  BY <2>2, <2>3
<1>2. QED  BY <1>1, ChannelInvariance, PTL

\* What the second pass stores is, in the order of the file and each once, the
\* wanted elements whose series is whole: all of them when it gets to the end,
\* those before the one it fails on when it does not.
THEOREM WholeSeriesStored == Spec => []EveryWholeSeries
<1>1. Control /\ ChannelInv => EveryWholeSeries
  <2> SUFFICES ASSUME Control, ChannelInv PROVE EveryWholeSeries
    OBVIOUS
  <2> DEFINE v == in.valued
             n == Len(v)
             k == KeptUpTo(v, WholeHeadings(v))
             stored == [i \in DOMAIN Channel |-> Channel[i].cell]
             cells(s) == [i \in DOMAIN s |-> s[i].cell]
  <2>1. PICK q \in 0 .. n : /\ Channel = StoredUpTo(q)
                            /\ pass \in {"flood", "store", "ended"} /\ in.program # "grid" => q = n
    BY ChannelStored
  <2>2. stored = cells(k[q])
    <3>1. /\ DOMAIN Channel = DOMAIN k[q]
          /\ \A i \in DOMAIN k[q] : Channel[i] = Result(k[q][i].cell)
      BY <2>1, StoredCells
    <3>2. \A c : Result(c).cell = c
      BY DEF Result, Series
    <3> HIDE DEF k
    <3>3. QED  BY <3>1, <3>2
  <2>3. WholeCells(v) = cells(k[n])
    BY DEF WholeCells, Kept
  <2>4. /\ v \in Seq(AllLines) /\ n \in Nat /\ q \in 0 .. n /\ n \in q .. n /\ n \in 0 .. n
    BY HychanLines
  <2>5. k[q] \in Seq(AllLines) /\ k[n] \in Seq(AllLines)
    BY <2>4, KeptElements
  <2>6. Len(k[q]) <= Len(k[n]) /\ \A i \in 1 .. Len(k[q]) : k[n][i] = k[q][i]
    <3> DEFINE W == WholeHeadings(v)
    <3> HIDE DEF W
    <3> HIDE DEF v
    <3>1. Len(KeptUpTo(v, W)[q]) <= Len(KeptUpTo(v, W)[n])
      BY <2>4, KeptPrefix
    <3>2. \A i \in 1 .. Len(KeptUpTo(v, W)[q]) : KeptUpTo(v, W)[n][i] = KeptUpTo(v, W)[q][i]
      BY <2>4, KeptPrefix
    <3>3. QED  BY <3>1, <3>2 DEF v, W
  <2> HIDE DEF k
  <2>7. /\ DOMAIN k[q] = 1 .. Len(k[q]) /\ Len(k[q]) \in Nat
        /\ DOMAIN k[n] = 1 .. Len(k[n]) /\ Len(k[n]) \in Nat /\ Len(k[q]) \in 0 .. Len(k[n])
    BY <2>5, <2>6
  <2>8. Len(cells(k[q])) = Len(k[q])
    BY <2>7
  <2>9. SubSeq(cells(k[n]), 1, Len(k[q])) = cells(k[q])
    <3> DEFINE f == cells(k[n])
               X == {k[n][i].cell : i \in 1 .. Len(k[n])}
    <3>1. f \in [1 .. Len(k[n]) -> X]
      BY <2>7
    <3>2. \A i \in 1 .. Len(k[q]) : f[i] = k[q][i].cell
      BY <2>6, <2>7
    <3> HIDE DEF f, X
    <3>3. SubSeq(f, 1, Len(k[q])) = [i \in 1 .. Len(k[q]) |-> f[i]]
      BY <2>7, <3>1, FirstLeads
    <3>4. [i \in 1 .. Len(k[q]) |-> f[i]] = cells(k[q])
      BY <2>7, <3>2
    <3>5. QED  BY <3>3, <3>4 DEF f
  <2>10. stored = SubSeq(WholeCells(v), 1, Len(stored))
    <3> HIDE DEF cells, stored
    <3>1. QED  BY <2>2, <2>3, <2>8, <2>9
  <2>11. pass \in {"flood", "store", "ended"} /\ in.program # "grid" => stored = WholeCells(v)
    <3> HIDE DEF cells, stored
    <3>1. QED  BY <2>1, <2>2, <2>3
  <2>12. QED  BY <2>10, <2>11 DEF EveryWholeSeries
<1>2. QED  BY <1>1, ChannelInvariance, PTL

-----------------------------------------------------------------------------
(* The rows of what is stored.                                             *)

InOrder(rows) ==
  /\ rows # << >> /\ rows \in Seq(Range(rows))
  /\ \A i \in DOMAIN rows : rows[i].step \in Int
  /\ \A i, j \in DOMAIN rows : i < j => rows[i].step < rows[j].step

\* A series is cut into slots as a whole, and its rows are in the order of time.
RowsInv ==
  \A i \in DOMAIN saved :
    saved[i] = Series(saved[i].cell, saved[i].rows) /\ InOrder(saved[i].rows)

LEMMA OwnRange ==
  ASSUME NEW S, NEW s \in Seq(S)
  PROVE  s \in Seq(Range(s))
<1>1. \A i \in 1 .. Len(s) : s[i] \in Range(s)
  BY DEF Range
<1> DEFINE R == Range(s)
<1> HIDE DEF R
<1>2. s \in Seq(R)
  BY <1>1 DEF R
<1>3. QED  BY <1>2 DEF R

\* The rows of a series that have a number.
LEMMA NumbersInOrder ==
  ASSUME Control, NEW h \in Heads, Countable, h + 1 + length <= Len(in.valued),
         Numbered(FirstRows(h, length)) # << >>
  PROVE  InOrder(Numbered(FirstRows(h, length)))
<1> DEFINE v == in.valued
           s == FirstRows(h, length)
           N == {l \in Range(s) : l.kind = "row" /\ l.value = "number"}
           rows == Kept(s, N)
<1>1. /\ v \in Seq(AllLines) /\ Len(v) \in Nat /\ h \in 1 .. Len(v) /\ length \in Nat
      /\ StepCount \in Nat
  BY HychanLines DEF Control
<1>2. s \in Seq(AllLines) /\ Len(s) = length /\ \A j \in 1 .. length : s[j] = v[h + 1 + j]
  <2>1. h + 2 \in Int /\ h + 1 + length \in Int /\ \A j \in h + 2 .. h + 1 + length : j \in 1 .. Len(v)
    BY <1>1
  <2>2. (h + 1 + length) - (h + 2) + 1 = length
    BY <1>1
  <2> DEFINE q == SubSeq(v, h + 2, h + 1 + length)
  <2>3. q \in Seq(AllLines) /\ Len(q) = length
    BY <1>1, <2>1, <2>2
  <2>4. \A j \in 1 .. length : q[j] = v[h + 2 + j - 1] /\ h + 2 + j - 1 = h + 1 + j
    BY <1>1, <2>1, <2>2
  <2>5. QED  BY <2>3, <2>4 DEF FirstRows
<1> HIDE DEF s
<1>3. \A j \in 1 .. length : s[j].step = j - 1
  <2> TAKE j \in 1 .. length
  <2>1. /\ h + 1 + j \in 1 .. Len(v) /\ h + 1 + j \in h + 2 .. h + StepCount + 1
        /\ h + 1 + j \in BlockOf(h)
    BY <1>1 DEF Countable, BlockOf
  <2>2. v[h + 1 + j].step = (h + 1 + j) - h - 2
    BY <2>1, LineOfBlock
  <2>3. QED  BY <1>1, <1>2, <2>2
<1>4. rows = Numbered(s)
  BY DEF Numbered
<1> HIDE DEF N
<1>5. Len(s) \in 0 .. Len(s)
  BY <1>1, <1>2
<1>6. rows \in Seq(AllLines)
  BY <1>2, <1>5, KeptElements DEF Kept
<1>7. PICK at \in [1 .. Len(rows) -> 1 .. Len(s)] :
        /\ \A i \in 1 .. Len(rows) : rows[i] = s[at[i]]
        /\ \A i, j \in 1 .. Len(rows) : i < j => at[i] < at[j]
  <2>1. \E at \in [1 .. Len(Kept(s, N)) -> 1 .. Len(s)] :
          /\ \A i \in 1 .. Len(Kept(s, N)) : Kept(s, N)[i] = s[at[i]]
          /\ \A i, j \in 1 .. Len(Kept(s, N)) : i < j => at[i] < at[j]
    BY <1>2, KeptPlaces
  <2>2. QED  BY <2>1
<1> HIDE DEF rows
<1>8. DOMAIN rows = 1 .. Len(rows) /\ Len(rows) \in Nat
  BY <1>6
<1>9. \A i \in 1 .. Len(rows) : rows[i].step = at[i] - 1 /\ at[i] \in Int
  BY <1>2, <1>3, <1>7
<1>10. rows \in Seq(Range(rows))
  BY <1>6, OwnRange
<1>11. rows # << >>
  BY <1>4 DEF s
<1>12. InOrder(rows)
  BY <1>7, <1>8, <1>9, <1>10, <1>11 DEF InOrder
<1>13. QED  BY <1>4, <1>12 DEF s

LEMMA RowsInit == Init => RowsInv
BY DEF Init, RowsInv

LEMMA RowsNext == ReadInv /\ ChannelInv /\ RowsInv /\ [Next]_vars => RowsInv'
<1> SUFFICES ASSUME ReadInv, ChannelInv, RowsInv, [Next]_vars PROVE RowsInv'
  OBVIOUS
<1> DEFINE Kind(t) == t = Series(t.cell, t.rows) /\ InOrder(t.rows)
<1>1. in' = in /\ Control
  BY DEF ReadInv, Next, vars, CountLine, CountEnds, ValuesHeading, ValuesPass, ValuesRow,
         ValuesComplete, ValuesEnd, FloodLine, FloodBlock, FloodEnd, StoreFlood
<1>2. ASSUME \A i \in DOMAIN saved' : Kind(saved'[i])
      PROVE  RowsInv'
  <2>1. \A c, rows : Series(c, rows)' = Series(c, rows)
    BY <1>1, SameFile
  <2>2. ASSUME NEW i \in DOMAIN saved'
        PROVE  (saved[i] = Series(saved[i].cell, saved[i].rows) /\ InOrder(saved[i].rows))'
    <3>1. Series(saved[i].cell, saved[i].rows)' = Series(saved'[i].cell, saved'[i].rows)
      BY <2>1
    <3>2. InOrder(saved[i].rows)' <=> InOrder(saved'[i].rows)
      BY DEF InOrder
    <3>3. QED  BY <1>2, <3>1, <3>2
  <2>3. QED  BY <2>2 DEF RowsInv
<1>3. PICK S : saved \in Seq(S)
  BY DEF ReadInv, SavedInv
<1>4. \A i \in 1 .. Len(saved) : Kind(saved[i])
  BY <1>3 DEF RowsInv
<1>5. CASE saved' = saved
  BY <1>2, <1>3, <1>4, <1>5
<1>6. CASE ValuesComplete /\ ~Unreadable
  <2> DEFINE new == Series(lines[1].cell, Numbers)
  <2>1. saved' = Append(saved, new) /\ Numbers # << >>
    BY <1>6 DEF ValuesComplete, Unreadable
  <2>2. PICK h \in Heads : /\ Countable /\ Collected = FirstRows(h, length)
                           /\ h + 1 + length = pos + 1 /\ pos + 1 <= Len(in.valued)
    BY <1>1, <1>6, LastRowOfSeries
  <2>3. InOrder(Numbers)
    BY <1>1, <2>1, <2>2, NumbersInOrder DEF Numbers
  <2>4. Kind(new)
    BY <2>3 DEF Series
  <2> HIDE DEF new, Kind
  <2>5. /\ DOMAIN saved' = 1 .. Len(saved) + 1 /\ saved'[Len(saved) + 1] = new
        /\ \A i \in 1 .. Len(saved) : saved'[i] = saved[i]
    <3>1. saved \in Seq(S \cup {new})
      BY <1>3
    <3>2. QED  BY <2>1, <3>1
  <2>6. \A i \in DOMAIN saved' : Kind(saved'[i])
    BY <1>3, <1>4, <2>4, <2>5
  <2>7. QED  BY <1>2, <2>6 DEF Kind
<1>7. ASSUME pass = "store", ~ \E c \in FloodCells : flood[c] = << >>,
             NEW cells \in [1 .. Cardinality(FloodCells) -> FloodCells],
             saved' = saved \o [i \in DOMAIN cells |-> Series(cells[i], flood[cells[i]])]
      PROVE  RowsInv'
  <2> DEFINE F == {Series(c, flood[c]) : c \in FloodCells}
             new == [i \in DOMAIN cells |-> Series(cells[i], flood[cells[i]])]
  <2>1. Steps(Len(in.flooded) \div 3) /\ flood \in [FloodCells -> Seq(FloodRow)]
    <3>1. in.program = "level"
      BY <1>1, <1>7, Files DEF ChannelInv
    <3>2. QED  BY <1>7, <3>1 DEF ReadInv, StepsInv
  <2>2. ASSUME NEW c \in FloodCells PROVE InOrder(flood[c])
    <3> DEFINE r == flood[c]
               m == Len(r)
    <3>1. r \in Seq(FloodRow) /\ \A k \in 1 .. m : r[k].step = k - 1
      BY <2>1 DEF Steps
    <3>2. r # << >>
      BY <1>7
    <3> HIDE DEF r
    <3>3. r \in Seq(Range(r)) /\ DOMAIN r = 1 .. m /\ m \in Nat
      BY <3>1, OwnRange
    <3>4. InOrder(r)
      BY <3>1, <3>2, <3>3 DEF InOrder
    <3>5. QED  BY <3>4 DEF r
  <2>3. \A t \in F : Kind(t)
    <3>1. ASSUME NEW c \in FloodCells PROVE Kind(Series(c, flood[c]))
      BY <2>2 DEF Series
    <3> HIDE DEF Kind
    <3>2. QED  BY <3>1
  <2>4. new \in Seq(F)
    <3>1. Cardinality(FloodCells) \in Nat
      BY InputsAssumption, FS_CardinalityType
    <3>2. new \in [1 .. Cardinality(FloodCells) -> F]
      OBVIOUS
    <3> HIDE DEF new, F
    <3>3. QED  BY <3>1, <3>2
  <2> HIDE DEF F, Kind
  <2>5. saved \in Seq(S \cup F) /\ new \in Seq(S \cup F) /\ saved' = saved \o new
    BY <1>3, <1>7, <2>4
  <2> HIDE DEF new
  <2>6. /\ saved' \in Seq(S \cup F) /\ Len(saved') = Len(saved) + Len(new)
        /\ \A i \in 1 .. Len(saved) + Len(new) :
             saved'[i] = IF i <= Len(saved) THEN saved[i] ELSE new[i - Len(saved)]
    BY <2>5, ConcatProperties
  <2>7. ASSUME NEW i \in DOMAIN saved' PROVE Kind(saved'[i])
    <3>1. i \in 1 .. Len(saved) + Len(new) /\ Len(saved) \in Nat /\ Len(new) \in Nat
      BY <2>5, <2>6
    <3>2. CASE i <= Len(saved)
      BY <1>4, <2>6, <3>1, <3>2
    <3>3. CASE ~(i <= Len(saved))
      <4>1. i - Len(saved) \in 1 .. Len(new) /\ saved'[i] = new[i - Len(saved)]
        BY <2>6, <3>1, <3>3
      <4>2. saved'[i] \in F
        BY <2>4, <4>1
      <4>3. QED  BY <2>3, <4>2
    <3>4. QED  BY <3>2, <3>3
  <2>8. QED  BY <1>2, <2>7 DEF Kind
<1>8. saved' = saved \/ (ValuesComplete /\ ~Unreadable) \/ StoreFlood
  BY DEF Next, vars, CountLine, CountEnds, ValuesHeading, ValuesPass, ValuesRow,
         ValuesComplete, ValuesEnd, FloodLine, FloodBlock, FloodEnd
<1>9. StoreFlood => saved' = saved \/
        /\ pass = "store" /\ ~ \E c \in FloodCells : flood[c] = << >>
        /\ \E cells \in [1 .. Cardinality(FloodCells) -> FloodCells] :
             saved' = saved \o [i \in DOMAIN cells |-> Series(cells[i], flood[cells[i]])]
  BY DEF StoreFlood
<1>10. QED
  <2> HIDE DEF Kind
  <2>1. QED  BY <1>5, <1>6, <1>7, <1>8, <1>9

LEMMA RowsInvariance == Spec => [](Control /\ RowsInv)
<1>1. Spec => [](ReadInv /\ ChannelInv /\ Control)
  BY ReadInvariance, ChannelInvariance, PTL
<1>2. Spec => []RowsInv
  BY <1>1, RowsInit, RowsNext, PTL DEF Spec
<1>3. QED  BY <1>1, <1>2, PTL

\* Whatever hour a series begins at and whatever rows it lacks within a day, the
\* days of its rows, from that of the forecast on, are its slots, each whole and
\* in order; only the last day is never closed.
THEOREM DaysInSlots == Spec => []SlotsAreDays
<1>1. Control /\ RowsInv => SlotsAreDays
  <2> SUFFICES ASSUME Control, RowsInv, NEW i \in DOMAIN saved, ZoneHandled,
                      NoDayLeftOut(saved[i])
               PROVE  LET times == TimesOf(saved[i])
                          days  == Day(times[Len(times)]) - ForecastDay
                      IN  saved[i].slots = [k \in 1 .. (IF days < MaxLeads THEN days ELSE MaxLeads) |->
                                              RowsOn(times, ForecastDay + k - 1)]
    BY DEF SlotsAreDays
  <2> DEFINE rows == saved[i].rows
             ts == TimesOf(saved[i])
             n == Len(rows)
             days == Day(ts[Len(ts)]) - ForecastDay
  <2>1. in.base \in Int /\ in.model \in Int /\ in.zone \in Int
    BY InputsAssumption DEF Control
  <2>2. InOrder(rows) /\ saved[i].slots = Stored(rows)
    BY DEF RowsInv, Series
  <2> HIDE DEF rows
  <2>3. /\ n \in Nat /\ n # 0 /\ DOMAIN rows = 1 .. n
        /\ \A k \in 1 .. n : rows[k].step \in Int
        /\ \A j, k \in 1 .. n : j < k => rows[j].step < rows[k].step
    <3>1. rows \in Seq(Range(rows)) /\ rows # << >>
      BY <2>2 DEF InOrder
    <3>2. n \in Nat /\ n # 0 /\ DOMAIN rows = 1 .. n
      BY <3>1
    <3>3. QED  BY <2>2, <3>2 DEF InOrder
  <2>4. ts = [k \in 1 .. n |-> in.base + rows[k].step - in.zone]
    BY <2>3 DEF TimesOf, rows
  <2>5. ts \in Seq(Int) /\ Len(ts) = n /\ ts # << >>
    <3>1. \A k \in 1 .. n : in.base + rows[k].step - in.zone \in Int
      BY <2>1, <2>3
    <3>2. ts \in [1 .. n -> Int]
      BY <2>4, <3>1
    <3> HIDE DEF ts, n
    <3>3. QED  BY <2>3, <3>2
  <2>6. Increasing(ts)
    <3>1. \A j, k \in 1 .. n : j < k =>
            in.base + rows[j].step - in.zone < in.base + rows[k].step - in.zone
      BY <2>1, <2>3
    <3> HIDE DEF ts, n
    <3>2. QED  BY <2>4, <3>1 DEF Increasing
  <2>7. ForecastDay \in Int
    <3>1. in.model - in.zone \in Int
      BY <2>1
    <3>2. QED  BY <3>1, DayAssumption DEF ForecastDay, Day
  <2>8. Stored(rows) = SlotsOf(ts, ForecastDay)
    <3> DEFINE raw == [k \in DOMAIN rows |-> in.base + rows[k].step]
    <3>1. Day(in.model + UtcShift(in.zone)) = ForecastDay
      <4>1. in.model + (-in.zone) = in.model - in.zone
        BY <2>1
      <4>2. QED  BY <4>1 DEF ForecastDay, UtcShift
    <3>2. Shifted(raw, UtcShift(in.zone)) = ts
      <4>1. \A k \in 1 .. n : in.base + rows[k].step + (-in.zone) = in.base + rows[k].step - in.zone
        BY <2>1, <2>3
      <4>2. Shifted(raw, UtcShift(in.zone)) = [k \in 1 .. n |-> in.base + rows[k].step + (-in.zone)]
        BY <2>3 DEF Shifted, UtcShift
      <4> HIDE DEF ts, n
      <4>3. QED  BY <2>4, <4>1, <4>2
    <3>3. in.zone = 0 => raw = ts
      <4>1. ASSUME in.zone = 0
            PROVE  \A k \in 1 .. n : in.base + rows[k].step = in.base + rows[k].step - in.zone
        BY <2>1, <2>3, <4>1
      <4> HIDE DEF ts, n
      <4>2. QED  BY <2>3, <2>4, <4>1
    <3> HIDE DEF ts
    <3>4. QED  BY <3>1, <3>2, <3>3 DEF Stored, ZoneHandled
  <2>9. \A e \in ForecastDay .. Day(ts[Len(ts)]) : RowsOn(ts, e) # << >>
    BY DEF NoDayLeftOut
  <2> HIDE DEF ts
  <2>10. SlotsOf(ts, ForecastDay) = [k \in 1 .. (IF days < MaxLeads THEN days ELSE MaxLeads) |->
                                       RowsOn(ts, ForecastDay + k - 1)]
    BY <2>5, <2>6, <2>7, <2>9, SlotsOfSeries
  <2>11. QED  BY <2>2, <2>8, <2>10 DEF ts
<1>2. QED  BY <1>1, RowsInvariance, PTL
==============================================================================
