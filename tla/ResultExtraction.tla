--------------------------- MODULE ResultExtraction ---------------------------
(***************************************************************************)
(* What the three extraction programs make of the files a FLO2D model      *)
(* leaves, line by line.                                                   *)
(*                                                                         *)
(*   HYCHAN.OUT  for each channel element a heading, the titles of the     *)
(*               columns, a row per output step, an empty line.  A first   *)
(*               pass counts the rows of the first series, a second pass   *)
(*               collects those of the wanted elements.                    *)
(*   BASE.OUT    for each output step a heading, the levels of the flooded *)
(*               cells, the heading of the channel results.                *)
(*                                                                         *)
(* The files may end anywhere (the model may still be writing them), and   *)
(* the two passes over HYCHAN.OUT may meet files of different runs (see    *)
(* ExtractRequests), so each pass has a file of its own here.              *)
(*                                                                         *)
(* Saved series are cut into days (DaySplit) as save_forecast_timeseries   *)
(* does; what the database makes of them is in TimeseriesStore.            *)
(***************************************************************************)
EXTENDS DaySplit, CellGrid

CONSTANTS
  Wanted,      \* the elements of CHANNEL_CELL_MAP
  FloodCells,  \* the cells of FLOOD_PLAIN_CELL_MAP
  Place,       \* cell -> its position, of all cells BASE.OUT may list
  Inputs,      \* what a program may find, see MCResultExtraction
  Missing      \* no level

\* The lines that the programs tell apart.
Heading(e)       == [kind |-> "heading", cell |-> e]
Row(e, s, value) == [kind |-> "row", cell |-> e, step |-> s, value |-> value]
Text             == [kind |-> "text"]
Time(s)          == [kind |-> "time", step |-> s]
Levels(cells)    == [kind |-> "levels", cells |-> cells]
Channels         == [kind |-> "channels"]

LineKinds == {"heading", "row", "text", "time", "levels", "channels"}

\* FLO2D writes the channel elements one after the other: a heading, the titles,
\* a row for each of n steps, an empty line.  Where the file ends in the digits
\* of a row, the row lacks the column that is read.
HychanOut(file, n) ==
  LET headings == {h \in DOMAIN file : file[h].kind = "heading"} IN
  /\ \A g, h \in headings : g < h => g + n + 2 < h /\ file[g].cell # file[h].cell
  /\ \A k \in DOMAIN file : \E h \in headings :
       /\ k \in h .. h + n + 2
       /\ k \in {h + 1, h + n + 2} => file[k] = Text
       /\ k \in h + 2 .. h + n + 1 =>
            \E value \in {"number", "none", "short"} :
              /\ file[k] = Row(file[h].cell, k - h - 2, value)
              /\ value = "short" => k = Len(file)

\* It writes BASE.OUT step by step, from step 0 on.
BaseOut(file) ==
  \A k \in DOMAIN file :
    /\ k % 3 = 1 => file[k] = Time(k \div 3)
    /\ k % 3 = 2 => \E cells \in SUBSET DOMAIN Place : file[k] = Levels(cells)
    /\ k % 3 = 0 => file[k] = Channels

ASSUME InputsAssumption ==
  /\ IsFiniteSet(FloodCells) /\ Wanted \cap FloodCells = {}
  /\ \A i \in Inputs :
       /\ i.program \in {"level", "discharge", "grid"}
       /\ {i.base, i.model, i.zone} \subseteq Int
       /\ \A file \in {i.counted, i.valued, i.flooded} :
            /\ file \in Seq(Range(file))
            /\ \A line \in Range(file) : line.kind \in LineKinds
       /\ \A file \in {i.counted, i.valued} : \E n \in 0 .. Len(file) : HychanOut(file, n)
       /\ BaseOut(i.flooded)

\* The cells of FLO2D are squares of the grid's size, side by side; getGridBoudary
\* looks for the outermost from 0 and 10^9 on.
ASSUME PlaceAssumption ==
  /\ \A c \in DOMAIN Place : Place[c] \in [x : 0 .. 10^9, y : 0 .. 10^9]
  /\ \A c, d \in DOMAIN Place : c # d =>
       \/ Place[c].x + Gap <= Place[d].x \/ Place[d].x + Gap <= Place[c].x
       \/ Place[c].y + Gap <= Place[d].y \/ Place[d].y + Gap <= Place[c].y

VARIABLES
  in,       \* program, files, times: chosen at the start, never changed
  pass,     \* the file being read, or how the program ended
  pos,      \* how many lines of it are behind
  inSeries, \* isWaterLevelLines
  size,     \* countSeriesSize, then seriesSize
  length,   \* SERIES_LENGTH
  lines,    \* waterLevelLines
  saved,    \* the series stored, in order
  flood,    \* cell -> its levels per step
  grids     \* step -> the grid file written for it

vars == <<in, pass, pos, inSeries, size, length, lines, saved, flood, grids>>

TypeOK ==
  /\ in \in Inputs
  /\ pass \in {"count", "values", "flood", "store", "ended", "failed"}
  /\ pos \in Nat
  /\ inSeries \in BOOLEAN
  /\ size \in Nat /\ length \in Nat
  /\ \A i \in DOMAIN lines : lines[i].kind \in LineKinds
  /\ \A i \in DOMAIN saved : saved[i].cell \in Wanted \cup FloodCells
  /\ DOMAIN flood = FloodCells
  /\ in.program # "grid" => grids = << >>

Init ==
  /\ in \in Inputs
  /\ pass = IF in.program = "grid" THEN "flood" ELSE "count"
  /\ pos = 0
  /\ inSeries = FALSE
  /\ size = 0
  /\ length = 0
  /\ lines = << >>
  /\ saved = << >>
  /\ flood = [c \in FloodCells |-> << >>]
  /\ grids = << >>

File == CASE pass = "count" -> in.counted
          [] pass = "values" -> in.valued
          [] pass = "flood" -> in.flooded

More == pass \in {"count", "values", "flood"} /\ pos < Len(File)
AtEnd == pass \in {"count", "values", "flood"} /\ pos = Len(File)
Line == File[pos + 1]

\* On to the next pass, with the locals of its loop.
Begin(next) ==
  /\ pass' = next
  /\ pos' = 0
  /\ inSeries' = FALSE
  /\ size' = 0
  /\ lines' = << >>

-----------------------------------------------------------------------------
(* Storing a series.                                                       *)

\* Both times are shifted where the program is given an offset; the discharge
\* program shifts the date of the forecast, and stores the rows unshifted.
Stored(rows) ==
  LET times == [i \in DOMAIN rows |-> in.base + rows[i].step]
      shift == UtcShift(in.zone)
  IN  IF in.program = "discharge" THEN SlotsOf(times, Day(in.model + shift))
      ELSE SlotsOf(Shifted(times, shift), Day(in.model + shift))

Series(c, rows) == [cell |-> c, rows |-> rows, slots |-> Stored(rows)]

-----------------------------------------------------------------------------
(* First pass over HYCHAN.OUT.                                             *)

CountLine ==
  /\ pass = "count"
  /\ More
  /\ IF inSeries /\ Line.kind # "row" /\ Line.kind # "heading" /\ size > 0
     THEN Begin("values") /\ length' = size
     ELSE /\ inSeries' = (inSeries \/ Line.kind = "heading")
          /\ size' = IF inSeries /\ Line.kind = "row" THEN size + 1 ELSE size
          /\ pos' = pos + 1
          /\ UNCHANGED <<pass, length, lines>>
  /\ UNCHANGED <<in, saved, flood, grids>>

\* The file ended in its first series: SERIES_LENGTH stays 0.
CountEnds ==
  /\ pass = "count"
  /\ AtEnd
  /\ Begin("values")
  /\ UNCHANGED <<in, length, saved, flood, grids>>

-----------------------------------------------------------------------------
(* Second pass over HYCHAN.OUT.                                            *)

\* Mutant: the rows of an unfinished series go on counting.
ValuesHeading_Counts ==
  /\ pass = "values"
  /\ More
  /\ Line.kind = "heading"
  /\ inSeries' = (Line.cell \in Wanted)
  /\ lines' = IF Line.cell \in Wanted THEN Append(lines, Line) ELSE lines
  /\ pos' = pos + 1
  /\ UNCHANGED <<in, pass, size, length, saved, flood, grids>>

\* Mutant: the elements are not told apart.
ValuesHeading_Any ==
  /\ pass = "values"
  /\ More
  /\ Line.kind = "heading"
  /\ size' = 0
  /\ inSeries' = TRUE
  /\ lines' = Append(lines, Line)
  /\ pos' = pos + 1
  /\ UNCHANGED <<in, pass, length, saved, flood, grids>>

\* What was collected before stays in waterLevelLines.
ValuesHeading ==
  /\ pass = "values"
  /\ More
  /\ Line.kind = "heading"
  /\ size' = 0
  /\ inSeries' = (Line.cell \in Wanted)
  /\ lines' = IF Line.cell \in Wanted THEN Append(lines, Line) ELSE lines
  /\ pos' = pos + 1
  /\ UNCHANGED <<in, pass, length, saved, flood, grids>>

ValuesPass ==
  /\ pass = "values"
  /\ More
  /\ Line.kind # "heading"
  /\ ~inSeries \/ Line.kind # "row"
  /\ pos' = pos + 1
  /\ UNCHANGED <<in, pass, inSeries, size, length, lines, saved, flood, grids>>

ValuesRow ==
  /\ pass = "values"
  /\ More
  /\ inSeries
  /\ Line.kind = "row"
  /\ size + 1 # length
  /\ size' = size + 1
  /\ lines' = Append(lines, Line)
  /\ pos' = pos + 1
  /\ UNCHANGED <<in, pass, inSeries, length, saved, flood, grids>>

\* The rows that were collected after the heading, and those with a number.
Collected == Tail(Append(lines, Line))
Numbered(rows) == Kept(rows, {l \in Range(rows) : l.kind = "row" /\ l.value = "number"})
Numbers   == Numbered(Collected)

\* A row that lacks the column, a second heading where the first row should be,
\* and a series without a single number make the program raise.
Unreadable ==
  \/ \E i \in DOMAIN Collected : Collected[i].kind = "row" /\ Collected[i].value = "short"
  \/ Collected[1].kind = "heading"
  \/ Numbers = << >>

\* Mutant: waterLevelLines is not emptied.
ValuesComplete_Keeps ==
  /\ pass = "values"
  /\ More
  /\ inSeries
  /\ Line.kind = "row"
  /\ size + 1 = length
  /\ IF Unreadable
     THEN /\ pass' = "failed"
          /\ UNCHANGED <<pos, inSeries, size, saved>>
     ELSE /\ saved' = Append(saved, Series(lines[1].cell, Numbers))
          /\ inSeries' = FALSE
          /\ size' = size + 1
          /\ pos' = pos + 1
          /\ UNCHANGED pass
  /\ UNCHANGED <<in, length, lines, flood, grids>>

\* The last row: the series is written, and stored.  Once the program has
\* raised, nothing is done for the elements that follow.
ValuesComplete ==
  /\ pass = "values"
  /\ More
  /\ inSeries
  /\ Line.kind = "row"
  /\ size + 1 = length
  /\ IF Unreadable
     THEN /\ pass' = "failed"
          /\ UNCHANGED <<pos, inSeries, size, lines, saved>>
     ELSE /\ saved' = Append(saved, Series(lines[1].cell, Numbers))
          /\ inSeries' = FALSE
          /\ size' = size + 1
          /\ lines' = << >>
          /\ pos' = pos + 1
          /\ UNCHANGED pass
  /\ UNCHANGED <<in, length, flood, grids>>

\* A series still being collected is dropped.
ValuesEnd ==
  /\ pass = "values"
  /\ AtEnd
  /\ Begin(IF in.program = "level" THEN "flood" ELSE "ended")
  /\ UNCHANGED <<in, length, saved, flood, grids>>

-----------------------------------------------------------------------------
(* BASE.OUT.                                                               *)

FloodLine ==
  /\ pass = "flood"
  /\ More
  /\ ~(inSeries /\ Line.kind = "channels")
  /\ inSeries' = (inSeries \/ Line.kind = "time")
  /\ lines' = IF inSeries' THEN Append(lines, Line) ELSE lines
  /\ pos' = pos + 1
  /\ UNCHANGED <<in, pass, size, length, saved, flood, grids>>

\* The cells listed in the block that was collected.
Listed == UNION {IF lines[i].kind = "levels" THEN lines[i].cells ELSE {} : i \in DOMAIN lines}

\* The level of a cell at a step is named by the two.
LevelsOf(cells, s) == [c \in cells |-> <<c, s>>]

\* Mutant: a cell that is not listed is left out of the step.
FloodStep_Skips ==
  /\ flood' = [c \in FloodCells |->
                 IF c \in Listed THEN Append(flood[c], Row(c, lines[1].step, "number"))
                 ELSE flood[c]]
  /\ UNCHANGED grids

\* The water level program appends a level or MISSING_VALUE to the series of
\* each of its cells.
FloodStep ==
  /\ flood' = [c \in FloodCells |->
                 Append(flood[c], Row(c, lines[1].step,
                                      IF c \in Listed THEN "number" ELSE Missing))]
  /\ UNCHANGED grids

\* The grid program writes a file for each step not before the model state.
GridStep ==
  LET step == lines[1].step IN
  /\ grids' = IF in.base + step >= in.model
              THEN Append(grids, [step |-> step,
                                  grid |-> EsriGrid(LevelsOf(Listed, step), Place, Missing)])
              ELSE grids
  /\ UNCHANGED flood

\* Mutant: waterLevelLines is not emptied.
FloodBlock_Keeps ==
  /\ pass = "flood"
  /\ More
  /\ inSeries
  /\ Line.kind = "channels"
  /\ IF in.program = "grid" THEN GridStep ELSE FloodStep
  /\ inSeries' = FALSE
  /\ pos' = pos + 1
  /\ UNCHANGED <<in, pass, size, length, lines, saved>>

\* The heading of the channel results ends a block.
FloodBlock ==
  /\ pass = "flood"
  /\ More
  /\ inSeries
  /\ Line.kind = "channels"
  /\ IF in.program = "grid" THEN GridStep ELSE FloodStep
  /\ inSeries' = FALSE
  /\ lines' = << >>
  /\ pos' = pos + 1
  /\ UNCHANGED <<in, pass, size, length, saved>>

FloodEnd ==
  /\ pass = "flood"
  /\ AtEnd
  /\ Begin(IF in.program = "grid" THEN "ended" ELSE "store")
  /\ UNCHANGED <<in, length, saved, flood, grids>>

\* The flood series are written and stored, in the order of FLOOD_ELEMENT_NUMBERS,
\* the keys of a dictionary; without a step the first one raises.
StoreFlood ==
  /\ pass = "store"
  /\ IF \E c \in FloodCells : flood[c] = << >>
     THEN pass' = "failed" /\ UNCHANGED saved
     ELSE \E cells \in [1 .. Cardinality(FloodCells) -> FloodCells] :
            /\ Range(cells) = FloodCells
            /\ saved' = saved \o [i \in DOMAIN cells |-> Series(cells[i], flood[cells[i]])]
            /\ pass' = "ended"
  /\ UNCHANGED <<in, pos, inSeries, size, length, lines, flood, grids>>

Next ==
  \/ CountLine \/ CountEnds
  \/ ValuesHeading \/ ValuesPass \/ ValuesRow \/ ValuesComplete \/ ValuesEnd
  \/ FloodLine \/ FloodBlock \/ FloodEnd \/ StoreFlood

Spec == Init /\ [][Next]_vars
-----------------------------------------------------------------------------
(* Properties.                                                             *)

RowsOf(file, c) == Kept(file, {l \in Range(file) : l.kind = "row" /\ l.cell = c})
Whole(file, c)  == length > 0 /\ Len(RowsOf(file, c)) >= length

\* The wanted elements with a whole series, in the order of the file.
WholeHeadings(file) ==
  {l \in Range(file) : l.kind = "heading" /\ l.cell \in Wanted /\ Whole(file, l.cell)}
WholeCells(file) ==
  LET all == Kept(file, WholeHeadings(file)) IN [i \in DOMAIN all |-> all[i].cell]

Channel == Kept(saved, {t \in Range(saved) : t.cell \in Wanted})

\* A stored channel series holds the rows of its own element and of no other,
\* as many as the first pass counted, without those that have no number.  So
\* it is even where the file ends in the middle of a series, or the two passes
\* met files of different runs with series of different lengths.
SeriesOfOwnElement ==
  \A i \in DOMAIN Channel :
    /\ Whole(in.valued, Channel[i].cell)
    /\ Channel[i].rows = Numbered(SubSeq(RowsOf(in.valued, Channel[i].cell), 1, length))

\* A program that gets through the values of HYCHAN.OUT has stored every wanted
\* element whose series is whole, once and in the order of the file, and one
\* that fails has stored those before the one it failed on.
EveryWholeSeries ==
  LET stored == [i \in DOMAIN Channel |-> Channel[i].cell] IN
  /\ stored = SubSeq(WholeCells(in.valued), 1, Len(stored))
  /\ pass \in {"flood", "store", "ended"} /\ in.program # "grid" =>
       stored = WholeCells(in.valued)

\* The times at which the rows of a stored series belong: UTC where the program
\* is given a zone, and the day of the forecast on the same clock.
TimesOf(t) == [k \in DOMAIN t.rows |-> in.base + t.rows[k].step - in.zone]
ForecastDay == Day(in.model - in.zone)

\* Each day from that of the forecast to that of the last row has a row.
NoDayLeftOut(t) ==
  LET times == TimesOf(t) IN
  \A d \in ForecastDay .. Day(times[Len(times)]) : RowsOn(times, d) # << >>

\* The discharge program is given no zone (with one, its rows are not shifted).
ZoneHandled == in.program # "discharge" \/ in.zone = 0

\* Forecast-<i>-d holds the rows of the i-th day after that of the forecast,
\* all of them and in order, for every day but the last, whatever hour the
\* series begins at and whatever rows are skipped within a day.
SlotsAreDays ==
  \A i \in DOMAIN saved :
    LET times == TimesOf(saved[i])
        days  == Day(times[Len(times)]) - ForecastDay
    IN  ZoneHandled /\ NoDayLeftOut(saved[i]) =>
          saved[i].slots = [k \in 1 .. (IF days < MaxLeads THEN days ELSE MaxLeads) |->
                              RowsOn(times, ForecastDay + k - 1)]

\* The flooded cells keep step with each other: each has a row, a level or the
\* missing value, for each block of BASE.OUT that is behind, in its order.
FloodStepsAgree ==
  pass \in {"flood", "store"} /\ in.program = "level" =>
    \A c, d \in FloodCells :
      /\ Len(flood[c]) = Len(flood[d])
      /\ \A k \in DOMAIN flood[c] : flood[c][k].step = k - 1 /\ flood[d][k].step = k - 1

\* In a grid file no cell hides another: the square of each cell that was
\* listed has that cell's level of that step, and no other square has a level.
GridsShowAllCells ==
  \A g \in DOMAIN grids :
    LET b      == GridBoundary(Place)
        grid   == grids[g].grid
        listed == {c \in DOMAIN Place : \E k \in DOMAIN in.flooded :
                     /\ in.flooded[k].kind = "levels"
                     /\ k > 1 /\ in.flooded[k - 1] = Time(grids[g].step)
                     /\ c \in in.flooded[k].cells}
    IN  /\ \A c \in listed : grid[Square(b, Place[c])] = <<c, grids[g].step>>
        /\ \A sq \in DOMAIN grid :
             grid[sq] # Missing => \E c \in listed : Square(b, Place[c]) = sq

\* LibForecastTimeseries.py:34-41 "Devide into multiple timeseries for each
\* day ... 2017-09-01 14:00:00 to 2017-09-03 23:00:00 will devide into 3
\* timeseries": the last day of a series is stored like the others.
LastDayStored ==
  \A i \in DOMAIN saved :
    LET times == TimesOf(saved[i]) IN
    ZoneHandled /\ NoDayLeftOut(saved[i]) /\ Len(saved[i].slots) < MaxLeads =>
      Len(saved[i].slots) = Day(times[Len(times)]) - ForecastDay + 1
=============================================================================
