------------------------------- MODULE DaySplit -------------------------------
(***************************************************************************)
(* How save_forecast_timeseries cuts a series into the slots of the leads  *)
(* Forecast-0-d, Forecast-1-d-after, ...; the copies in                    *)
(* LibForecastTimeseries.py, EXTRACTFLO2DWATERLEVEL.py and CSVTODAT.py are *)
(* the same up to how they treat the UTC offset.                           *)
(*                                                                         *)
(* A series is the increasing sequence of the times of its rows; a time is *)
(* a number of hours since some midnight.                                  *)
(***************************************************************************)
EXTENDS Subsequences

CONSTANTS
  DayLength,  \* hours of a day
  MaxLeads    \* the leads that have a type: 15

ASSUME DayAssumption == DayLength \in Nat \ {0} /\ MaxLeads \in Nat

Day(t) == t \div DayLength

\* Mutant: the sign is taken as the offset's own.
UtcShift_Added(zone) == zone

\* The shift from the local time of a zone to UTC.
UtcShift(zone) == -zone

Shifted(ts, shift) == [i \in DOMAIN ts |-> ts[i] + shift]

\* The rows from midnight of day d on.
FromMidnight(ts, d) ==
  LET later == {i \in DOMAIN ts : ts[i] >= d * DayLength} IN
  IF later = {} THEN << >>
  ELSE SubSeq(ts, CHOOSE i \in later : \A j \in later : i <= j, Len(ts))

\* Mutant: the row that begins a day is dropped with the day before.
NextRow_Drops(acc, t) ==
  IF Day(t) = acc.day
  THEN [acc EXCEPT !.group = Append(@, t)]
  ELSE [day |-> Day(t), group |-> << >>, groups |-> Append(acc.groups, acc.group)]

\* One turn of the loop: t joins the group of its day, or closes it.
NextRow(acc, t) ==
  IF Day(t) = acc.day
  THEN [acc EXCEPT !.group = Append(@, t)]
  ELSE [day |-> Day(t), group |-> <<t>>, groups |-> Append(acc.groups, acc.group)]

\* The loop, after i rows.
Grouped(ts) ==
  LET acc[i \in 0 .. Len(ts)] ==
        IF i = 0 THEN [day |-> Day(ts[1]), group |-> << >>, groups |-> << >>]
        ELSE NextRow(acc[i - 1], ts[i])
  IN  acc

\* A group is only closed by the first row of another day.
InDays(ts) == IF ts = << >> THEN << >> ELSE Grouped(ts)[Len(ts)].groups

\* The slots of the forecast of day d; slot i + 1 is stored under lead i.
SlotsOf(ts, d) ==
  LET days == InDays(FromMidnight(ts, d)) IN
  SubSeq(days, 1, IF Len(days) < MaxLeads THEN Len(days) ELSE MaxLeads)

\* Reference: the rows of day d.
RowsOn(ts, d) == Kept(ts, {t \in Range(ts) : Day(t) = d})
=============================================================================
