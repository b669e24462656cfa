---------------------------- MODULE ForecastSeries ----------------------------
(***************************************************************************)
(* The series on their way through the programs of Forecast.sh: readings   *)
(* of rain gauges and a rain forecast (RFTOCSV.py), the input and the time *)
(* window of HEC-HMS (CSVTODSS.py, Update_HECHMS.py), its discharge        *)
(* (DSSTOCSV.py, CSVTODAT.py) and the tides (TIDAL_TO_OUTFLOW.py), run     *)
(* after run, with the states that HEC-HMS keeps from one day to the next. *)
(*                                                                         *)
(* A time is a number of ticks.  A value is named by what it was made of:  *)
(* a sum of readings is the sequence of their times.  What happens when a  *)
(* program of the chain fails is in ForecastPipeline; here a run that has  *)
(* no rain, or whose HEC-HMS run fails, just ends.                         *)
(***************************************************************************)
EXTENDS Subsequences

CONSTANTS
  HourTicks,  \* ticks of an hour, a multiple of four
  DayHours,   \* hours of a day
  Requests,   \* the runs and what they find, see MCForecastSeries
  MaxRuns,    \* bound: how many runs there are
  Absent      \* nothing there

ASSUME SeriesAssumption ==
  /\ HourTicks \in Nat \ {0} /\ HourTicks % 4 = 0
  /\ DayHours \in Nat \ {0}
  /\ MaxRuns \in Nat
  /\ Absent \notin Int

\* The database returns readings by their time, one for a time; a forecast file
\* has rows by time, at full hours.  Tides may come in any order.
ASSUME RequestsAssumption ==
  \A r \in Requests :
    /\ r.start \in Int /\ r.state \in Int /\ r.control \in Nat
    /\ \A ts \in {r.kub, r.klb, r.stations[1], r.stations[2]} : ts \in Seq(Int) /\ Increasing(ts)
    /\ \A t \in Range(r.stations[1]) \cup Range(r.stations[2]) : t % HourTicks = 0
    /\ r.tides \in Seq(Int)

DayTicks == DayHours * HourTicks
Day(t)    == t \div DayTicks
HourOf(t) == (t \div HourTicks) * HourTicks
Between(ts, from, to) == Kept(ts, from .. to)

VARIABLES
  pc,       \* the program that comes next
  runs,     \* how many runs there were
  req,      \* the request being served
  rain,     \* rows of DailyRain-<date>.csv
  dss,      \* values in the DSS input file
  window,   \* what the control and the run file say
  states,   \* day A -> when the state "State_<A>_To_<A+1>" was saved, if it was
  flow,     \* rows of DailyDischarge-<date>.csv
  inflow,   \* lines of INFLOW.DAT
  outflow   \* lines of OUTFLOW.DAT

vars == <<pc, runs, req, rain, dss, window, states, flow, inflow, outflow>>
results == <<rain, dss, window, flow, inflow, outflow>>

TypeOK ==
  /\ pc \in {"idle", "rain", "dss", "window", "compute", "csv", "inflow", "outflow",
            "ended"}
  /\ runs \in 0 .. MaxRuns
  /\ req \in Requests \cup {Absent}
  /\ \A i \in DOMAIN rain : rain[i].from \in {"observed", "forecast"}
  /\ \A d \in DOMAIN states : Day(states[d]) = d + 1
  /\ pc = "compute" => DOMAIN dss = DOMAIN rain

Init ==
  /\ pc = "idle"
  /\ runs = 0
  /\ req = Absent
  /\ rain = << >> /\ dss = << >> /\ window = Absent
  /\ states = << >>
  /\ flow = << >> /\ inflow = << >> /\ outflow = << >>

StartRun(r) ==
  /\ pc = "idle"
  /\ runs < MaxRuns
  /\ runs' = runs + 1
  /\ req' = r
  /\ pc' = "rain"
  /\ UNCHANGED <<results, states>>

\* The next run copies the project of HEC-HMS anew, removes the DSS files and
\* writes the others again; only the states stay in the model directory.
EndRun ==
  /\ pc = "ended"
  /\ pc' = "idle"
  /\ req' = Absent
  /\ rain' = << >> /\ dss' = << >> /\ window' = Absent
  /\ flow' = << >> /\ inflow' = << >> /\ outflow' = << >>
  /\ UNCHANGED <<runs, states>>

-----------------------------------------------------------------------------
(* RFTOCSV.py                                                              *)

\* Mutant: the sum of an hour goes on into the next.
NextReading_Carries(acc, t) ==
  IF HourOf(t) = acc.hour
  THEN [acc EXCEPT !.sum = Append(@, t)]
  ELSE [hour |-> HourOf(t), sum |-> Append(acc.sum, t),
        rows |-> Append(acc.rows, [time |-> HourOf(t), sum |-> acc.sum])]

\* A reading joins the sum of its hour, or closes it and stamps it with its own
\* hour.
NextReading(acc, t) ==
  IF HourOf(t) = acc.hour
  THEN [acc EXCEPT !.sum = Append(@, t)]
  ELSE [hour |-> HourOf(t), sum |-> <<t>>,
        rows |-> Append(acc.rows, [time |-> HourOf(t), sum |-> acc.sum])]

\* The first reading is there before the loop begins and is counted again in
\* it; the last hour is never closed.
Summed(ts) ==
  LET acc[i \in 0 .. Len(ts)] ==
        IF i = 0 THEN [hour |-> HourOf(ts[1]), sum |-> <<ts[1]>>, rows |-> << >>]
        ELSE NextReading(acc[i - 1], ts[i])
  IN  acc

Hourly(ts) == IF ts = << >> THEN << >> ELSE Summed(ts)[Len(ts)].rows

\* From 90 minutes before the start to the model state.
ObservedOf(r, ts) == Hourly(Between(ts, r.start - (3 * HourTicks) \div 2, r.state))

\* An hour that the lower basin lacks is filled with the upper basin's value.
Observed(r) ==
  LET lower == ObservedOf(r, r.klb)
      at(t) == {i \in DOMAIN lower : lower[i].time = t}
      Pair(row) == [time |-> row.time, from |-> "observed", kub |-> row.sum,
                    klb |-> IF at(row.time) = {} THEN row.sum
                            ELSE lower[CHOOSE i \in at(row.time) : TRUE].sum]
      upper == ObservedOf(r, r.kub)
  IN  [i \in DOMAIN upper |-> Pair(upper[i])]

\* The times of the station files, in the order they are first met.
StationTimes(r) ==
  r.stations[1] \o Kept(r.stations[2], Range(r.stations[2]) \ Range(r.stations[1]))

\* Mutant: the hour of the last observation is forecast, too.
Forecast_Again(r, last) ==
  LET times == Kept(StationTimes(r), {t \in r.kubMean \cap r.klbMean : t >= last})
  IN  [i \in DOMAIN times |-> [time |-> times[i], from |-> "forecast",
                               kub |-> << >>, klb |-> << >>]]

\* The forecast goes on after the last observation; a time that one of the two
\* basins lacks is left out.
Forecast(r, last) ==
  LET times == Kept(StationTimes(r), {t \in r.kubMean \cap r.klbMean : t > last})
  IN  [i \in DOMAIN times |-> [time |-> times[i], from |-> "forecast",
                               kub |-> << >>, klb |-> << >>]]

WriteRain ==
  /\ pc = "rain"
  /\ LET obs  == Observed(req)
         last == IF obs = << >> THEN req.start ELSE obs[Len(obs)].time
     IN  rain' = obs \o Forecast(req, last)
  /\ pc' = IF rain' = << >> THEN "ended" ELSE "dss"
  /\ UNCHANGED <<runs, req, dss, window, states, flow, inflow, outflow>>

-----------------------------------------------------------------------------
(* CSVTODSS.py and Update_HECHMS.py                                        *)

\* The values are put an hour apart from the first row on, whatever the times
\* of their rows.
DssTime(i) == rain[1].time + (i - 1) * HourTicks

PutDss ==
  /\ pc = "dss"
  /\ dss' = [i \in DOMAIN rain |-> DssTime(i)]
  /\ pc' = "window"
  /\ UNCHANGED <<runs, req, rain, window, states, flow, inflow, outflow>>

\* Mutant: the state is named after the day it is saved.
StateNames_Saved(from) == [save |-> Day(from + DayTicks), start |-> Day(from - DayTicks)]

\* States are named after the days between which they were computed.
StateNames(from) == [save |-> Day(from), start |-> Day(from - DayTicks)]

\* The window begins with the first row of rain, whatever start was asked for.
SetWindow ==
  /\ pc = "window"
  /\ LET from == rain[1].time IN
     window' = [from |-> from,
                to |-> from + req.control * HourTicks,
                gageTo |-> rain[Len(rain)].time,
                saveAt |-> from + DayTicks,
                save |-> StateNames(from).save,
                start |-> IF req.init THEN Absent ELSE StateNames(from).start]
  /\ pc' = "compute"
  /\ UNCHANGED <<runs, req, rain, dss, states, flow, inflow, outflow>>

-----------------------------------------------------------------------------
(* HEC-HMS, as the programs use it.                                        *)

StateFound == window.start \in DOMAIN states \cup {Absent}

\* A state replaces the one of its name.
Saved(day, at) == [d \in DOMAIN states \cup {day} |-> IF d = day THEN at ELSE states[d]]

\* The discharge of each hour of the window, and the state if the window
\* reaches that far.
Compute ==
  /\ pc = "compute"
  /\ StateFound
  /\ flow' = [i \in 1 .. req.control + 1 |-> window.from + (i - 1) * HourTicks]
  /\ states' = IF window.saveAt <= window.to THEN Saved(window.save, window.saveAt) ELSE states
  /\ pc' = "csv"
  /\ UNCHANGED <<runs, req, rain, dss, window, inflow, outflow>>

\* It fails without its start state, and may fail with it.
ComputeFails ==
  /\ pc = "compute"
  /\ pc' = "ended"
  /\ UNCHANGED <<runs, req, results, states>>

-----------------------------------------------------------------------------
(* DSSTOCSV.py, CSVTODAT.py and TIDAL_TO_OUTFLOW.py                        *)

\* HecTime counts the hours of a day from 1: midnight ends the day before.
HecHour(t) == IF HourOf(t) % DayTicks = 0 THEN DayHours ELSE (HourOf(t) % DayTicks) \div HourTicks
HecDay(t)  == IF HourOf(t) % DayTicks = 0 THEN Day(t) - 1 ELSE Day(t)

\* Mutant: the hour past the last is cut off.
CsvTime_Cut(day, hour) ==
  IF hour > DayHours - 1 THEN day * DayTicks + (DayHours - 1) * HourTicks
  ELSE day * DayTicks + hour * HourTicks

\* datetime has no such hour: it is taken for the one before, and one added.
CsvTime(day, hour) ==
  IF hour > DayHours - 1 THEN day * DayTicks + (DayHours - 1) * HourTicks + HourTicks
  ELSE day * DayTicks + hour * HourTicks

WriteFlow ==
  /\ pc = "csv"
  /\ flow' = [i \in DOMAIN flow |-> CsvTime(HecDay(flow[i]), HecHour(flow[i]))]
  /\ pc' = "inflow"
  /\ UNCHANGED <<runs, req, rain, dss, window, states, inflow, outflow>>

\* The lines are numbered from 1, after the line of hour 0; their times are not
\* looked at.
WriteInflow ==
  /\ pc = "inflow"
  /\ inflow' = [i \in DOMAIN flow |-> [hour |-> i, at |-> flow[i]]]
  /\ pc' = "outflow"
  /\ UNCHANGED <<runs, req, rain, dss, window, states, flow, outflow>>

\* Mutant: minutes are cut off.
Rounded_Down(t) == HourOf(t)

\* To the nearest hour, half an hour to the one before.
Rounded(t) == IF t - HourOf(t) > HourTicks \div 2 THEN HourOf(t) + HourTicks ELSE HourOf(t)

\* The tides of six days from the start on, by the hours since the hour of the
\* start.  Without tides there is no file.
WriteOutflow ==
  /\ pc = "outflow"
  /\ LET tides == Between(req.tides, req.start, req.start + 6 * DayTicks) IN
     outflow' = [i \in DOMAIN tides |->
                   [hour |-> (Rounded(tides[i]) - HourOf(req.start)) \div HourTicks,
                    at |-> tides[i]]]
  /\ pc' = "ended"
  /\ UNCHANGED <<runs, req, rain, dss, window, states, flow, inflow>>

Next ==
  \/ \E r \in Requests : StartRun(r)
  \/ EndRun
  \/ WriteRain \/ PutDss \/ SetWindow \/ Compute \/ ComputeFails
  \/ WriteFlow \/ WriteInflow \/ WriteOutflow

Spec == Init /\ [][Next]_vars
-----------------------------------------------------------------------------
(* Properties.                                                             *)

\* The second station file has no time that the first lacks.
StationsAgree == Range(req.stations[2]) \subseteq Range(req.stations[1])

\* Where the station files agree on the times, the rain of a run is a series:
\* each row is later than the one before, through the seam between what was
\* observed and what is forecast, and nothing is forecast that was observed.
RainInOrder ==
  rain # << >> /\ StationsAgree =>
    \A i \in 1 .. Len(rain) - 1 :
      /\ rain[i].time < rain[i + 1].time
      /\ rain[i].from = "forecast" => rain[i + 1].from = "forecast"

\* The readings of the upper basin that a run looks at.
Readings == Between(req.kub, req.start - (3 * HourTicks) \div 2, req.state)

\* After the first, an observed row is the sum of one hour: of all readings of
\* the last hour before it that has any, each counted once.  (The first row
\* counts its first reading twice.)
HourlyTotals ==
  \A i \in DOMAIN rain : rain[i].from = "observed" /\ i > 1 =>
    LET hour == HourOf(rain[i].kub[1]) IN
    /\ rain[i].kub = Kept(Readings, hour .. hour + HourTicks - 1)
    /\ \A k \in DOMAIN Readings : ~(hour < HourOf(Readings[k]) /\ Readings[k] < rain[i].time)

\* Update_HECHMS.py finds the state of the day before by the days in its name.
\* A state so found is of the day on which the run begins; and if all states
\* were saved at the same hour of the day, that of this run, it is of the very
\* hour, however runs were repeated, left out or back-dated.
StartStateFits ==
  pc = "compute" /\ window.start \in DOMAIN states =>
    LET s == states[window.start] IN
    /\ Day(s) = Day(window.from)
    /\ (\A d \in DOMAIN states : (states[d] - window.from) % DayTicks = 0) => s = window.from

\* The times in DailyDischarge-<date>.csv are the hours of the window, each once
\* and none left out, although HecTime and datetime disagree on midnight.
DischargeTimesKept ==
  pc = "inflow" =>
    /\ DOMAIN flow = 1 .. req.control + 1
    /\ \A i \in DOMAIN flow : flow[i] = window.from + (i - 1) * HourTicks

\* A tide stands in OUTFLOW.DAT at most half an hour from its own time, and the
\* hours increase where the readings are an hour apart.
TidesOnTheHour ==
  \A i \in DOMAIN outflow :
    LET clock == HourOf(req.start) + outflow[i].hour * HourTicks IN
    /\ clock - outflow[i].at <= HourTicks \div 2 /\ outflow[i].at - clock <= HourTicks \div 2
    /\ outflow[i].hour >= 0
    /\ i > 1 /\ outflow[i].at - outflow[i - 1].at >= HourTicks =>
         outflow[i - 1].hour < outflow[i].hour
=============================================================================
