--------------------------- MODULE MCForecastSeries ---------------------------
(***************************************************************************)
(* ForecastSeries with days of three hours and readings every quarter of   *)
(* an hour: runs for two days, with and without a start a day before the   *)
(* model state, and gauges, stations and tides that fail in turn.          *)
(***************************************************************************)
EXTENDS ForecastSeries, FiniteSets

LOCAL INSTANCE SequencesExt

H == HourTicks
Days == 2 .. 3

\* The multiples of step from a to b.
Every(a, b, step) == [i \in 1 .. (b - a) \div step + 1 |-> a + (i - 1) * step]
Without(ts, lost) == SelectSeq(ts, LAMBDA t : t \notin lost)

\* Readings of a gauge: all, none, from some time on, without one hour.
Gauges(start, state) ==
  LET all == Every(start - 2 * H, state + H, 1) IN
  {all, << >>} \cup
  {Without(all, 0 .. t) : t \in {start - 5, start - 1, start + 1}} \cup
  {Without(all, h .. h + H - 1) : h \in {start - H, start}}

\* The hours the forecast is for, all or without one.
Hours(start) == Every(start - H, start + 2 * DayHours * H, H)
Forecasts(start) ==
  {[stations |-> <<Hours(start), Hours(start)>>, lost |-> l] : l \in {{}, {start + 2 * H}}} \cup
  {[stations |-> <<Without(Hours(start), {start + H}), Hours(start)>>, lost |-> {}]}

Request(state, start, init, control, kub, klb, f, tides) ==
  [state |-> state, start |-> start, init |-> init, control |-> control,
   kub |-> kub, klb |-> klb, stations |-> f.stations,
   kubMean |-> ToSet(Hours(start)) \ f.lost, klbMean |-> ToSet(Hours(start)),
   tides |-> tides]

Starts(d) == {d * DayTicks, (d - 1) * DayTicks}

\* Tides every hour or half hour, at any minute.
Tides(start) ==
  {Every(start + m, start + 2 * H + m, step) : m \in 0 .. H - 1, step \in {H, H \div 2}}

AllGo(start) == CHOOSE f \in Forecasts(start) : f.stations[1] = Hours(start) /\ f.lost = {}

\* Runs for both days, that begin with observed rain, with forecast rain, or
\* with rain observed from some time on.
Chain ==
  UNION {UNION {
    {Request(d * DayTicks, s, i, DayHours, g, g, AllGo(s), << >>) :
       i \in BOOLEAN, g \in {Every(s - 2 * H, s, 1), << >>, Every(s + 1, s + 3 * H, 1)}}
    : s \in Starts(d)} : d \in Days}

\* What the gauges and the stations of a run may lack.
Rain ==
  UNION {{Request(2 * DayTicks, s, TRUE, DayHours, g, k, f, << >>) :
     g \in Gauges(s, 2 * DayTicks), f \in Forecasts(s), k \in {Every(s - 2 * H, s, 1), << >>}}
  : s \in Starts(2)}

\* Starts in the middle of an hour, windows too short for a state, and tides.
Others ==
  {Request(2 * DayTicks, 2 * DayTicks + m, TRUE, DayHours - 1, << >>, << >>,
           AllGo(2 * DayTicks), t) :
     m \in {0, H \div 2, H - 1}, t \in Tides(2 * DayTicks)}

MCRequests == Chain \cup Rain \cup Others
=============================================================================
