-------------------------- MODULE ForecastSeriesProofs --------------------------
(***************************************************************************)
(* Theorems about ForecastSeries: for any readings, station files and      *)
(* tides, any length of an hour and a day, and any number of runs.         *)
(***************************************************************************)
EXTENDS ForecastSeries, SubsequenceLemmas

-----------------------------------------------------------------------------
(* Hours and days.                                                         *)

LEMMA Quotient ==
  ASSUME NEW d \in Nat \ {0}, NEW t \in Int
  PROVE  /\ t \div d \in Int
         /\ (t \div d) * d <= t /\ t < (t \div d) * d + d
         /\ t % d = t - (t \div d) * d
OBVIOUS

LEMMA OnlyQuotient ==
  ASSUME NEW d \in Nat \ {0}, NEW t \in Int, NEW q \in Int, q * d <= t, t < q * d + d
  PROVE  t \div d = q
<1>1. (t \div d) * d <= t /\ t < (t \div d) * d + d /\ t \div d \in Int
  BY Quotient
<1>2. \A p \in Int : p > q => p * d >= q * d + d
  OBVIOUS
<1>3. \A p \in Int : p < q => p * d + d <= q * d
  OBVIOUS
<1> QED
  BY <1>1, <1>2, <1>3

LEMMA QuotientShift ==
  ASSUME NEW d \in Nat \ {0}, NEW t \in Int, NEW k \in Int
  PROVE  (t + k * d) \div d = t \div d + k
<1>1. (t \div d) * d <= t /\ t < (t \div d) * d + d /\ t \div d \in Int
  BY Quotient
<1>2. (t \div d + k) * d = (t \div d) * d + k * d /\ k * d \in Int /\ (t \div d) * d \in Int
  BY <1>1
<1>3. (t \div d + k) * d <= t + k * d /\ t + k * d < (t \div d + k) * d + d
  BY <1>1, <1>2
<1>4. t + k * d \in Int /\ t \div d + k \in Int
  BY <1>1, <1>2
<1> QED
  BY <1>3, <1>4, OnlyQuotient

LEMMA Products ==
  ASSUME NEW a \in Int, NEW b \in Int, NEW c \in Int
  PROVE  /\ a * b \in Int
         /\ a * (b * c) = (a * b) * c
         /\ (a - b) * c = a * c - b * c
         /\ a < b /\ c > 0 => a * c + c <= b * c
         /\ a <= b /\ c > 0 => a * c <= b * c
<1>1. a < b /\ c > 0 => a * c + c <= b * c
  OBVIOUS
<1> QED
  BY <1>1

LEMMA Units ==
  /\ HourTicks \in Nat \ {0} /\ HourTicks % 4 = 0
  /\ DayHours \in Nat \ {0}
  /\ DayTicks \in Nat \ {0}
BY SeriesAssumption DEF DayTicks

\* A time is in the hour it is of, and only in that.
LEMMA Hours ==
  ASSUME NEW t \in Int
  PROVE  /\ HourOf(t) \in Int /\ HourOf(t) <= t /\ t < HourOf(t) + HourTicks
         /\ HourOf(HourOf(t)) = HourOf(t)
         /\ HourOf(t) % HourTicks = 0
<1>1. /\ t \div HourTicks \in Int
      /\ (t \div HourTicks) * HourTicks <= t /\ t < (t \div HourTicks) * HourTicks + HourTicks
  BY Quotient, Units
<1>2. (t \div HourTicks) * HourTicks \in Int
  BY <1>1, Units
<1>3. ((t \div HourTicks) * HourTicks) \div HourTicks = t \div HourTicks
  BY <1>1, <1>2, Units, OnlyQuotient
<1>4. ((t \div HourTicks) * HourTicks) % HourTicks = 0
  BY <1>2, <1>3, Units, Quotient
<1> QED
  BY <1>1, <1>2, <1>3, <1>4 DEF HourOf

LEMMA OnTheHour ==
  ASSUME NEW t \in Int, t % HourTicks = 0
  PROVE  HourOf(t) = t
BY Quotient, Units DEF HourOf

LEMMA HourIs ==
  ASSUME NEW h \in Int, HourOf(h) = h, NEW t \in h .. h + HourTicks - 1
  PROVE  HourOf(t) = h
<1>1. h \div HourTicks \in Int /\ (h \div HourTicks) * HourTicks = h
  BY Quotient, Units DEF HourOf
<1>2. t \div HourTicks = h \div HourTicks
  BY <1>1, Units, OnlyQuotient
<1> QED
  BY <1>1, <1>2 DEF HourOf

LEMMA HourShift ==
  ASSUME NEW t \in Int, NEW k \in Int
  PROVE  HourOf(t + k * HourTicks) = HourOf(t) + k * HourTicks
<1>1. t \div HourTicks \in Int
  BY Quotient, Units
<1>2. (t + k * HourTicks) \div HourTicks = t \div HourTicks + k
  BY QuotientShift, Units
<1> QED
  BY <1>1, <1>2, Units DEF HourOf

\* Later times are not in earlier hours, and hours are an hour apart.
LEMMA HoursInOrder ==
  ASSUME NEW s \in Int, NEW t \in Int
  PROVE  /\ s <= t => HourOf(s) <= HourOf(t)
         /\ HourOf(s) < HourOf(t) => HourOf(s) + HourTicks <= HourOf(t)
<1> DEFINE p == s \div HourTicks
           q == t \div HourTicks
<1>1. /\ p \in Int /\ p * HourTicks \in Int /\ p * HourTicks <= s
      /\ q \in Int /\ q * HourTicks \in Int /\ t < q * HourTicks + HourTicks
  BY Quotient, Products, Units
<1>2. HourOf(s) = p * HourTicks /\ HourOf(t) = q * HourTicks
  BY DEF HourOf
<1> HIDE DEF p, q
<1>3. q < p => q * HourTicks + HourTicks <= p * HourTicks
  BY <1>1, Products, Units
<1>4. p < q => p * HourTicks + HourTicks <= q * HourTicks
  BY <1>1, Products, Units
<1>5. s <= t => p <= q
  BY <1>1, <1>3, Units
<1>6. p * HourTicks < q * HourTicks => p < q
  BY <1>1, <1>3, Units
<1> QED
  BY <1>1, <1>2, <1>4, <1>5, <1>6, Units

LEMMA Days ==
  ASSUME NEW t \in Int
  PROVE  /\ Day(t) \in Int
         /\ Day(t + DayTicks) = Day(t) + 1
         /\ Day(t - DayTicks) = Day(t) - 1
         /\ Day(t) * DayTicks <= t /\ t < Day(t) * DayTicks + DayTicks
         /\ t % DayTicks = t - Day(t) * DayTicks
<1>1. (t + 1 * DayTicks) \div DayTicks = t \div DayTicks + 1
  BY QuotientShift, Units
<1>2. (t + (-1) * DayTicks) \div DayTicks = t \div DayTicks + (-1)
  BY QuotientShift, Units
<1>3. /\ t \div DayTicks \in Int
      /\ (t \div DayTicks) * DayTicks <= t /\ t < (t \div DayTicks) * DayTicks + DayTicks
      /\ t % DayTicks = t - (t \div DayTicks) * DayTicks
  BY Quotient, Units
<1>4. t + 1 * DayTicks = t + DayTicks /\ t + (-1) * DayTicks = t - DayTicks
  BY Units
<1> QED
  BY <1>1, <1>2, <1>3, <1>4 DEF Day

\* HecTime and datetime agree on every full hour, midnight included.
LEMMA CsvTimeRight ==
  ASSUME NEW t \in Int, HourOf(t) = t
  PROVE  CsvTime(HecDay(t), HecHour(t)) = t
<1> DEFINE q == t \div HourTicks
           m == q - Day(t) * DayHours
<1>1. /\ q \in Int /\ q * HourTicks = t
      /\ Day(t) \in Int /\ t % DayTicks = t - Day(t) * DayTicks
      /\ Day(t) * DayTicks <= t /\ t < Day(t) * DayTicks + DayTicks
  BY Quotient, Units, Days DEF HourOf
<1>2. /\ Day(t) * DayTicks = (Day(t) * DayHours) * HourTicks
      /\ (Day(t) - 1) * DayTicks = Day(t) * DayTicks - DayTicks
      /\ (DayHours - 1) * HourTicks = DayTicks - HourTicks
      /\ Day(t) * DayTicks \in Int
  <2>1. Day(t) * DayTicks = (Day(t) * DayHours) * HourTicks
    BY <1>1, Products, Units DEF DayTicks
  <2>2. (Day(t) - 1) * DayTicks = Day(t) * DayTicks - 1 * DayTicks
    BY <1>1, Products, Units
  <2>3. (DayHours - 1) * HourTicks = DayHours * HourTicks - 1 * HourTicks
    BY Products, Units
  <2>4. Day(t) * DayTicks \in Int
    BY <1>1, Products, Units
  <2> QED
    BY <2>1, <2>2, <2>3, <2>4, Units DEF DayTicks
<1>3. CASE t % DayTicks = 0
  <2>1. HecHour(t) = DayHours /\ HecDay(t) = Day(t) - 1
    BY <1>3 DEF HecHour, HecDay
  <2>2. CsvTime(HecDay(t), HecHour(t))
          = (Day(t) - 1) * DayTicks + (DayHours - 1) * HourTicks + HourTicks
    BY <2>1, Units DEF CsvTime
  <2> QED
    BY <1>1, <1>2, <1>3, <2>2, Units
<1>4. CASE t % DayTicks # 0
  <2>1. m \in Int /\ m * HourTicks = t - Day(t) * DayTicks
    <3>1. Day(t) * DayHours \in Int
      BY <1>1, Products, Units
    <3>2. \A a, b \in Int : (a - b) * HourTicks = a * HourTicks - b * HourTicks
      BY Products, Units
    <3>3. m * HourTicks = q * HourTicks - (Day(t) * DayHours) * HourTicks
      <4> HIDE DEF q
      <4> QED
        BY <1>1, <3>1, <3>2
    <3> QED
      BY <1>1, <1>2, <3>1, <3>3
  <2>2. 0 <= m /\ m < DayHours
    <3>1. m * HourTicks < DayHours * HourTicks /\ m * HourTicks >= 0
      BY <1>1, <1>2, <2>1, Units DEF DayTicks
    <3> HIDE DEF m
    <3> QED
      BY <2>1, <3>1, Units
  <2>3. (t % DayTicks) \div HourTicks = m
    <3>1. t % DayTicks = m * HourTicks /\ m * HourTicks \in Int
      BY <1>1, <2>1, Units
    <3> HIDE DEF m
    <3> QED
      BY <2>1, <3>1, Units, OnlyQuotient
  <2>4. HecHour(t) = m /\ HecDay(t) = Day(t)
    BY <1>4, <2>3 DEF HecHour, HecDay
  <2>5. CsvTime(HecDay(t), HecHour(t)) = Day(t) * DayTicks + m * HourTicks
    BY <2>1, <2>2, <2>4, Units DEF CsvTime
  <2> QED
    BY <1>1, <1>2, <2>1, <2>5
<1> QED
  BY <1>3, <1>4

-----------------------------------------------------------------------------
(* The hourly sums of RFTOCSV.py.                                          *)

\* The loop over the readings is what its equations say.
LEMMA SummedSteps ==
  ASSUME NEW ts, Len(ts) \in Nat
  PROVE  /\ Summed(ts)[0] = [hour |-> HourOf(ts[1]), sum |-> <<ts[1]>>, rows |-> << >>]
         /\ \A i \in 1 .. Len(ts) : Summed(ts)[i] = NextReading(Summed(ts)[i - 1], ts[i])
<1> DEFINE first == [hour |-> HourOf(ts[1]), sum |-> <<ts[1]>>, rows |-> << >>]
           Step(i, last) == NextReading(last, ts[i])
           Computes(n, f) == f = [i \in 0 .. n |-> IF i = 0 THEN first ELSE Step(i, f[i - 1])]
           T == {n \in 0 .. Len(ts) : \E f : Computes(n, f)}
<1> HIDE DEF first, Step
<1>1. 0 \in T
  <2>1. Computes(0, [i \in 0 .. 0 |-> first])
    OBVIOUS
  <2>2. \E f : Computes(0, f)
    BY <2>1
  <2> HIDE DEF Computes
  <2> QED
    BY <2>2
<1>2. ASSUME NEW n \in 0 .. Len(ts) - 1, n \in T
      PROVE  n + 1 \in T
  <2>1. PICK f : Computes(n, f)
    BY <1>2
  <2> DEFINE g == [i \in 0 .. n + 1 |-> IF i = n + 1 THEN Step(n + 1, f[n]) ELSE f[i]]
  <2>2. \A i \in 0 .. n : g[i] = f[i]
    OBVIOUS
  <2>3. \A i \in 1 .. n + 1 : g[i] = Step(i, g[i - 1])
    <3> TAKE i \in 1 .. n + 1
    <3>1. CASE i = n + 1
      BY <3>1, <2>2
    <3>2. CASE i # n + 1
      <4>1. i \in 0 .. n /\ i # 0 /\ i - 1 \in 0 .. n
        BY <3>2
      <4>2. f[i] = Step(i, f[i - 1])
        BY <2>1, <4>1
      <4> QED
        BY <4>1, <4>2, <2>2
    <3> QED
      BY <3>1, <3>2
  <2>4. g[0] = first
    BY <2>1
  <2>5. Computes(n + 1, g)
    <3>1. g = [i \in 0 .. n + 1 |-> g[i]]
      OBVIOUS
    <3> HIDE DEF g
    <3>2. \A i \in 0 .. n + 1 : i = 0 \/ i \in 1 .. n + 1
      OBVIOUS
    <3>3. \A i \in 0 .. n + 1 : g[i] = IF i = 0 THEN first ELSE Step(i, g[i - 1])
      BY <2>3, <2>4, <3>2
    <3> QED
      BY <3>1, <3>3
  <2>6. \E h : Computes(n + 1, h)
    BY <2>5
  <2> HIDE DEF Computes
  <2> QED
    BY <2>6
<1>3. Len(ts) \in T
  <2> HIDE DEF T
  <2>1. 0 .. Len(ts) \subseteq T
    BY <1>1, <1>2, UpTo
  <2> QED
    BY <2>1
<1>4. PICK f : Computes(Len(ts), f)
  BY <1>3
<1>5. Computes(Len(ts), Summed(ts))
  BY <1>4 DEF Summed, Step, first
<1>6. \A i \in 0 .. Len(ts) :
        Summed(ts)[i] = IF i = 0 THEN first ELSE Step(i, Summed(ts)[i - 1])
  BY <1>5
<1> QED
  BY <1>6 DEF Step, first

Row  == [time : Int, sum : Seq(Int)]
Rows == Seq(Row)
Sums == [hour : Int, sum : Seq(Int), rows : Rows]

LEMMA ReadingCounted ==
  ASSUME NEW acc \in Sums, NEW t \in Int
  PROVE  /\ NextReading(acc, t) \in Sums
         /\ NextReading(acc, t).hour = HourOf(t)
         /\ HourOf(t) = acc.hour =>
              /\ NextReading(acc, t).sum = Append(acc.sum, t)
              /\ NextReading(acc, t).rows = acc.rows
         /\ HourOf(t) # acc.hour =>
              /\ NextReading(acc, t).sum = <<t>>
              /\ NextReading(acc, t).rows =
                   Append(acc.rows, [time |-> HourOf(t), sum |-> acc.sum])
<1> DEFINE next == NextReading(acc, t)
           row == [time |-> HourOf(t), sum |-> acc.sum]
<1>1. /\ acc.hour \in Int /\ acc.sum \in Seq(Int) /\ acc.rows \in Rows
      /\ acc = [hour |-> acc.hour, sum |-> acc.sum, rows |-> acc.rows]
      /\ HourOf(t) \in Int
  BY Hours DEF Sums
<1>2. CASE HourOf(t) = acc.hour
  <2>1. next = [acc EXCEPT !.sum = Append(@, t)]
    BY <1>2 DEF NextReading
  <2>2. next = [hour |-> acc.hour, sum |-> Append(acc.sum, t), rows |-> acc.rows]
    <3> HIDE DEF next
    <3> QED
      BY <1>1, <2>1
  <2>3. Append(acc.sum, t) \in Seq(Int)
    BY <1>1
  <2> HIDE DEF next
  <2>4. /\ next \in Sums /\ next.hour = HourOf(t)
        /\ next.sum = Append(acc.sum, t) /\ next.rows = acc.rows
    BY <1>1, <1>2, <2>2, <2>3 DEF Sums
  <2> QED
    BY <1>2, <2>4 DEF next
<1>3. CASE HourOf(t) # acc.hour
  <2>1. next = [hour |-> HourOf(t), sum |-> <<t>>, rows |-> Append(acc.rows, row)]
    BY <1>3 DEF NextReading
  <2>2. <<t>> \in Seq(Int)
    OBVIOUS
  <2>3. Append(acc.rows, row) \in Rows
    <3>1. row \in Row
      BY <1>1 DEF Row
    <3> HIDE DEF row
    <3> QED
      BY <1>1, <3>1 DEF Rows
  <2> HIDE DEF next
  <2>4. /\ next \in Sums /\ next.hour = HourOf(t)
        /\ next.sum = <<t>> /\ next.rows = Append(acc.rows, row)
    BY <1>1, <1>3, <2>1, <2>2, <2>3 DEF Sums
  <2> QED
    BY <1>3, <2>4 DEF next
<1> QED
  BY <1>2, <1>3

\* The rows that are closed when the loop is in an hour are of full hours and in
\* order, the last of them not after that hour.
Closed(rows, hour) ==
  /\ \A k \in 1 .. Len(rows) : HourOf(rows[k].time) = rows[k].time /\ rows[k].time <= hour
  /\ \A j, k \in 1 .. Len(rows) : j < k => rows[j].time < rows[k].time

LEMMA OneMoreClosed ==
  ASSUME NEW rows \in Rows, NEW hour \in Int, Closed(rows, hour),
         NEW sum \in Seq(Int), NEW now \in Int, HourOf(now) = now, hour < now
  PROVE  Closed(Append(rows, [time |-> now, sum |-> sum]), now)
<1> DEFINE row == [time |-> now, sum |-> sum]
           more == Append(rows, row)
<1>1. row \in Row /\ row.time = now
  BY DEF Row
<1> HIDE DEF row
<1>2. /\ Len(rows) \in Nat /\ Len(more) = Len(rows) + 1
      /\ \A k \in 1 .. Len(rows) : more[k] = rows[k] /\ rows[k] \in Row
      /\ more[Len(rows) + 1] = row
  BY <1>1 DEF Rows
<1> HIDE DEF more
<1>3. \A k \in 1 .. Len(more) : k \in 1 .. Len(rows) \/ k = Len(rows) + 1
  BY <1>2
<1>4. \A k \in 1 .. Len(rows) : rows[k].time \in Int /\ rows[k].time < now
  BY <1>2 DEF Closed, Row
<1>5. \A k \in 1 .. Len(more) : HourOf(more[k].time) = more[k].time /\ more[k].time <= now
  BY <1>1, <1>2, <1>3, <1>4 DEF Closed
<1>6. \A j, k \in 1 .. Len(more) : j < k => more[j].time < more[k].time
  <2> TAKE j, k \in 1 .. Len(more)
  <2> HAVE j < k
  <2>1. j \in 1 .. Len(rows) /\ more[j] = rows[j] /\ rows[j].time < now
    BY <1>2, <1>4
  <2>2. CASE k \in 1 .. Len(rows)
    BY <1>2, <2>1, <2>2 DEF Closed
  <2>3. CASE k = Len(rows) + 1
    BY <1>1, <1>2, <2>1, <2>3
  <2> QED
    BY <1>3, <2>2, <2>3
<1>7. Closed(more, now)
  BY <1>5, <1>6 DEF Closed
<1> QED
  BY <1>7 DEF more, row

LEMMA ClosedRows ==
  ASSUME NEW ts \in Seq(Int), Increasing(ts), NEW n \in 1 .. Len(ts)
  PROVE  /\ Summed(ts)[n] \in Sums
         /\ Summed(ts)[n].hour = HourOf(ts[n])
         /\ Closed(Summed(ts)[n].rows, HourOf(ts[n]))
<1> DEFINE S(i) == Summed(ts)[i]
           P(i) == /\ S(i) \in Sums
                   /\ S(i).hour = HourOf(ts[IF i = 0 THEN 1 ELSE i])
                   /\ Closed(S(i).rows, S(i).hour)
           T == {i \in 0 .. Len(ts) : P(i)}
<1>1. /\ Len(ts) \in Nat /\ 1 \in 1 .. Len(ts)
      /\ \A i \in 1 .. Len(ts) : ts[i] \in Int
      /\ \A i \in 1 .. Len(ts) : S(i) = NextReading(S(i - 1), ts[i])
      /\ \A i, j \in 1 .. Len(ts) : i < j => ts[i] < ts[j]
  <2>1. /\ Len(ts) \in Nat /\ 1 \in 1 .. Len(ts) /\ DOMAIN ts = 1 .. Len(ts)
        /\ \A i \in 1 .. Len(ts) : ts[i] \in Int
    OBVIOUS
  <2>2. \A i \in 1 .. Len(ts) : S(i) = NextReading(S(i - 1), ts[i])
    BY <2>1, SummedSteps
  <2>3. \A i, j \in 1 .. Len(ts) : i < j => ts[i] < ts[j]
    BY <2>1 DEF Increasing
  <2> QED
    BY <2>1, <2>2, <2>3
<1>2. 0 \in T
  <2>1. S(0) = [hour |-> HourOf(ts[1]), sum |-> <<ts[1]>>, rows |-> << >>]
    BY <1>1, SummedSteps
  <2>2. HourOf(ts[1]) \in Int /\ <<ts[1]>> \in Seq(Int) /\ << >> \in Rows
    BY <1>1, Hours DEF Rows
  <2>3. \A h : Closed(<< >>, h)
    BY DEF Closed
  <2> HIDE DEF S
  <2>4. S(0) \in Sums /\ S(0).hour = HourOf(ts[1]) /\ S(0).rows = << >>
    <3>1. \A hour \in Int, sum \in Seq(Int), rows \in Rows :
            [hour |-> hour, sum |-> sum, rows |-> rows] \in Sums
      BY DEF Sums
    <3>2. S(0) \in Sums
      BY <2>1, <2>2, <3>1
    <3> QED
      BY <2>1, <3>2
  <2>5. P(0)
    BY <2>3, <2>4
  <2> HIDE DEF P
  <2> QED
    BY <1>1, <2>5
<1>3. ASSUME NEW i \in 0 .. Len(ts) - 1, i \in T
      PROVE  i + 1 \in T
  <2> DEFINE t == ts[i + 1]
             last == ts[IF i = 0 THEN 1 ELSE i]
  <2>1. i + 1 \in 1 .. Len(ts) /\ t \in Int /\ last \in Int /\ last <= t
    <3>1. i + 1 \in 1 .. Len(ts) /\ (i = 0 => i + 1 = 1) /\ (i # 0 => i \in 1 .. Len(ts) /\ i < i + 1)
      BY <1>1
    <3>2. CASE i = 0
      BY <1>1, <3>1, <3>2
    <3>3. CASE i # 0
      <4>1. ts[i] \in Int /\ t \in Int /\ ts[i] < t
        BY <1>1, <3>1, <3>3
      <4> QED
        BY <3>1, <3>3, <4>1
    <3> QED
      BY <3>2, <3>3
  <2>2. S(i + 1) = NextReading(S(i), t)
    BY <1>1, <2>1
  <2>3. S(i) \in Sums /\ S(i).hour = HourOf(last) /\ Closed(S(i).rows, S(i).hour)
    BY <1>3
  <2>4. /\ HourOf(last) \in Int /\ HourOf(t) \in Int /\ HourOf(last) <= HourOf(t)
        /\ HourOf(HourOf(t)) = HourOf(t)
    BY <2>1, Hours, HoursInOrder
  <2> HIDE DEF S, t, last
  <2>5. /\ S(i + 1) \in Sums
        /\ S(i + 1).hour = HourOf(t)
        /\ HourOf(t) = S(i).hour => S(i + 1).rows = S(i).rows
        /\ HourOf(t) # S(i).hour =>
             S(i + 1).rows = Append(S(i).rows, [time |-> HourOf(t), sum |-> S(i).sum])
    BY <2>1, <2>2, <2>3, ReadingCounted
  <2>6. S(i).rows \in Rows /\ S(i).sum \in Seq(Int)
    BY <2>3 DEF Sums
  <2>7. Closed(S(i + 1).rows, HourOf(t))
    <3>1. CASE HourOf(t) = S(i).hour
      BY <2>3, <2>5, <3>1
    <3>2. CASE HourOf(t) # S(i).hour
      <4>1. HourOf(last) < HourOf(t) /\ Closed(S(i).rows, HourOf(last))
        BY <2>3, <2>4, <3>2
      <4>2. Closed(Append(S(i).rows, [time |-> HourOf(t), sum |-> S(i).sum]), HourOf(t))
        BY <2>4, <2>6, <4>1, OneMoreClosed
      <4> QED
        BY <2>5, <3>2, <4>2
    <3> QED
      BY <3>1, <3>2
  <2>8. P(i + 1)
    BY <2>1, <2>5, <2>7 DEF t
  <2> HIDE DEF P
  <2> QED
    BY <2>1, <2>8
<1>4. 0 .. Len(ts) \subseteq T
  <2> HIDE DEF T
  <2> QED
    BY <1>1, <1>2, <1>3, UpTo
<1>5. P(n)
  <2> HIDE DEF P
  <2> QED
    BY <1>4
<1> QED
  BY <1>5

Within(hour) == hour .. hour + HourTicks - 1

\* A row has all readings of one of the first n, which are counted, of the last
\* hour before it that has any.
Total(row, ts, n) ==
  /\ row.sum # << >>
  /\ LET hour == HourOf(row.sum[1]) IN
     /\ hour < row.time
     /\ row.sum = KeptUpTo(ts, Within(hour))[n]
     /\ \A m \in 1 .. n : ~(hour < HourOf(ts[m]) /\ ts[m] < row.time)

\* A later reading does not belong to a row that is closed.
LEMMA TotalStays ==
  ASSUME NEW ts \in Seq(Int), NEW n \in 1 .. Len(ts) - 1, NEW row \in Row,
         Total(row, ts, n), HourOf(row.time) = row.time, row.time <= HourOf(ts[n + 1])
  PROVE  Total(row, ts, n + 1)
<1> DEFINE hour == HourOf(row.sum[1])
           t == ts[n + 1]
<1>1. n \in 1 .. Len(ts) /\ n + 1 \in 1 .. Len(ts) /\ (n + 1) - 1 = n /\ t \in Int
  OBVIOUS
<1>2. /\ row.time \in Int /\ row.sum \in Seq(Int)
      /\ row.sum # << >> /\ row.sum[1] \in Int
  BY DEF Total, Row
<1>3. hour \in Int /\ HourOf(hour) = hour /\ hour < row.time
  BY <1>2, Hours DEF Total
<1> HIDE DEF hour, t
<1>4. HourOf(t) \in Int /\ HourOf(t) <= t
  BY <1>1, Hours
<1>5. hour + HourTicks <= t /\ row.time <= t
  <2>1. hour + HourTicks <= row.time
    BY <1>2, <1>3, HoursInOrder
  <2>2. row.time <= t
    BY <1>2, <1>4 DEF t
  <2> QED
    BY <1>1, <1>2, <1>3, <2>1, <2>2, Units
<1>6. t \notin Within(hour)
  BY <1>1, <1>3, <1>5, Units DEF Within
<1>7. KeptUpTo(ts, Within(hour))[n + 1] = KeptUpTo(ts, Within(hour))[n]
  <2>1. KeptUpTo(ts, Within(hour))[n + 1]
          = IF t \in Within(hour) THEN Append(KeptUpTo(ts, Within(hour))[n], t)
            ELSE KeptUpTo(ts, Within(hour))[n]
    BY <1>1, KeptSteps DEF t
  <2> QED
    BY <1>6, <2>1
<1>8. \A m \in 1 .. n + 1 : m \in 1 .. n \/ m = n + 1
  OBVIOUS
<1> QED
  BY <1>1, <1>2, <1>3, <1>5, <1>7, <1>8 DEF Total, hour, t

\* Closing an hour gives such a row.
LEMMA TotalOfHour ==
  ASSUME NEW ts \in Seq(Int), Increasing(ts), NEW n \in 1 .. Len(ts) - 1, NEW sum,
         sum # << >>, sum = KeptUpTo(ts, Within(HourOf(ts[n])))[n],
         HourOf(ts[n]) < HourOf(ts[n + 1])
  PROVE  Total([time |-> HourOf(ts[n + 1]), sum |-> sum], ts, n + 1)
<1> DEFINE hour == HourOf(ts[n])
           t == ts[n + 1]
           row == [time |-> HourOf(t), sum |-> sum]
<1>1. /\ n \in 1 .. Len(ts) /\ n \in 0 .. Len(ts) /\ n + 1 \in 1 .. Len(ts) /\ (n + 1) - 1 = n
      /\ t \in Int /\ ts[n] \in Int /\ Len(ts) \in Nat
  OBVIOUS
<1>2. /\ hour \in Int /\ HourOf(hour) = hour
      /\ HourOf(t) \in Int /\ HourOf(t) <= t /\ hour < HourOf(t)
  BY <1>1, Hours
<1>3. HourOf(sum[1]) = hour
  <2>1. /\ sum \in Seq(Int)
        /\ \A i \in 1 .. Len(sum) : sum[i] \in Within(hour)
    BY <1>1, KeptElements
  <2>2. 1 \in 1 .. Len(sum)
    BY <2>1
  <2>3. sum[1] \in hour .. hour + HourTicks - 1
    BY <2>1, <2>2 DEF Within
  <2> HIDE DEF hour
  <2> QED
    BY <1>2, <2>3, HourIs
<1>4. t \notin Within(hour)
  <2>1. hour + HourTicks <= HourOf(t)
    BY <1>1, HoursInOrder
  <2> HIDE DEF hour, t
  <2> QED
    BY <1>1, <1>2, <2>1, Units DEF Within
<1>5. KeptUpTo(ts, Within(hour))[n + 1] = sum
  <2>1. KeptUpTo(ts, Within(hour))[n + 1]
          = IF t \in Within(hour) THEN Append(KeptUpTo(ts, Within(hour))[n], t)
            ELSE KeptUpTo(ts, Within(hour))[n]
    BY <1>1, KeptSteps
  <2> QED
    BY <1>4, <2>1
<1>6. \A m \in 1 .. n + 1 : ~(hour < HourOf(ts[m]) /\ ts[m] < HourOf(t))
  <2> TAKE m \in 1 .. n + 1
  <2>1. CASE m = n + 1
    BY <1>1, <1>2, <2>1
  <2>2. CASE m # n + 1
    <3>1. m \in 1 .. Len(ts) /\ ts[m] \in Int /\ ts[m] <= ts[n]
      <4>1. m \in 1 .. Len(ts) /\ ts[m] \in Int /\ DOMAIN ts = 1 .. Len(ts) /\ m <= n
        BY <2>2
      <4>2. m < n => ts[m] < ts[n]
        BY <1>1, <4>1 DEF Increasing
      <4>3. m = n => ts[m] = ts[n]
        OBVIOUS
      <4> QED
        BY <1>1, <4>1, <4>2, <4>3
    <3>2. HourOf(ts[m]) <= hour /\ HourOf(ts[m]) \in Int
      BY <1>1, <3>1, Hours, HoursInOrder
    <3> HIDE DEF hour
    <3> QED
      BY <1>2, <3>2
  <2> QED
    BY <2>1, <2>2
<1> HIDE DEF hour, t
<1>7. row.time = HourOf(t) /\ row.sum = sum
  OBVIOUS
<1>8. Total(row, ts, n + 1)
  <2> HIDE DEF row
  <2> QED
    BY <1>2, <1>3, <1>5, <1>6, <1>7 DEF Total
<1> QED
  BY <1>8 DEF row, t

\* All closed rows but the first are such totals, and the sum of the hour the
\* loop is in becomes one.
LEMMA ClosedTotals ==
  ASSUME NEW ts \in Seq(Int), Increasing(ts), NEW n \in 1 .. Len(ts)
  PROVE  \A k \in 2 .. Len(Summed(ts)[n].rows) : Total(Summed(ts)[n].rows[k], ts, n)
<1> DEFINE S(i) == Summed(ts)[i]
           P(i) == /\ S(i).sum # << >>
                   /\ S(i).rows # << >> => S(i).sum = KeptUpTo(ts, Within(HourOf(ts[i])))[i]
                   /\ \A k \in 2 .. Len(S(i).rows) : Total(S(i).rows[k], ts, i)
           T == {i \in 0 .. Len(ts) : i > 0 => P(i)}
<1>1. /\ Len(ts) \in Nat /\ 1 \in 1 .. Len(ts)
      /\ \A i \in 1 .. Len(ts) : ts[i] \in Int
      /\ \A i, j \in 1 .. Len(ts) : i < j => ts[i] < ts[j]
  <2>1. /\ Len(ts) \in Nat /\ 1 \in 1 .. Len(ts) /\ DOMAIN ts = 1 .. Len(ts)
        /\ \A i \in 1 .. Len(ts) : ts[i] \in Int
    OBVIOUS
  <2>2. \A i, j \in 1 .. Len(ts) : i < j => ts[i] < ts[j]
    BY <2>1 DEF Increasing
  <2> QED
    BY <2>1, <2>2
<1>2. 0 \in T
  OBVIOUS
<1>3. P(1)
  <2>1. S(1) = NextReading(S(0), ts[1]) /\ ts[1] \in Int /\ HourOf(ts[1]) \in Int
    <3>1. S(1) = NextReading(S(1 - 1), ts[1])
      BY <1>1, SummedSteps
    <3>2. ts[1] \in Int /\ HourOf(ts[1]) \in Int
      BY <1>1, Hours
    <3> QED
      BY <3>1, <3>2
  <2>2. S(0) = [hour |-> HourOf(ts[1]), sum |-> <<ts[1]>>, rows |-> << >>]
    BY <1>1, SummedSteps
  <2> HIDE DEF S
  <2>3. <<ts[1]>> \in Seq(Int) /\ << >> \in Rows
    BY <2>1 DEF Rows
  <2>4. S(0) \in Sums /\ S(0).hour = HourOf(ts[1]) /\ S(0).sum \in Seq(Int) /\ S(0).rows = << >>
    <3>1. \A hour \in Int, sum \in Seq(Int), rows \in Rows :
            [hour |-> hour, sum |-> sum, rows |-> rows] \in Sums
      BY DEF Sums
    <3>2. S(0) \in Sums
      BY <2>1, <2>2, <2>3, <3>1
    <3>3. S(0).sum \in Seq(Int)
      BY <3>2 DEF Sums
    <3> QED
      BY <2>2, <3>2, <3>3
  <2>5. S(1).sum = Append(S(0).sum, ts[1]) /\ S(1).rows = << >>
    <3>1. S(0) \in Sums /\ ts[1] \in Int /\ HourOf(ts[1]) = S(0).hour
      BY <2>1, <2>4
    <3>2. /\ NextReading(S(0), ts[1]).sum = Append(S(0).sum, ts[1])
          /\ NextReading(S(0), ts[1]).rows = S(0).rows
      BY ONLY <3>1, ReadingCounted
    <3> QED
      BY <2>1, <2>4, <3>2
  <2>6. S(1).sum # << >>
    BY <2>1, <2>4, <2>5
  <2> QED
    BY <2>5, <2>6
<1>4. ASSUME NEW i \in 1 .. Len(ts) - 1, P(i)
      PROVE  P(i + 1)
  <2> DEFINE t == ts[i + 1]
             hour == HourOf(ts[i])
             kept(h, j) == KeptUpTo(ts, Within(h))[j]
  <2>1. /\ i \in 1 .. Len(ts) /\ i \in 0 .. Len(ts) /\ i + 1 \in 1 .. Len(ts)
        /\ (i + 1) - 1 = i /\ t \in Int /\ ts[i] \in Int /\ ts[i] < t
    BY <1>1
  <2>2. S(i + 1) = NextReading(S(i), t)
    <3>1. S(i + 1) = NextReading(S((i + 1) - 1), ts[i + 1])
      BY <1>1, <2>1, SummedSteps
    <3> QED
      BY <2>1, <3>1
  <2>3. S(i) \in Sums /\ S(i).hour = hour /\ Closed(S(i).rows, hour)
    BY <2>1, ClosedRows
  <2>4. /\ hour \in Int /\ HourOf(hour) = hour /\ HourOf(t) \in Int /\ HourOf(HourOf(t)) = HourOf(t)
        /\ HourOf(t) <= t /\ t < HourOf(t) + HourTicks /\ hour <= HourOf(t)
        /\ ts[i] < hour + HourTicks
    <3> HIDE DEF S, kept, t
    <3>1. /\ hour \in Int /\ HourOf(hour) = hour /\ ts[i] < hour + HourTicks
      BY <2>1, Hours
    <3>2. /\ HourOf(t) \in Int /\ HourOf(HourOf(t)) = HourOf(t)
          /\ HourOf(t) <= t /\ t < HourOf(t) + HourTicks
      BY <2>1, Hours
    <3>3. ts[i] <= t
      BY <2>1
    <3>4. hour <= HourOf(t)
      BY <2>1, <3>3, HoursInOrder
    <3> QED
      BY <3>1, <3>2, <3>4
  <2>5. t \in Within(HourOf(t))
    <3> HIDE DEF S, kept, t, hour
    <3> QED
      BY <2>1, <2>4, Units DEF Within
  <2>6. kept(HourOf(t), i + 1) = Append(kept(HourOf(t), i), t) /\ kept(HourOf(t), i) \in Seq(Int)
    <3>1. KeptUpTo(ts, Within(HourOf(t)))[i + 1]
            = IF ts[i + 1] \in Within(HourOf(t))
              THEN Append(KeptUpTo(ts, Within(HourOf(t)))[(i + 1) - 1], ts[i + 1])
              ELSE KeptUpTo(ts, Within(HourOf(t)))[(i + 1) - 1]
      BY <1>1, <2>1, KeptSteps
    <3>2. KeptUpTo(ts, Within(HourOf(t)))[i] \in Seq(Int)
      BY <2>1, KeptElements
    <3>3. t = ts[i + 1] /\ (i + 1) - 1 = i
      BY <2>1
    <3> HIDE DEF t
    <3> QED
      BY <2>5, <3>1, <3>2, <3>3
  <2>7. S(i).rows \in Rows /\ S(i).sum \in Seq(Int) /\ Len(S(i).rows) \in Nat
    <3> HIDE DEF S, hour, t
    <3> QED
      BY <2>3 DEF Sums, Rows
  <2>8. \A k \in 1 .. Len(S(i).rows) :
          /\ S(i).rows[k] \in Row
          /\ HourOf(S(i).rows[k].time) = S(i).rows[k].time
          /\ S(i).rows[k].time <= HourOf(t)
    <3> HIDE DEF S, hour, t
    <3> TAKE k \in 1 .. Len(S(i).rows)
    <3>1. S(i).rows[k] \in Row
      BY <2>7 DEF Rows
    <3>2. S(i).rows[k].time \in Int
      BY <3>1 DEF Row
    <3>3. HourOf(S(i).rows[k].time) = S(i).rows[k].time /\ S(i).rows[k].time <= hour
      BY <2>3 DEF Closed
    <3>4. S(i).rows[k].time <= HourOf(t)
      <4>1. hour \in Int /\ HourOf(t) \in Int /\ hour <= HourOf(t)
        BY <2>4
      <4>2. \A a, b, c \in Int : a <= b /\ b <= c => a <= c
        OBVIOUS
      <4> QED
        BY <3>2, <3>3, <4>1, <4>2, Zenon
    <3> QED
      BY <3>1, <3>3, <3>4
  <2>9. \A k \in 2 .. Len(S(i).rows) : Total(S(i).rows[k], ts, i + 1)
    <3> TAKE k \in 2 .. Len(S(i).rows)
    <3>1. k \in 1 .. Len(S(i).rows)
      BY <2>7
    <3>2. Total(S(i).rows[k], ts, i)
      BY <1>4
    <3>3. /\ S(i).rows[k] \in Row /\ HourOf(S(i).rows[k].time) = S(i).rows[k].time
          /\ S(i).rows[k].time <= HourOf(ts[i + 1])
      BY <2>8, <3>1
    <3> HIDE DEF S
    <3> QED
      BY <3>2, <3>3, TotalStays
  <2>10. CASE HourOf(t) = hour
    <3>1. S(i + 1).sum = Append(S(i).sum, t) /\ S(i + 1).rows = S(i).rows
      <4> HIDE DEF S, t, hour
      <4>1. S(i) \in Sums /\ t \in Int /\ HourOf(t) = S(i).hour
        BY <2>1, <2>3, <2>10
      <4>2. /\ NextReading(S(i), t).sum = Append(S(i).sum, t)
            /\ NextReading(S(i), t).rows = S(i).rows
        BY ONLY <4>1, ReadingCounted
      <4> QED
        BY ONLY <2>2, <4>2
    <3>2. S(i).rows # << >> => S(i).sum = kept(hour, i)
      BY <1>4
    <3> HIDE DEF S, t, hour, kept
    <3>3. S(i + 1).sum # << >>
      <4>1. \A s \in Seq(Int), e \in Int : Append(s, e) # << >>
        OBVIOUS
      <4> QED
        BY <2>1, <2>7, <3>1, <4>1
    <3>4. S(i + 1).rows # << >> => S(i + 1).sum = kept(HourOf(t), i + 1)
      BY <2>6, <2>10, <3>1, <3>2
    <3> QED
      BY <2>9, <3>1, <3>3, <3>4 DEF t, kept
  <2>11. CASE HourOf(t) # hour
    <3> DEFINE row == [time |-> HourOf(t), sum |-> S(i).sum]
    <3>1. S(i + 1).sum = <<t>> /\ S(i + 1).rows = Append(S(i).rows, row)
      <4> HIDE DEF S, t, hour
      <4>1. S(i) \in Sums /\ t \in Int /\ HourOf(t) # S(i).hour
        BY <2>1, <2>3, <2>11
      <4>2. /\ NextReading(S(i), t).sum = <<t>>
            /\ NextReading(S(i), t).rows
                 = Append(S(i).rows, [time |-> HourOf(t), sum |-> S(i).sum])
        BY ONLY <4>1, ReadingCounted
      <4> QED
        BY <2>2, <4>2 DEF row
    <3>2. kept(HourOf(t), i) = << >>
      <4>1. \A m \in 0 + 1 .. i : ts[m] \notin Within(HourOf(t))
        <5> TAKE m \in 0 + 1 .. i
        <5>1. m \in 1 .. Len(ts) /\ ts[m] \in Int /\ ts[m] <= ts[i]
          <6>1. m \in 1 .. Len(ts) /\ m <= i
            BY <2>1
          <6>2. m < i => ts[m] < ts[i]
            BY <1>1, <2>1, <6>1
          <6> QED
            BY <1>1, <2>1, <6>1, <6>2
        <5>2. hour + HourTicks <= HourOf(t)
          BY <2>1, <2>4, <2>11, HoursInOrder
        <5>3. ts[m] < HourOf(t)
          <6>1. hour \in Int /\ ts[i] < hour + HourTicks /\ HourOf(t) \in Int /\ ts[i] \in Int
            BY <2>1, <2>4
          <6> HIDE DEF hour, t, S, kept
          <6> QED
            BY <5>1, <5>2, <6>1, Units
        <5> HIDE DEF hour, t
        <5> QED
          BY <2>4, <5>1, <5>3 DEF Within
      <4>2. 0 \in 0 .. Len(ts) /\ i \in 0 .. Len(ts)
        BY <1>1, <2>1
      <4>3. KeptUpTo(ts, Within(HourOf(t)))[i] = KeptUpTo(ts, Within(HourOf(t)))[0]
        BY <1>1, <4>1, <4>2, KeptNone
      <4> QED
        BY <1>1, <4>3, KeptSteps
    <3>3. \A k \in 2 .. Len(S(i + 1).rows) : Total(S(i + 1).rows[k], ts, i + 1)
      <4> TAKE k \in 2 .. Len(S(i + 1).rows)
      <4>1. row \in Row
        BY <2>4, <2>7 DEF Row
      <4>2. /\ Len(S(i + 1).rows) = Len(S(i).rows) + 1
            /\ \A j \in 1 .. Len(S(i).rows) : S(i + 1).rows[j] = S(i).rows[j]
            /\ S(i + 1).rows[Len(S(i).rows) + 1] = row
        <5>1. ASSUME NEW old \in Seq(Row), NEW e \in Row
              PROVE  /\ Len(Append(old, e)) = Len(old) + 1
                     /\ \A j \in 1 .. Len(old) : Append(old, e)[j] = old[j]
                     /\ Append(old, e)[Len(old) + 1] = e
          OBVIOUS
        <5>2. S(i).rows \in Seq(Row)
          BY <2>7 DEF Rows
        <5> HIDE DEF row, S
        <5>3. /\ Len(Append(S(i).rows, row)) = Len(S(i).rows) + 1
              /\ \A j \in 1 .. Len(S(i).rows) : Append(S(i).rows, row)[j] = S(i).rows[j]
              /\ Append(S(i).rows, row)[Len(S(i).rows) + 1] = row
          BY ONLY <4>1, <5>1, <5>2
        <5>4. S(i + 1).rows = Append(S(i).rows, row)
          BY <3>1
        <5> QED
          BY ONLY <5>3, <5>4
      <4>3. CASE k \in 2 .. Len(S(i).rows)
        BY <2>7, <2>9, <4>2, <4>3
      <4>4. CASE k = Len(S(i).rows) + 1
        <5>1. S(i).rows # << >>
          BY <2>7, <4>4
        <5>2. S(i).sum = KeptUpTo(ts, Within(HourOf(ts[i])))[i] /\ S(i).sum # << >>
          BY <1>4, <5>1
        <5>3. HourOf(ts[i]) < HourOf(ts[i + 1])
          BY <2>4, <2>11
        <5>4. Total(row, ts, i + 1)
          BY <5>2, <5>3, TotalOfHour
        <5> QED
          BY <4>2, <4>4, <5>4
      <4>5. k \in 2 .. Len(S(i).rows) \/ k = Len(S(i).rows) + 1
        <5>1. Len(S(i).rows) \in Nat /\ k \in 2 .. Len(S(i).rows) + 1
          BY <2>7, <4>2
        <5> HIDE DEF S, row, t, hour, kept
        <5> QED
          BY <5>1
      <4> QED
        BY <4>3, <4>4, <4>5
    <3>4. S(i + 1).sum # << >> /\ S(i + 1).sum = kept(HourOf(t), i + 1)
      <4>1. Append(<< >>, t) = <<t>> /\ <<t>> # << >>
        BY <2>1
      <4> HIDE DEF S, t, kept, row
      <4> QED
        BY <2>6, <3>1, <3>2, <4>1
    <3> QED
      BY <3>3, <3>4
  <2> QED
    BY <2>10, <2>11
<1>5. \A i \in 0 .. Len(ts) - 1 : i \in T => i + 1 \in T
  <2> TAKE i \in 0 .. Len(ts) - 1
  <2>1. i + 1 \in 0 .. Len(ts) /\ (i = 0 \/ i \in 1 .. Len(ts) - 1)
    BY <1>1
  <2> HIDE DEF P
  <2> QED
    BY <1>3, <1>4, <2>1
<1>6. 0 .. Len(ts) \subseteq T
  <2> HIDE DEF T
  <2> QED
    BY <1>1, <1>2, <1>5, UpTo
<1>7. P(n)
  <2> HIDE DEF P
  <2> QED
    BY <1>6
<1> QED
  BY <1>7

\* What the rows of a day are: full hours in order, each total but the first.
LEMMA HourlyRows ==
  ASSUME NEW ts \in Seq(Int), Increasing(ts)
  PROVE  /\ Hourly(ts) \in Rows
         /\ \A k \in 1 .. Len(Hourly(ts)) : HourOf(Hourly(ts)[k].time) = Hourly(ts)[k].time
         /\ \A j, k \in 1 .. Len(Hourly(ts)) : j < k => Hourly(ts)[j].time < Hourly(ts)[k].time
         /\ \A k \in 2 .. Len(Hourly(ts)) : Total(Hourly(ts)[k], ts, Len(ts))
<1>1. CASE ts = << >>
  <2>1. Hourly(ts) = << >>
    BY <1>1 DEF Hourly
  <2> QED
    BY <2>1 DEF Rows
<1>2. CASE ts # << >>
  <2>1. Len(ts) \in 1 .. Len(ts) /\ Hourly(ts) = Summed(ts)[Len(ts)].rows
    BY <1>2 DEF Hourly
  <2>2. Summed(ts)[Len(ts)] \in Sums /\ Closed(Hourly(ts), HourOf(ts[Len(ts)]))
    BY <2>1, ClosedRows
  <2>3. Hourly(ts) \in Rows
    BY <2>1, <2>2 DEF Sums
  <2>4. \A k \in 2 .. Len(Hourly(ts)) : Total(Hourly(ts)[k], ts, Len(ts))
    BY <2>1, ClosedTotals
  <2> QED
    BY <2>2, <2>3, <2>4 DEF Closed
<1> QED
  BY <1>1, <1>2

LEMMA Span ==
  ASSUME NEW ts \in Seq(Int), NEW from \in Int, NEW to \in Int
  PROVE  /\ Between(ts, from, to) \in Seq(Int)
         /\ \A i \in 1 .. Len(Between(ts, from, to)) : Between(ts, from, to)[i] \in from .. to
         /\ Increasing(ts) => Increasing(Between(ts, from, to))
<1>1. Len(ts) \in 0 .. Len(ts)
  OBVIOUS
<1>2. /\ Between(ts, from, to) \in Seq(Int)
      /\ \A i \in 1 .. Len(Between(ts, from, to)) : Between(ts, from, to)[i] \in from .. to
  BY <1>1, KeptElements DEF Between, Kept
<1>3. Increasing(ts) => Increasing(Between(ts, from, to))
  BY <1>1, KeptOrder DEF Between, Kept
<1> QED
  BY <1>2, <1>3

\* The readings of a gauge that RFTOCSV.py gets.
GaugeReadings(r, ts) == Between(ts, r.start - (3 * HourTicks) \div 2, r.state)

LEMMA GaugeRows ==
  ASSUME NEW r \in Requests, NEW ts \in {r.kub, r.klb}
  PROVE  /\ GaugeReadings(r, ts) \in Seq(Int) /\ Increasing(GaugeReadings(r, ts))
         /\ ObservedOf(r, ts) \in Rows
         /\ \A k \in 1 .. Len(ObservedOf(r, ts)) :
              HourOf(ObservedOf(r, ts)[k].time) = ObservedOf(r, ts)[k].time
         /\ \A j, k \in 1 .. Len(ObservedOf(r, ts)) :
              j < k => ObservedOf(r, ts)[j].time < ObservedOf(r, ts)[k].time
         /\ \A k \in 2 .. Len(ObservedOf(r, ts)) :
              Total(ObservedOf(r, ts)[k], GaugeReadings(r, ts), Len(GaugeReadings(r, ts)))
<1>1. ts \in Seq(Int) /\ Increasing(ts) /\ r.start \in Int /\ r.state \in Int
  BY RequestsAssumption
<1>2. r.start - (3 * HourTicks) \div 2 \in Int
  BY <1>1, Units
<1>3. GaugeReadings(r, ts) \in Seq(Int) /\ Increasing(GaugeReadings(r, ts))
  BY <1>1, <1>2, Span DEF GaugeReadings
<1>4. ObservedOf(r, ts) = Hourly(GaugeReadings(r, ts))
  BY DEF ObservedOf, GaugeReadings
<1> QED
  BY <1>3, <1>4, HourlyRows

RainRow == [time : Int, from : {"observed", "forecast"}, kub : Seq(Int), klb : Seq(Int)]

LEMMA ObservedRows ==
  ASSUME NEW r \in Requests
  PROVE  /\ Observed(r) \in Seq(RainRow)
         /\ Len(Observed(r)) = Len(ObservedOf(r, r.kub))
         /\ \A i \in 1 .. Len(Observed(r)) :
              /\ Observed(r)[i].time = ObservedOf(r, r.kub)[i].time
              /\ Observed(r)[i].kub = ObservedOf(r, r.kub)[i].sum
              /\ Observed(r)[i].from = "observed"
<1> DEFINE lower == ObservedOf(r, r.klb)
           upper == ObservedOf(r, r.kub)
           at(t) == {i \in DOMAIN lower : lower[i].time = t}
           Klb(row) == IF at(row.time) = {} THEN row.sum
                       ELSE lower[CHOOSE i \in at(row.time) : TRUE].sum
           Pair(row) == [time |-> row.time, from |-> "observed", kub |-> row.sum, klb |-> Klb(row)]
<1>1. lower \in Rows /\ upper \in Rows
  BY GaugeRows
<1>2. Observed(r) = [i \in DOMAIN upper |-> Pair(upper[i])]
  BY DEF Observed
<1> HIDE DEF lower, upper
<1>3. \A i \in DOMAIN lower : lower[i] \in Row
  BY <1>1 DEF Rows
<1>4. \A row \in Row : row.time \in Int /\ row.sum \in Seq(Int)
  BY DEF Row
<1>5. ASSUME NEW row \in Row
      PROVE  Klb(row) \in Seq(Int)
  <2>1. CASE at(row.time) = {}
    BY <1>4, <2>1
  <2>2. CASE at(row.time) # {}
    <3>1. (CHOOSE i \in at(row.time) : TRUE) \in at(row.time)
      BY <2>2
    <3>2. (CHOOSE i \in at(row.time) : TRUE) \in DOMAIN lower
      BY <3>1
    <3>3. lower[CHOOSE i \in at(row.time) : TRUE].sum \in Seq(Int)
      BY <1>3, <1>4, <3>2
    <3> QED
      BY <2>2, <3>3
  <2> QED
    BY <2>1, <2>2
<1> HIDE DEF Klb
<1>6. ASSUME NEW row \in Row
      PROVE  /\ Pair(row) \in RainRow
             /\ Pair(row).time = row.time /\ Pair(row).kub = row.sum /\ Pair(row).from = "observed"
  BY <1>4, <1>5 DEF RainRow
<1> HIDE DEF Pair
<1>7. upper \in Seq(Row) /\ DOMAIN upper = 1 .. Len(upper) /\ Len(upper) \in Nat
  BY <1>1 DEF Rows
<1>8. \A i \in 1 .. Len(upper) : upper[i] \in Row
  BY <1>7
<1>9. Observed(r) \in Seq(RainRow) /\ Len(Observed(r)) = Len(upper)
  BY <1>2, <1>6, <1>7, <1>8
<1>10. \A i \in 1 .. Len(upper) : Observed(r)[i] = Pair(upper[i])
  BY <1>2, <1>7
<1> QED
  BY <1>6, <1>8, <1>9, <1>10 DEF upper

Agree(r) == Range(r.stations[2]) \subseteq Range(r.stations[1])

LEMMA StationRows ==
  ASSUME NEW r \in Requests
  PROVE  /\ StationTimes(r) \in Seq(Int)
         /\ \A i \in 1 .. Len(StationTimes(r)) : HourOf(StationTimes(r)[i]) = StationTimes(r)[i]
         /\ Agree(r) => Increasing(StationTimes(r))
<1> DEFINE one == r.stations[1]
           two == r.stations[2]
           S == Range(two) \ Range(one)
           more == Kept(two, S)
<1>1. /\ one \in Seq(Int) /\ two \in Seq(Int) /\ Increasing(one)
      /\ \A t \in Range(one) \cup Range(two) : t % HourTicks = 0
  BY RequestsAssumption
<1>2. StationTimes(r) = one \o more
  BY DEF StationTimes
<1>3. /\ \A i \in 1 .. Len(one) : one[i] \in Range(one)
      /\ \A i \in 1 .. Len(two) : two[i] \in Range(two)
  BY <1>1 DEF Range
<1> HIDE DEF one, two
<1>4. /\ more \in Seq(Int)
      /\ \A i \in 1 .. Len(more) : more[i] \in S
  <2>1. Len(two) \in 0 .. Len(two)
    BY <1>1
  <2> HIDE DEF S
  <2> QED
    BY <1>1, <2>1, KeptElements DEF Kept
<1>5. Agree(r) => more = << >>
  <2>1. Agree(r) => S = {}
    BY DEF Agree, one, two
  <2> HIDE DEF S
  <2>2. S = {} => Len(more) = 0
    BY <1>4
  <2> QED
    BY <1>4, <2>1, <2>2
<1> HIDE DEF more
<1>6. /\ one \o more \in Seq(Int)
      /\ \A i \in 1 .. Len(one \o more) :
           (one \o more)[i] \in Range(one) \cup Range(two) /\ (one \o more)[i] \in Int
  <2>1. /\ one \o more \in Seq(Int) /\ Len(one \o more) = Len(one) + Len(more)
        /\ \A i \in 1 .. Len(one) + Len(more) :
             (one \o more)[i] = IF i <= Len(one) THEN one[i] ELSE more[i - Len(one)]
    BY <1>1, <1>4
  <2>2. ASSUME NEW i \in 1 .. Len(one \o more)
        PROVE  (one \o more)[i] \in Range(one) \cup Range(two) /\ (one \o more)[i] \in Int
    <3>1. CASE i <= Len(one)
      BY <1>1, <1>3, <2>1, <3>1
    <3>2. CASE i > Len(one)
      <4>1. i - Len(one) \in 1 .. Len(more)
        BY <1>1, <1>4, <2>1, <3>2
      <4> QED
        BY <1>1, <1>4, <2>1, <3>2, <4>1
    <3> QED
      BY <1>1, <3>1, <3>2
  <2> QED
    BY <2>1, <2>2
<1>7. \A i \in 1 .. Len(one \o more) : HourOf((one \o more)[i]) = (one \o more)[i]
  BY <1>1, <1>6, OnTheHour
<1>8. Agree(r) => one \o more = one
  BY <1>1, <1>5
<1> QED
  BY <1>1, <1>2, <1>6, <1>7, <1>8

LEMMA ForecastRows ==
  ASSUME NEW r \in Requests, NEW last \in Int
  PROVE  /\ Forecast(r, last) \in Seq(RainRow)
         /\ \A i \in 1 .. Len(Forecast(r, last)) :
              /\ HourOf(Forecast(r, last)[i].time) = Forecast(r, last)[i].time
              /\ last < Forecast(r, last)[i].time
              /\ Forecast(r, last)[i].from = "forecast"
         /\ Agree(r) => \A i, j \in 1 .. Len(Forecast(r, last)) :
              i < j => Forecast(r, last)[i].time < Forecast(r, last)[j].time
<1> DEFINE all == StationTimes(r)
           S == {t \in r.kubMean \cap r.klbMean : t > last}
           times == Kept(all, S)
           New(t) == [time |-> t, from |-> "forecast", kub |-> << >>, klb |-> << >>]
<1>1. /\ all \in Seq(Int) /\ Len(all) \in 0 .. Len(all)
      /\ \A i \in 1 .. Len(all) : HourOf(all[i]) = all[i]
      /\ Agree(r) => Increasing(all)
  BY StationRows
<1>2. Forecast(r, last) = [i \in DOMAIN times |-> New(times[i])]
  BY DEF Forecast
<1>3. \A t \in S : last < t
  OBVIOUS
<1> HIDE DEF all, S
<1>4. /\ times \in Seq(Int)
      /\ \A i \in 1 .. Len(times) : times[i] \in S /\ \E j \in 1 .. Len(all) : times[i] = all[j]
      /\ Agree(r) => Increasing(times)
  <2>1. /\ times \in Seq(Int)
        /\ \A i \in 1 .. Len(times) : times[i] \in S /\ \E j \in 1 .. Len(all) : times[i] = all[j]
    BY <1>1, KeptElements DEF Kept
  <2>2. Agree(r) => Increasing(times)
    BY <1>1, KeptOrder DEF Kept
  <2> QED
    BY <2>1, <2>2
<1> HIDE DEF times
<1>5. DOMAIN times = 1 .. Len(times) /\ Len(times) \in Nat
  BY <1>4
<1>6. \A i \in 1 .. Len(times) : times[i] \in Int /\ HourOf(times[i]) = times[i] /\ last < times[i]
  BY <1>1, <1>3, <1>4
<1>7. Agree(r) => \A i, j \in 1 .. Len(times) : i < j => times[i] < times[j]
  BY <1>4, <1>5 DEF Increasing
<1>8. ASSUME NEW t \in Int
      PROVE  New(t) \in RainRow /\ New(t).time = t /\ New(t).from = "forecast"
  BY DEF RainRow
<1> HIDE DEF New
<1>9. Forecast(r, last) \in Seq(RainRow) /\ Len(Forecast(r, last)) = Len(times)
  BY <1>2, <1>5, <1>6, <1>8
<1>10. \A i \in 1 .. Len(times) : Forecast(r, last)[i].time = times[i] /\ Forecast(r, last)[i].from = "forecast"
  BY <1>2, <1>5, <1>6, <1>8
<1> QED
  BY <1>6, <1>7, <1>9, <1>10

LastSeen(r) == IF Observed(r) = << >> THEN r.start ELSE Observed(r)[Len(Observed(r))].time
RainOf(r) == Observed(r) \o Forecast(r, LastSeen(r))

\* The rain of a run, through the seam.
LEMMA RainRows ==
  ASSUME NEW r \in Requests
  PROVE  /\ RainOf(r) \in Seq(RainRow)
         /\ \A i \in 1 .. Len(RainOf(r)) :
              /\ HourOf(RainOf(r)[i].time) = RainOf(r)[i].time
              /\ RainOf(r)[i].from = "observed" =>
                   i \in 1 .. Len(Observed(r)) /\ RainOf(r)[i] = Observed(r)[i]
         /\ \A i, j \in 1 .. Len(RainOf(r)) : i < j =>
              /\ RainOf(r)[i].from = "forecast" => RainOf(r)[j].from = "forecast"
              /\ Agree(r) => RainOf(r)[i].time < RainOf(r)[j].time
<1> DEFINE old == Observed(r)
           new == Forecast(r, LastSeen(r))
           all == RainOf(r)
           n == Len(old)
<1>1. /\ old \in Seq(RainRow) /\ n \in Nat
      /\ \A i \in 1 .. n : old[i].time \in Int /\ HourOf(old[i].time) = old[i].time
      /\ \A i \in 1 .. n : old[i].from = "observed"
      /\ \A i, j \in 1 .. n : i < j => old[i].time < old[j].time
  <2>1. old \in Seq(RainRow) /\ n \in Nat /\ \A i \in 1 .. n : old[i] \in RainRow
    BY ObservedRows
  <2>2. n = Len(ObservedOf(r, r.kub))
    BY ObservedRows
  <2>3. \A i \in 1 .. n : old[i].time = ObservedOf(r, r.kub)[i].time /\ old[i].from = "observed"
    BY ObservedRows
  <2>4. /\ \A k \in 1 .. n : HourOf(ObservedOf(r, r.kub)[k].time) = ObservedOf(r, r.kub)[k].time
        /\ \A j, k \in 1 .. n :
             j < k => ObservedOf(r, r.kub)[j].time < ObservedOf(r, r.kub)[k].time
    BY <2>2, GaugeRows
  <2> HIDE DEF old, n
  <2>5. \A i \in 1 .. n : old[i].time \in Int
    BY <2>1 DEF RainRow
  <2> QED
    BY <2>1, <2>3, <2>4, <2>5
<1>2. LastSeen(r) \in Int /\ \A i \in 1 .. n : old[i].time <= LastSeen(r)
  <2>1. CASE old = << >>
    <3>1. r.start \in Int
      BY RequestsAssumption
    <3> QED
      BY <2>1, <3>1 DEF LastSeen
  <2>2. CASE old # << >>
    <3>1. n \in 1 .. n /\ LastSeen(r) = old[n].time
      BY <1>1, <2>2 DEF LastSeen
    <3> HIDE DEF old, n
    <3>2. \A i \in 1 .. n : i < n \/ i = n
      BY <1>1
    <3> QED
      BY <1>1, <3>1, <3>2
  <2> QED
    BY <2>1, <2>2
<1>3. /\ new \in Seq(RainRow) /\ Len(new) \in Nat
      /\ \A i \in 1 .. Len(new) :
           HourOf(new[i].time) = new[i].time /\ LastSeen(r) < new[i].time /\ new[i].from = "forecast"
      /\ Agree(r) => \A i, j \in 1 .. Len(new) : i < j => new[i].time < new[j].time
  BY <1>2, ForecastRows
<1>4. all = old \o new
  BY DEF RainOf
<1> HIDE DEF old, new, all
<1>5. /\ all \in Seq(RainRow) /\ Len(all) = n + Len(new)
      /\ \A i \in 1 .. n : all[i] = old[i]
      /\ \A i \in n + 1 .. Len(all) : i - n \in 1 .. Len(new) /\ all[i] = new[i - n]
  <2>1. ASSUME NEW a \in Seq(RainRow), NEW b \in Seq(RainRow)
        PROVE  /\ a \o b \in Seq(RainRow) /\ Len(a \o b) = Len(a) + Len(b)
               /\ \A i \in 1 .. Len(a) : (a \o b)[i] = a[i]
               /\ \A i \in Len(a) + 1 .. Len(a \o b) :
                    i - Len(a) \in 1 .. Len(b) /\ (a \o b)[i] = b[i - Len(a)]
    OBVIOUS
  <2> QED
    BY <1>1, <1>3, <1>4, <2>1
<1> HIDE DEF n
<1>6. \A i \in 1 .. Len(all) : i \in 1 .. n \/ i \in n + 1 .. Len(all)
  BY <1>1, <1>3, <1>5
<1>7. \A i \in 1 .. Len(all) :
        /\ HourOf(all[i].time) = all[i].time
        /\ all[i].from = "observed" => i \in 1 .. n /\ all[i] = old[i]
  <2> TAKE i \in 1 .. Len(all)
  <2>1. CASE i \in 1 .. n
    BY <1>1, <1>5, <2>1
  <2>2. CASE i \in n + 1 .. Len(all)
    BY <1>3, <1>5, <2>2
  <2> QED
    BY <1>6, <2>1, <2>2
<1>8. \A i \in 1 .. Len(new) : new[i].time \in Int
  <2>1. \A row \in RainRow : row.time \in Int
    BY DEF RainRow
  <2>2. \A i \in 1 .. Len(new) : new[i] \in RainRow
    BY <1>3
  <2> QED
    BY <2>1, <2>2
<1>9. ASSUME NEW i \in 1 .. Len(all), NEW j \in 1 .. Len(all), i < j
      PROVE  /\ all[i].from = "forecast" => all[j].from = "forecast"
             /\ Agree(r) => all[i].time < all[j].time
  <2>1. CASE j \in 1 .. n
    <3>1. i \in 1 .. n
      BY <1>1, <1>9, <2>1
    <3> QED
      BY <1>1, <1>5, <1>9, <2>1, <3>1
  <2>2. CASE i \in 1 .. n /\ j \in n + 1 .. Len(all)
    <3>1. j - n \in 1 .. Len(new) /\ all[j] = new[j - n] /\ all[i] = old[i]
      BY <1>5, <2>2
    <3>2. /\ old[i].time \in Int /\ old[i].time <= LastSeen(r) /\ LastSeen(r) \in Int
          /\ new[j - n].time \in Int /\ LastSeen(r) < new[j - n].time
          /\ new[j - n].from = "forecast"
      BY <1>1, <1>2, <1>3, <1>8, <2>2, <3>1
    <3> QED
      BY <3>1, <3>2
  <2>3. CASE i \in n + 1 .. Len(all) /\ j \in n + 1 .. Len(all)
    <3>1. i - n < j - n
      BY <1>1, <1>9
    <3> QED
      BY <1>3, <1>5, <2>3, <3>1
  <2>4. CASE i \in n + 1 .. Len(all) /\ j \in 1 .. n
    BY <1>1, <1>9, <2>4
  <2> QED
    BY <1>6, <2>1, <2>2, <2>3
<1> QED
  BY <1>5, <1>7, <1>9 DEF all, n, old

-----------------------------------------------------------------------------
(* The invariant.                                                          *)

Control ==
  /\ pc \in {"idle", "rain", "dss", "window", "compute", "csv", "inflow", "outflow", "ended"}
  /\ runs \in 0 .. MaxRuns
  /\ IF pc = "idle" THEN req = Absent ELSE req \in Requests

\* Nothing is left of an earlier run.
Fresh ==
  pc \in {"idle", "rain"} =>
    /\ rain = << >> /\ dss = << >> /\ window = Absent
    /\ flow = << >> /\ inflow = << >> /\ outflow = << >>

RainInv ==
  /\ rain # << >> => rain = RainOf(req)
  /\ pc \in {"dss", "window", "compute", "csv", "inflow", "outflow"} => rain # << >>

DssInv ==
  /\ dss # << >> => dss = [i \in DOMAIN rain |-> DssTime(i)]
  /\ pc \in {"window", "compute"} => dss = [i \in DOMAIN rain |-> DssTime(i)]

WindowInv ==
  pc \in {"compute", "csv", "inflow", "outflow"} =>
    /\ window.from = rain[1].time
    /\ window.saveAt = window.from + DayTicks
    /\ window.save = Day(window.from)
    /\ window.start \in {Absent, Day(window.from - DayTicks)}

\* A state was saved a day after the day it is named after.
StatesInv ==
  \A d \in DOMAIN states : d \in Int /\ states[d] \in Int /\ Day(states[d]) = d + 1

\* The discharge is hourly from the first row of rain on, before and after its
\* times were written out.
FlowInv ==
  pc \in {"csv", "inflow", "outflow"} =>
    /\ DOMAIN flow = 1 .. req.control + 1
    /\ \A i \in DOMAIN flow : flow[i] = rain[1].time + (i - 1) * HourTicks

InflowInv ==
  \A i \in DOMAIN inflow :
    i \in Int /\ inflow[i] = [hour |-> i, at |-> rain[1].time + (i - 1) * HourTicks]

TideLines(r) ==
  LET tides == Between(r.tides, r.start, r.start + 6 * DayTicks) IN
  [i \in DOMAIN tides |->
     [hour |-> (Rounded(tides[i]) - HourOf(r.start)) \div HourTicks, at |-> tides[i]]]

OutflowInv == outflow # << >> => outflow = TideLines(req)

Inv ==
  /\ Control
  /\ Fresh
  /\ RainInv
  /\ DssInv
  /\ WindowInv
  /\ StatesInv
  /\ FlowInv
  /\ InflowInv
  /\ OutflowInv

\* Rain that there is has a first row, at a full hour.
LEMMA FirstRow ==
  ASSUME req \in Requests, rain # << >>, RainInv
  PROVE  /\ rain \in Seq(RainRow) /\ 1 \in 1 .. Len(rain) /\ DOMAIN rain = 1 .. Len(rain)
         /\ rain[1].time \in Int /\ HourOf(rain[1].time) = rain[1].time
<1>1. rain \in Seq(RainRow) /\ \A i \in 1 .. Len(rain) : HourOf(rain[i].time) = rain[i].time
  BY RainRows DEF RainInv
<1>2. 1 \in 1 .. Len(rain) /\ DOMAIN rain = 1 .. Len(rain) /\ rain[1] \in RainRow
  BY <1>1
<1>3. rain[1].time \in Int
  BY <1>2 DEF RainRow
<1> QED
  BY <1>1, <1>2, <1>3

LEMMA InvInit == Init => Inv
BY SeriesAssumption
   DEF Init, Inv, Control, Fresh, RainInv, DssInv, WindowInv, StatesInv, FlowInv, InflowInv, OutflowInv

LEMMA StartKeeps == ASSUME Inv, NEW r \in Requests, StartRun(r) PROVE Inv'
<1>1. (rain = << >> /\ dss = << >> /\ inflow = << >> /\ outflow = << >> /\ Fresh)'
  BY DEF Inv, Fresh, StartRun, results
<1>2. Control'
  BY SeriesAssumption DEF Inv, Control, StartRun
<1>3. (RainInv /\ DssInv /\ WindowInv /\ FlowInv /\ OutflowInv)'
  BY <1>1 DEF StartRun, RainInv, DssInv, WindowInv, FlowInv, OutflowInv
<1>4. (StatesInv /\ InflowInv)'
  BY <1>1 DEF Inv, StartRun, StatesInv, InflowInv
<1> QED
  BY <1>1, <1>2, <1>3, <1>4 DEF Inv

LEMMA EndKeeps == ASSUME Inv, EndRun PROVE Inv'
<1>1. (Fresh /\ RainInv /\ DssInv /\ WindowInv /\ FlowInv /\ OutflowInv)'
  BY DEF EndRun, Fresh, RainInv, DssInv, WindowInv, FlowInv, OutflowInv
<1>2. Control'
  BY DEF Inv, Control, EndRun
<1>3. (StatesInv /\ InflowInv)'
  BY DEF Inv, EndRun, StatesInv, InflowInv
<1> QED
  BY <1>1, <1>2, <1>3 DEF Inv

LEMMA RainKeeps == ASSUME Inv, WriteRain PROVE Inv'
<1>1. /\ req \in Requests /\ dss = << >> /\ inflow = << >> /\ outflow = << >>
      /\ pc' \in {"ended", "dss"} /\ (rain' = << >> => pc' = "ended")
      /\ UNCHANGED <<runs, req, dss, states, inflow, outflow>>
  BY DEF Inv, Control, Fresh, WriteRain
<1>2. rain' = RainOf(req)
  BY DEF WriteRain, RainOf, LastSeen
<1>3. (Control /\ Fresh)'
  BY <1>1 DEF Inv, Control, Fresh
<1>4. RainInv'
  <2>1. RainOf(req') = RainOf(req)
    BY <1>1
  <2> QED
    BY <1>1, <1>2, <2>1 DEF RainInv
<1>5. (DssInv /\ WindowInv /\ FlowInv /\ OutflowInv)'
  BY <1>1 DEF DssInv, WindowInv, FlowInv, OutflowInv
<1>6. (StatesInv /\ InflowInv)'
  BY <1>1 DEF Inv, StatesInv, InflowInv
<1> QED
  BY <1>3, <1>4, <1>5, <1>6 DEF Inv

LEMMA DssKeeps == ASSUME Inv, PutDss PROVE Inv'
<1>1. (Control /\ Fresh /\ WindowInv /\ FlowInv)'
  BY DEF Inv, Control, Fresh, WindowInv, FlowInv, PutDss
<1>2. (RainInv /\ OutflowInv)'
  BY DEF Inv, RainInv, OutflowInv, PutDss, RainOf, TideLines
<1>3. DssInv'
  BY DEF PutDss, DssInv, DssTime
<1>4. (StatesInv /\ InflowInv)'
  BY DEF Inv, StatesInv, InflowInv, PutDss
<1> QED
  BY <1>1, <1>2, <1>3, <1>4 DEF Inv

LEMMA WindowKeeps == ASSUME Inv, SetWindow PROVE Inv'
<1>1. (Control /\ Fresh /\ FlowInv)'
  BY DEF Inv, Control, Fresh, FlowInv, SetWindow
<1>2. (RainInv /\ OutflowInv)'
  BY DEF Inv, RainInv, OutflowInv, SetWindow, RainOf, TideLines
<1>3. DssInv'
  BY DEF Inv, DssInv, DssTime, SetWindow
<1>4. WindowInv'
  BY DEF SetWindow, WindowInv, StateNames
<1>5. (StatesInv /\ InflowInv)'
  BY DEF Inv, StatesInv, InflowInv, SetWindow
<1> QED
  BY <1>1, <1>2, <1>3, <1>4, <1>5 DEF Inv

LEMMA ComputeKeeps == ASSUME Inv, Compute PROVE Inv'
<1>1. req \in Requests /\ pc = "compute" /\ rain # << >> /\ window.from = rain[1].time
  BY DEF Inv, Control, RainInv, WindowInv, Compute
<1>2. (Control /\ Fresh)'
  BY DEF Inv, Control, Fresh, Compute
<1>3. (RainInv /\ OutflowInv)'
  BY DEF Inv, RainInv, OutflowInv, Compute, RainOf, TideLines
<1>4. (DssInv /\ WindowInv /\ InflowInv)'
  BY DEF Inv, DssInv, DssTime, WindowInv, InflowInv, Compute
<1>5. FlowInv'
  BY <1>1 DEF Compute, FlowInv
<1>6. StatesInv'
  <2>1. /\ window.save = Day(window.from) /\ window.saveAt = window.from + DayTicks
        /\ window.from \in Int
    BY <1>1, FirstRow DEF Inv, WindowInv
  <2>2. /\ window.save \in Int /\ window.saveAt \in Int
        /\ Day(window.saveAt) = window.save + 1
    <3>1. ASSUME NEW t \in Int
          PROVE  Day(t) \in Int /\ t + DayTicks \in Int /\ Day(t + DayTicks) = Day(t) + 1
      BY Days, Units
    <3> QED
      BY <2>1, <3>1
  <2>3. states' = states \/ states' = Saved(window.save, window.saveAt)
    BY DEF Compute
  <2>4. StatesInv
    BY DEF Inv
  <2>5. CASE states' = states
    BY <2>4, <2>5 DEF StatesInv
  <2>6. CASE states' = Saved(window.save, window.saveAt)
    <3>1. DOMAIN states' = DOMAIN states \cup {window.save}
      BY <2>6 DEF Saved
    <3>2. \A d \in DOMAIN states' : d \in Int /\ states'[d] \in Int /\ Day(states'[d]) = d + 1
      <4> TAKE d \in DOMAIN states'
      <4>1. states'[d] = IF d = window.save THEN window.saveAt ELSE states[d]
        BY <2>6, <3>1 DEF Saved
      <4> QED
        BY <2>2, <2>4, <3>1, <4>1 DEF StatesInv
    <3> QED
      BY <3>2 DEF StatesInv
  <2> QED
    BY <2>3, <2>5, <2>6
<1> QED
  BY <1>2, <1>3, <1>4, <1>5, <1>6 DEF Inv

LEMMA FailKeeps == ASSUME Inv, ComputeFails PROVE Inv'
<1>1. (Control /\ Fresh /\ WindowInv /\ FlowInv)'
  BY DEF Inv, Control, Fresh, WindowInv, FlowInv, ComputeFails
<1>2. (RainInv /\ OutflowInv)'
  BY DEF Inv, RainInv, OutflowInv, ComputeFails, results, RainOf, TideLines
<1>3. (DssInv /\ StatesInv /\ InflowInv)'
  BY DEF Inv, DssInv, DssTime, StatesInv, InflowInv, ComputeFails, results
<1> QED
  BY <1>1, <1>2, <1>3 DEF Inv

LEMMA FlowKeeps == ASSUME Inv, WriteFlow PROVE Inv'
<1>1. req \in Requests /\ pc = "csv" /\ rain # << >> /\ RainInv /\ FlowInv
  BY DEF Inv, Control, RainInv, WriteFlow
<1>2. (Control /\ Fresh)'
  BY DEF Inv, Control, Fresh, WriteFlow
<1>3. (RainInv /\ OutflowInv)'
  BY DEF Inv, RainInv, OutflowInv, WriteFlow, RainOf, TideLines
<1>4. (DssInv /\ WindowInv /\ StatesInv /\ InflowInv)'
  BY DEF Inv, DssInv, DssTime, WindowInv, StatesInv, InflowInv, WriteFlow
<1>5. FlowInv'
  <2>1. /\ DOMAIN flow = 1 .. req.control + 1 /\ req.control \in Nat
        /\ \A i \in DOMAIN flow : flow[i] = rain[1].time + (i - 1) * HourTicks
    BY <1>1, RequestsAssumption DEF FlowInv
  <2>2. rain[1].time \in Int /\ HourOf(rain[1].time) = rain[1].time
    BY <1>1, FirstRow
  <2>3. \A i \in DOMAIN flow : flow[i] \in Int /\ HourOf(flow[i]) = flow[i]
    <3> TAKE i \in DOMAIN flow
    <3>1. i - 1 \in Int
      BY <2>1
    <3>2. HourOf(rain[1].time + (i - 1) * HourTicks) = rain[1].time + (i - 1) * HourTicks
      BY <2>2, <3>1, HourShift
    <3>3. (i - 1) * HourTicks \in Int
      BY <3>1, Products, Units
    <3> QED
      BY <2>1, <2>2, <3>2, <3>3
  <2>4. \A i \in DOMAIN flow : CsvTime(HecDay(flow[i]), HecHour(flow[i])) = flow[i]
    BY <2>3, CsvTimeRight
  <2>5. /\ DOMAIN flow' = DOMAIN flow
        /\ \A i \in DOMAIN flow : flow'[i] = flow[i]
        /\ rain' = rain /\ req' = req
    BY <2>4 DEF WriteFlow
  <2> QED
    BY <2>1, <2>5 DEF FlowInv
<1> QED
  BY <1>2, <1>3, <1>4, <1>5 DEF Inv

LEMMA InflowKeeps == ASSUME Inv, WriteInflow PROVE Inv'
<1>1. (Control /\ Fresh)'
  BY DEF Inv, Control, Fresh, WriteInflow
<1>2. (RainInv /\ OutflowInv)'
  BY DEF Inv, RainInv, OutflowInv, WriteInflow, RainOf, TideLines
<1>3. (DssInv /\ WindowInv /\ StatesInv /\ FlowInv)'
  BY DEF Inv, DssInv, DssTime, WindowInv, StatesInv, FlowInv, WriteInflow
<1>4. InflowInv'
  BY DEF Inv, FlowInv, InflowInv, WriteInflow
<1> QED
  BY <1>1, <1>2, <1>3, <1>4 DEF Inv

LEMMA OutflowKeeps == ASSUME Inv, WriteOutflow PROVE Inv'
<1>1. (Control /\ Fresh /\ WindowInv /\ FlowInv)'
  BY DEF Inv, Control, Fresh, WindowInv, FlowInv, WriteOutflow
<1>2. RainInv'
  BY DEF Inv, RainInv, WriteOutflow, RainOf
<1>3. OutflowInv'
  BY DEF OutflowInv, WriteOutflow, TideLines
<1>4. (DssInv /\ StatesInv /\ InflowInv)'
  BY DEF Inv, DssInv, DssTime, StatesInv, InflowInv, WriteOutflow
<1> QED
  BY <1>1, <1>2, <1>3, <1>4 DEF Inv

LEMMA Invariant == Spec => []Inv
<1>1. Inv /\ [Next]_vars => Inv'
  <2> SUFFICES ASSUME Inv, [Next]_vars
               PROVE  Inv'
    OBVIOUS
  <2>1. CASE UNCHANGED vars
    BY <2>1 DEF vars, Inv, Control, Fresh, RainInv, RainOf, DssInv, DssTime, WindowInv, StatesInv,
                FlowInv, InflowInv, OutflowInv, TideLines
  <2> QED
    BY <2>1, StartKeeps, EndKeeps, RainKeeps, DssKeeps, WindowKeeps, ComputeKeeps, FailKeeps,
       FlowKeeps, InflowKeeps, OutflowKeeps DEF Next
<1> QED
  BY InvInit, <1>1, PTL DEF Spec

\* A run that has rain serves a request, with the rain of that request.
LEMMA RainOfRequest ==
  ASSUME Inv, rain # << >>
  PROVE  /\ req \in Requests /\ rain = RainOf(req)
         /\ DOMAIN rain = 1 .. Len(rain) /\ rain \in Seq(RainRow)
<1>1. req \in Requests /\ rain = RainOf(req)
  BY DEF Inv, Control, Fresh, RainInv
<1> QED
  BY <1>1, FirstRow DEF Inv

\* Numbers of hours compare as the times they make.
LEMMA HourCounts ==
  ASSUME NEW p \in Int, NEW q \in Int
  PROVE  /\ p * HourTicks \in Int /\ q * HourTicks \in Int
         /\ p * HourTicks < q * HourTicks => p < q
         /\ p * HourTicks <= q * HourTicks => p <= q
         /\ (p - q) * HourTicks = p * HourTicks - q * HourTicks
<1>1. /\ p * HourTicks \in Int /\ q * HourTicks \in Int
      /\ (p - q) * HourTicks = p * HourTicks - q * HourTicks
  BY Products, Units
<1>2. q < p => q * HourTicks + HourTicks <= p * HourTicks
  BY Products, Units
<1>3. q <= p => q * HourTicks <= p * HourTicks
  BY Products, Units
<1> QED
  BY <1>1, <1>2, <1>3, Units

\* Between full hours there is a number of hours.
LEMMA HoursBetween ==
  ASSUME NEW s \in Int, NEW t \in Int, HourOf(s) = s, HourOf(t) = t
  PROVE  (t - s) \div HourTicks \in Int /\ ((t - s) \div HourTicks) * HourTicks = t - s
<1> DEFINE p == s \div HourTicks
           q == t \div HourTicks
<1>1. p \in Int /\ q \in Int /\ p * HourTicks = s /\ q * HourTicks = t
  BY Quotient, Units DEF HourOf
<1> HIDE DEF p, q
<1>2. q - p \in Int /\ (q - p) * HourTicks = t - s
  BY <1>1, HourCounts
<1>3. (t - s) \div HourTicks = q - p
  <2>1. t - s \in Int /\ t - s <= t - s /\ t - s < (t - s) + HourTicks
    BY Units
  <2> QED
    BY <1>2, <2>1, Units, OnlyQuotient
<1> QED
  BY <1>2, <1>3

-----------------------------------------------------------------------------
(* Theorems.                                                               *)

\* Every variable has its type: the rain is observed or forecast, a state is of
\* the day after the one it is named after, and HEC-HMS is given a value for
\* each row.
THEOREM TypeCorrect == Spec => []TypeOK
<1>1. Inv => TypeOK
  <2> SUFFICES ASSUME Inv
               PROVE  TypeOK
    OBVIOUS
  <2>1. \A i \in DOMAIN rain : rain[i].from \in {"observed", "forecast"}
    <3>1. CASE rain = << >>
      BY <3>1
    <3>2. CASE rain # << >>
      <4>1. \A row \in RainRow : row.from \in {"observed", "forecast"}
        BY DEF RainRow
      <4>2. \A i \in DOMAIN rain : rain[i] \in RainRow
        BY <3>2, RainOfRequest
      <4> QED
        BY <4>1, <4>2
    <3> QED
      BY <3>1, <3>2
  <2>2. pc = "compute" => DOMAIN dss = DOMAIN rain
    BY DEF Inv, DssInv
  <2> QED
    BY <2>1, <2>2 DEF Inv, Control, StatesInv, TypeOK
<1> QED
  BY Invariant, <1>1, PTL

\* RFTOCSV.py joins what was observed and what is forecast without a row out of
\* its place, whatever gauges and stations lack.
THEOREM RowsInOrder == Spec => []RainInOrder
<1>1. Inv => RainInOrder
  <2> SUFFICES ASSUME Inv, rain # << >>, StationsAgree, NEW i \in 1 .. Len(rain) - 1
               PROVE  /\ rain[i].time < rain[i + 1].time
                      /\ rain[i].from = "forecast" => rain[i + 1].from = "forecast"
    BY DEF RainInOrder
  <2>1. req \in Requests /\ rain = RainOf(req) /\ Len(rain) \in Nat
    BY RainOfRequest
  <2>2. i \in 1 .. Len(rain) /\ i + 1 \in 1 .. Len(rain) /\ i < i + 1
    BY <2>1
  <2>3. Agree(req)
    BY DEF StationsAgree, Agree
  <2> QED
    BY <2>1, <2>2, <2>3, RainRows
<1> QED
  BY Invariant, <1>1, PTL

\* The loop of RFTOCSV.py sums every hour's readings, each once, for any
\* readings: an hour's first reading closes the hour before it.
THEOREM EachHourSummed == Spec => []HourlyTotals
<1>1. Inv => HourlyTotals
  <2> SUFFICES ASSUME Inv, NEW i \in DOMAIN rain, rain[i].from = "observed", i > 1
               PROVE  LET hour == HourOf(rain[i].kub[1]) IN
                      /\ rain[i].kub = Kept(Readings, hour .. hour + HourTicks - 1)
                      /\ \A k \in DOMAIN Readings :
                           ~(hour < HourOf(Readings[k]) /\ Readings[k] < rain[i].time)
    BY DEF HourlyTotals
  <2>1. rain # << >>
    OBVIOUS
  <2>2. req \in Requests /\ rain = RainOf(req) /\ i \in 1 .. Len(rain)
    BY <2>1, RainOfRequest
  <2>3. i \in 1 .. Len(Observed(req)) /\ rain[i] = Observed(req)[i]
    BY <2>2, RainRows
  <2> DEFINE row == ObservedOf(req, req.kub)[i]
  <2>4. /\ rain[i].time = row.time /\ rain[i].kub = row.sum
        /\ i \in 2 .. Len(ObservedOf(req, req.kub))
    BY <2>2, <2>3, ObservedRows
  <2>5. Total(row, GaugeReadings(req, req.kub), Len(GaugeReadings(req, req.kub)))
    BY <2>2, <2>4, GaugeRows
  <2>6. Readings = GaugeReadings(req, req.kub) /\ DOMAIN Readings = 1 .. Len(Readings)
    BY <2>2, GaugeRows DEF Readings, GaugeReadings
  <2> HIDE DEF row
  <2> QED
    BY <2>4, <2>5, <2>6 DEF Total, Within, Kept
<1> QED
  BY Invariant, <1>1, PTL

\* The name that Update_HECHMS.py makes up finds a state of the day the run
\* begins on, and of its very hour if states are saved at one hour of the day.
THEOREM StateOfTheDay == Spec => []StartStateFits
<1>1. Inv => StartStateFits
  <2> SUFFICES ASSUME Inv, pc = "compute", window.start \in DOMAIN states
               PROVE  LET s == states[window.start] IN
                      /\ Day(s) = Day(window.from)
                      /\ (\A d \in DOMAIN states : (states[d] - window.from) % DayTicks = 0)
                           => s = window.from
    BY DEF StartStateFits
  <2> DEFINE s == states[window.start]
             k == (s - window.from) \div DayTicks
  <2>1. window.from \in Int
    <3>1. window.from = rain[1].time /\ req \in Requests /\ rain # << >>
      BY DEF Inv, Control, WindowInv, RainInv
    <3> QED
      BY <3>1, FirstRow DEF Inv
  <2>2. window.start = Day(window.from - DayTicks)
    BY SeriesAssumption DEF Inv, StatesInv, WindowInv
  <2>3. s \in Int /\ Day(s) = window.start + 1
    BY DEF Inv, StatesInv
  <2>4. Day(window.from) \in Int /\ Day(window.from - DayTicks) = Day(window.from) - 1
    BY <2>1, Days
  <2>5. Day(s) = Day(window.from)
    BY <2>2, <2>3, <2>4
  <2>6. ASSUME (s - window.from) % DayTicks = 0
        PROVE  s = window.from
    <3>1. k \in Int /\ k * DayTicks = s - window.from /\ k * DayTicks \in Int
      <4>1. s - window.from \in Int
        BY <2>1, <2>3
      <4>2. \A d \in Int : d % DayTicks = 0 =>
              (d \div DayTicks) * DayTicks = d /\ d \div DayTicks \in Int
        BY Quotient, Units
      <4> HIDE DEF s
      <4> QED
        BY <2>6, <4>1, <4>2
    <3>2. s - window.from < DayTicks /\ window.from - s < DayTicks
      <4>1. /\ Day(s) * DayTicks <= s /\ s < Day(s) * DayTicks + DayTicks
            /\ Day(s) * DayTicks <= window.from /\ window.from < Day(s) * DayTicks + DayTicks
            /\ Day(s) * DayTicks \in Int
        <5>1. \A t \in Int : /\ Day(t) * DayTicks <= t /\ t < Day(t) * DayTicks + DayTicks
                             /\ Day(t) \in Int
          BY Days
        <5>2. \A d \in Int : d * DayTicks \in Int
          BY Products, Units
        <5> HIDE DEF s
        <5> QED
          BY <2>1, <2>3, <2>5, <5>1, <5>2
      <4> HIDE DEF s
      <4> QED
        BY <2>1, <2>3, <4>1, Units
    <3> HIDE DEF k
    <3>3. k < 1 /\ -1 < k
      <4>1. k >= 1 => 1 * DayTicks <= k * DayTicks
        BY <3>1, Products, Units
      <4>2. k <= -1 => k * DayTicks <= (-1) * DayTicks
        BY <3>1, Products, Units
      <4> QED
        BY <2>1, <2>3, <3>1, <3>2, <4>1, <4>2, Units
    <3>4. k = 0
      BY <3>1, <3>3
    <3> QED
      BY <2>1, <2>3, <3>1, <3>4, Units
  <2> QED
    BY <2>5, <2>6
<1> QED
  BY Invariant, <1>1, PTL

\* HecTime's midnight is undone: CSVTODAT.py reads the discharge under the hours
\* of the window, for windows of any length that begin at any hour.
THEOREM DischargeOnTime == Spec => []DischargeTimesKept
<1>1. Inv => DischargeTimesKept
  <2> SUFFICES ASSUME Inv, pc = "inflow"
               PROVE  /\ DOMAIN flow = 1 .. req.control + 1
                      /\ \A i \in DOMAIN flow : flow[i] = window.from + (i - 1) * HourTicks
    BY DEF DischargeTimesKept
  <2>1. window.from = rain[1].time
    BY DEF Inv, WindowInv
  <2>2. /\ DOMAIN flow = 1 .. req.control + 1
        /\ \A i \in DOMAIN flow : flow[i] = rain[1].time + (i - 1) * HourTicks
    BY DEF Inv, FlowInv
  <2> QED
    BY <2>1, <2>2
<1> QED
  BY Invariant, <1>1, PTL

\* Rounding goes to a full hour, half an hour away at most.
LEMMA RoundedHour ==
  ASSUME NEW t \in Int
  PROVE  /\ Rounded(t) \in Int /\ HourOf(Rounded(t)) = Rounded(t)
         /\ HourOf(t) <= Rounded(t)
         /\ Rounded(t) - t <= HourTicks \div 2 /\ t - Rounded(t) <= HourTicks \div 2
<1>1. HourOf(t) \in Int /\ HourOf(t) <= t /\ t < HourOf(t) + HourTicks /\ HourOf(HourOf(t)) = HourOf(t)
  BY Hours
<1>2. HourOf(HourOf(t) + 1 * HourTicks) = HourOf(HourOf(t)) + 1 * HourTicks
  BY <1>1, HourShift
<1>3. HourTicks = 2 * (HourTicks \div 2) /\ HourTicks \div 2 \in Int
  BY Units
<1> QED
  BY <1>1, <1>2, <1>3, Units DEF Rounded

\* Times an hour apart are rounded to different hours, in their order.
LEMMA RoundedApart ==
  ASSUME NEW s \in Int, NEW t \in Int, t - s >= HourTicks
  PROVE  Rounded(s) < Rounded(t)
<1>1. /\ HourOf(s) \in Int /\ HourOf(s) <= s
      /\ HourOf(t) \in Int /\ HourOf(t) <= t
  BY Hours
<1>2. HourOf(s) + HourTicks <= HourOf(t)
  <2>1. HourOf(s + 1 * HourTicks) = HourOf(s) + 1 * HourTicks
    BY HourShift
  <2>2. s + 1 * HourTicks \in Int /\ s + 1 * HourTicks <= t
    BY Units
  <2> QED
    BY <1>1, <2>1, <2>2, HoursInOrder, Units
<1>3. HourOf(t) = HourOf(s) + HourTicks \/ HourOf(s) + HourTicks + HourTicks <= HourOf(t)
  <2>1. HourOf(s) + HourTicks \in Int /\ HourOf(HourOf(s) + HourTicks) = HourOf(s) + HourTicks
    <3>1. HourOf(HourOf(s) + 1 * HourTicks) = HourOf(HourOf(s)) + 1 * HourTicks
      BY <1>1, HourShift
    <3> QED
      BY <1>1, <3>1, Hours, Units
  <2>2. HourOf(HourOf(t)) = HourOf(t)
    BY Hours
  <2> QED
    BY <1>1, <1>2, <2>1, <2>2, HoursInOrder
<1>4. HourTicks \div 2 \in Int
  BY Units
<1>5. /\ Rounded(s) \in {HourOf(s), HourOf(s) + HourTicks}
      /\ Rounded(t) \in {HourOf(t), HourOf(t) + HourTicks}
  BY DEF Rounded
<1>6. CASE Rounded(s) = HourOf(s)
  BY <1>1, <1>2, <1>5, <1>6, Units
<1>7. CASE HourOf(s) + HourTicks + HourTicks <= HourOf(t)
  BY <1>1, <1>5, <1>7, Units
<1>8. CASE HourOf(t) = HourOf(s) + HourTicks /\ Rounded(s) # HourOf(s)
  <2>1. s - HourOf(s) > HourTicks \div 2
    BY <1>8 DEF Rounded
  <2>2. t - HourOf(t) > HourTicks \div 2
    BY <1>1, <1>4, <1>8, <2>1, Units
  <2>3. Rounded(t) = HourOf(t) + HourTicks
    BY <2>2 DEF Rounded
  <2> QED
    BY <1>1, <1>5, <1>8, <2>3, Units
<1> QED
  BY <1>3, <1>6, <1>7, <1>8

\* TIDAL_TO_OUTFLOW.py puts any tide at the nearest hour, none before the start,
\* and no two that are an hour apart at the same.
THEOREM TidesInPlace == Spec => []TidesOnTheHour
<1>1. Inv => TidesOnTheHour
  <2> SUFFICES ASSUME Inv, NEW i \in DOMAIN outflow
               PROVE  LET clock == HourOf(req.start) + outflow[i].hour * HourTicks IN
                      /\ clock - outflow[i].at <= HourTicks \div 2
                      /\ outflow[i].at - clock <= HourTicks \div 2
                      /\ outflow[i].hour >= 0
                      /\ i > 1 /\ outflow[i].at - outflow[i - 1].at >= HourTicks =>
                           outflow[i - 1].hour < outflow[i].hour
    BY DEF TidesOnTheHour
  <2> DEFINE tides == Between(req.tides, req.start, req.start + 6 * DayTicks)
             base == HourOf(req.start)
  <2>1. req \in Requests /\ outflow = TideLines(req)
    <3>1. outflow # << >>
      OBVIOUS
    <3> QED
      BY <3>1 DEF Inv, Control, Fresh, OutflowInv
  <2>2. req.start \in Int /\ req.tides \in Seq(Int) /\ req.start + 6 * DayTicks \in Int
    BY <2>1, RequestsAssumption, Units
  <2>3. /\ tides \in Seq(Int) /\ i \in 1 .. Len(tides)
        /\ \A j \in 1 .. Len(tides) :
             /\ tides[j] \in Int /\ req.start <= tides[j]
             /\ outflow[j].at = tides[j]
             /\ outflow[j].hour = (Rounded(tides[j]) - base) \div HourTicks
    <3>1. tides \in Seq(Int) /\ DOMAIN tides = 1 .. Len(tides)
      BY <2>2, Span
    <3>2. \A j \in 1 .. Len(tides) : tides[j] \in req.start .. req.start + 6 * DayTicks
      BY <2>2, Span
    <3>3. /\ DOMAIN outflow = DOMAIN tides
          /\ \A j \in DOMAIN tides :
               /\ outflow[j].at = tides[j]
               /\ outflow[j].hour = (Rounded(tides[j]) - base) \div HourTicks
      BY <2>1 DEF TideLines
    <3>4. i \in 1 .. Len(tides)
      BY <3>1, <3>3
    <3> HIDE DEF tides, base
    <3>5. ASSUME NEW j \in 1 .. Len(tides)
          PROVE  /\ tides[j] \in Int /\ req.start <= tides[j]
                 /\ outflow[j].at = tides[j]
                 /\ outflow[j].hour = (Rounded(tides[j]) - base) \div HourTicks
      <4>1. tides[j] \in req.start .. req.start + 6 * DayTicks
        BY <3>2
      <4>2. tides[j] \in Int /\ req.start <= tides[j]
        BY <2>2, <4>1
      <4> QED
        BY <3>1, <3>3, <4>2
    <3> QED
      BY <3>1, <3>4, <3>5
  <2> HIDE DEF tides
  <2>4. base \in Int /\ HourOf(base) = base
    BY <2>2, Hours
  <2>5. \A j \in 1 .. Len(tides) :
          /\ outflow[j].hour \in Int
          /\ outflow[j].hour * HourTicks = Rounded(tides[j]) - base
          /\ base <= Rounded(tides[j])
    <3> TAKE j \in 1 .. Len(tides)
    <3>1. tides[j] \in Int /\ req.start <= tides[j]
      BY <2>3
    <3>2. /\ Rounded(tides[j]) \in Int /\ HourOf(Rounded(tides[j])) = Rounded(tides[j])
          /\ HourOf(tides[j]) <= Rounded(tides[j]) /\ HourOf(tides[j]) \in Int
      BY <3>1, RoundedHour, Hours
    <3>3. base <= HourOf(tides[j])
      BY <2>2, <3>1, HoursInOrder
    <3> HIDE DEF base
    <3>4. /\ (Rounded(tides[j]) - base) \div HourTicks \in Int
          /\ ((Rounded(tides[j]) - base) \div HourTicks) * HourTicks = Rounded(tides[j]) - base
      BY <2>4, <3>2, HoursBetween
    <3>5. base <= Rounded(tides[j])
      BY <2>4, <3>2, <3>3
    <3> QED
      BY <2>3, <3>4, <3>5
  <2> HIDE DEF base
  <2>6. /\ Rounded(tides[i]) \in Int /\ tides[i] \in Int
        /\ Rounded(tides[i]) - tides[i] <= HourTicks \div 2
        /\ tides[i] - Rounded(tides[i]) <= HourTicks \div 2
    BY <2>3, RoundedHour
  <2>7. outflow[i].hour >= 0
    <3>1. 0 <= outflow[i].hour * HourTicks /\ outflow[i].hour \in Int
      BY <2>3, <2>4, <2>5, <2>6
    <3>2. \A q \in Int : q < 0 => q * HourTicks + HourTicks <= 0 * HourTicks
      BY Products, Units
    <3>3. \A q \in Int : q * HourTicks \in Int
      BY Products, Units
    <3> QED
      BY <3>1, <3>2, <3>3, Units
  <2>8. ASSUME i > 1, outflow[i].at - outflow[i - 1].at >= HourTicks
        PROVE  outflow[i - 1].hour < outflow[i].hour
    <3>1. i - 1 \in 1 .. Len(tides) /\ tides[i - 1] \in Int
      BY <2>3, <2>8
    <3>2. tides[i] - tides[i - 1] >= HourTicks
      BY <2>3, <2>8, <3>1
    <3>3. Rounded(tides[i - 1]) < Rounded(tides[i]) /\ Rounded(tides[i - 1]) \in Int
      BY <2>6, <3>1, <3>2, RoundedApart, RoundedHour
    <3>4. outflow[i - 1].hour * HourTicks < outflow[i].hour * HourTicks
      <4>1. /\ outflow[i - 1].hour * HourTicks = Rounded(tides[i - 1]) - base
            /\ outflow[i].hour * HourTicks = Rounded(tides[i]) - base
        BY <2>3, <2>5, <3>1
      <4> QED
        BY <2>4, <2>6, <3>3, <4>1
    <3> QED
      BY <2>3, <2>5, <3>1, <3>4, HourCounts
  <2>9. /\ base + outflow[i].hour * HourTicks = Rounded(tides[i])
        /\ outflow[i].at = tides[i]
    <3>1. outflow[i].hour * HourTicks = Rounded(tides[i]) - base /\ outflow[i].at = tides[i]
      BY <2>3, <2>5
    <3> QED
      BY <2>4, <2>6, <3>1
  <2> QED
    BY <2>6, <2>7, <2>8, <2>9 DEF base
<1> QED
  BY Invariant, <1>1, PTL
=============================================================================
