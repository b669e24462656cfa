------------------------ MODULE ForecastPipelineProofs ------------------------
(***************************************************************************)
(* Theorems about ForecastPipeline, for any number of runs, dates and tags *)
(* and any combination of steps that may go wrong.                         *)
(***************************************************************************)
EXTENDS ForecastPipeline, TLAPS

-----------------------------------------------------------------------------
(* The invariants.                                                         *)

\* Runs at work at the same time have different tags.
Exclusive ==
  \A q, r \in Runs :
    q # r /\ Active(q) /\ Active(r) => Simultaneous /\ TagOf[q] # TagOf[r]

\* A run without -T.
Plain(r) == TagOf[r] = NoTag

\* From the removal of the .dss files to the reading of the discharge.
InHecHms(r) == pc[r] \in {"todss", "todssBox", "update", "hms", "tocsv"}

\* Handing over comes after INFLOW.DAT.
Handing == {"tidal", "sendIn", "sendOut", "runFile", "sendRun", "record"}

\* Runs of the same date as r.
SameDate(r) == {q \in Runs : DateOf[q] = DateOf[r]}

\* What lies in the files of 2008_2_Events and in the CSV files is of the date
\* of the untagged run that is going to read it.
DateInv ==
  /\ \A k \in Keys : rain[k] \subseteq {q \in Runs : Key(q) = k}
  /\ \A r \in Runs : Plain(r) =>
       /\ InHecHms(r) => dssIn[NoTag] \subseteq SameDate(r) /\ OfDate(dssOut[NoTag], r)
       /\ OfDate(discharge[Key(r)], r)
       /\ pc[r] \in Handing =>
            /\ OfDate(inflow[NoTag], r)
            /\ ~MayFail("todat") => inflow[NoTag] # {}

\* Dates of tagged runs that may be at work beside others.
TaggedDates == {w \in Dates : Simultaneous /\ \E q \in Runs : TagOf[q] # NoTag /\ DateOf[q] = w}

\* The windows that 2008_2_Events may have while an untagged run uses it.
WindowsFor(r) == {Sample, DateOf[r]} \cup TaggedDates

\* The windows that share days with a run's rain.
OwnWindows(r) == {DateOf[r]} \cup Intruding(DateOf[r])

\* Discharge computed from the rain of r, over its window or an intruder's.
Own(pieces, r) == \A p \in pieces : p.rain = r /\ p.over \in OwnWindows(r)

\* The places from reading the rain to using it.
AfterRain == {"hack", "clean", "todss", "todssBox", "update"}

\* When nothing goes wrong, it is of the very run.
OwnInv ==
  faults = {} => \A r \in Runs : Plain(r) =>
    /\ pc[r] \in AfterRain => rain[Key(r)] \subseteq {r}
    /\ pc[r] = "clean" \/ InHecHms(r) => window \in WindowsFor(r)
    /\ InHecHms(r) => dssIn[NoTag] \subseteq {r} /\ Own(dssOut[NoTag], r)
    /\ pc[r] \in {"tocsvBox", "todat"} => Own(discharge[Key(r)], r)
    /\ pc[r] \in {"tidal", "sendIn"} => inflow[NoTag] # {} /\ Own(inflow[NoTag], r)
    /\ pc[r] \in {"sendIn", "sendOut"} => outflow[NoTag] = {r}
    /\ pc[r] = "sendOut" => sent[r].inflow # {} /\ Own(sent[r].inflow, r)
    /\ pc[r] \in {"runFile", "sendRun", "record", "done"} /\ r \notin KeepLocal =>
         sent[r].inflow # {} /\ Own(sent[r].inflow, r) /\ sent[r].outflow = {r}

\* The places after a run has handed over its two files.
Delivered == {"runFile", "sendRun", "record", "done"}

\* What is handed over was produced, where neither it nor the upload can fail.
UploadInv ==
  ~MayFail("send") => \A r \in Runs : Plain(r) =>
    /\ /\ ~MayFail("todat")
       /\ pc[r] = "sendOut" \/ (pc[r] \in Delivered /\ r \notin KeepLocal)
       => sent[r].inflow # {}
    /\ ~MayFail("tidal") =>
         /\ pc[r] \in {"sendIn", "sendOut"} => outflow[NoTag] = {r}
         /\ pc[r] \in Delivered /\ r \notin KeepLocal => sent[r].outflow = {r}

\* Runs that may overlap have different dates.
DatesApart ==
  ~Simultaneous \/ \A q, r \in Runs : DateOf[q] = DateOf[r] => TagOf[q] = TagOf[r]

\* A run of Forecast.sh at work was not turned away, and would not be now.
LedgerInv ==
  Daily /\ DatesApart => \A r \in Runs : Active(r) => pc[r] # "fetch" /\ ~AlreadyRun(r)
-----------------------------------------------------------------------------
(* Type correctness.                                                       *)

Step == {"idle"} \cup Working \cup Exited

LEMMA GotoTyped ==
  ASSUME TypeOK, NEW r \in Runs, NEW step \in Step, Goto(r, step)
  PROVE  pc' \in [Runs -> Step]
BY DEF TypeOK, Goto, Step

\* Names belong to the constants they should.
LEMMA NamesTyped ==
  ASSUME NEW r \in Runs
  PROVE  /\ DateOf[r] \in Dates /\ TagOf[r] \in Tags /\ Key(r) \in Keys
         /\ NoTag \in Tags /\ HandOverTag(r) \in Tags
         /\ r \in Sources /\ Sample \in Sources
         /\ WrfDateOf[r] \in Dates /\ DateOf[r] \in Windows /\ Sample \in Windows
         /\ SamplePiece \in Pieces /\ Sample \notin Runs \cup Dates
BY PipelineAssumption DEF Key, Keys, HandOverTag, Sources, Windows, Pieces, SamplePiece

\* What a run has handed over.
Sent == [inflow : SUBSET Pieces, outflow : SUBSET Runs, run : SUBSET Runs]

LEMMA SentTyped ==
  ASSUME NEW s \in Sent, NEW in \in SUBSET Pieces, NEW own \in SUBSET Runs
  PROVE  /\ [s EXCEPT !.inflow = in] \in Sent
         /\ [s EXCEPT !.outflow = own] \in Sent
         /\ [s EXCEPT !.run = own] \in Sent
BY DEF Sent

LEMMA MergeTyped ==
  ASSUME NEW old, NEW new
  PROVE  Merge(old, new) \subseteq old \cup new
BY DEF Merge

LEMMA ComputedTyped ==
  ASSUME TypeOK
  PROVE  /\ InWindow \subseteq dssIn[NoTag]
         /\ Computed \subseteq Pieces
         /\ \A p \in Computed : p.over = window /\ p.rain \in InWindow
BY PipelineAssumption DEF TypeOK, InWindow, Computed, Pieces

LEMMA TypeInit == Init => TypeOK
BY PipelineAssumption
   DEF Init, TypeOK, Shipped, SamplePiece, Pieces, Sources, Windows

LEMMA TypeNext == TypeOK /\ [Next]_vars => TypeOK'
<1> SUFFICES ASSUME TypeOK, [Next]_vars PROVE TypeOK'
  OBVIOUS
<1> USE DEF csvVars, hmsVars, datVars
<1>1. CASE UNCHANGED vars
  BY <1>1 DEF vars, TypeOK
<1>2. ASSUME NEW r \in Runs, Start(r) \/ Work(r) \/ Dismiss(r) \/ Killed(r), UNCHANGED faults
      PROVE  TypeOK'
  <2> USE NamesTyped
  <2>1. CASE Start(r)
    BY <1>2, <2>1, GotoTyped DEF Start, TypeOK, Step, Exited, Working, Waiting
  <2>2. CASE FetchFiles(r)
    <3>1. pc' \in [Runs -> Step]
      <4>1. Goto(r, "rain") \/ Goto(r, "quit")
        BY <2>2 DEF FetchFiles
      <4>2. QED  BY <4>1, GotoTyped DEF Step, Working, Exited
    <3>2. stock' \in [Dates -> SUBSET RainFiles]
      BY <2>2 DEF FetchFiles, Keep, TypeOK
    <3>3. QED  BY <1>2, <2>2, <3>1, <3>2 DEF FetchFiles, TypeOK, Step
  <2>3. CASE WriteRain(r)
    <3>1. rain' \in [Keys -> SUBSET Runs]
      <4>1. \E new \in SUBSET Runs : rain' = [rain EXCEPT ![Key(r)] = new]
        <5>1. {r} \in SUBSET Runs /\ {} \in SUBSET Runs
          OBVIOUS
        <5>2. rain = [rain EXCEPT ![Key(r)] = rain[Key(r)]] /\ rain[Key(r)] \in SUBSET Runs
          BY DEF TypeOK
        <5>3. QED  BY <2>3, <5>1, <5>2 DEF WriteRain
      <4>2. QED  BY <4>1 DEF TypeOK
    <3>2. pc' \in [Runs -> Step]
      BY <2>3, GotoTyped DEF WriteRain, Step, Working
    <3>3. QED  BY <1>2, <2>3, <3>1, <3>2 DEF WriteRain, TypeOK, Step
  <2>4. CASE CopyHack(r)
    BY <1>2, <2>4, GotoTyped DEF CopyHack, TypeOK, Step, Exited, Working, Waiting
  <2>5. CASE RemoveDss(r)
    BY <1>2, <2>5, GotoTyped DEF RemoveDss, TypeOK, Step, Exited, Working, Waiting
  <2>6. CASE WriteDss(r)
    <3>1. Merge(dssIn[TagOf[r]], rain[Key(r)]) \subseteq Sources
      BY MergeTyped DEF TypeOK, Sources
    <3>2. dssIn' \in [Tags -> SUBSET Sources]
      BY <2>6, <3>1 DEF WriteDss, TypeOK
    <3>3. QED  BY <1>2, <2>6, <3>2, GotoTyped DEF WriteDss, TypeOK, Step, Exited, Working, Waiting
  <2>7. CASE UpdateWindow(r)
    BY <1>2, <2>7, GotoTyped DEF UpdateWindow, TypeOK, Step, Exited, Working, Waiting
  <2>8. CASE RunHecHms(r)
    <3>1. {p \in dssOut[NoTag] : p.over # window} \cup Computed \subseteq Pieces
      BY ComputedTyped DEF TypeOK
    <3>2. dssOut' \in [Tags -> SUBSET Pieces]
      BY <2>8, <3>1 DEF RunHecHms, TypeOK
    <3>3. pc' \in [Runs -> Step]
      <4>1. Goto(r, "tocsv") \/ Goto(r, "failed")
        BY <2>8 DEF RunHecHms
      <4>2. QED  BY <4>1, GotoTyped DEF Step, Exited, Working
    <3>4. QED  BY <1>2, <2>8, <3>2, <3>3 DEF RunHecHms, TypeOK, Step
  <2>9. CASE WriteDischarge(r)
    BY <1>2, <2>9, GotoTyped DEF WriteDischarge, TypeOK, Step, Exited, Working, Waiting
  <2>10. CASE RejectDischarge(r) \/ NoTides(r) \/ Dismiss(r) \/ Killed(r)
    BY <1>2, <2>10, GotoTyped DEF RejectDischarge, NoTides, Dismiss, Killed, TypeOK, Step, Exited, Working, Waiting
  <2>11. CASE WriteInflow(r)
    BY <1>2, <2>11, GotoTyped DEF WriteInflow, TypeOK, Step, Exited, Working, Waiting
  <2>12. CASE WriteOutflow(r)
    <3>1. pc' \in [Runs -> Step]
      <4>1. AfterTides(r) \in Step /\ Goto(r, AfterTides(r))
        BY <2>12 DEF WriteOutflow, AfterTides, Step, Working
      <4>2. QED  BY <4>1, GotoTyped
    <3>2. outflow' \in [Tags -> SUBSET Runs]
      BY <2>12 DEF WriteOutflow, TypeOK
    <3>3. QED  BY <1>2, <2>12, <3>1, <3>2 DEF WriteOutflow, TypeOK, Step
  <2>13. CASE SendInflow(r)
    <3>1. sent' \in [Runs -> Sent]
      <4>1. sent' = sent \/ sent' = [sent EXCEPT ![r] = [sent[r] EXCEPT !.inflow = inflow[HandOverTag(r)]]]
        BY <2>13 DEF SendInflow
      <4>2. sent \in [Runs -> Sent] /\ inflow[HandOverTag(r)] \in SUBSET Pieces
        BY DEF TypeOK, Sent
      <4>3. [sent[r] EXCEPT !.inflow = inflow[HandOverTag(r)]] \in Sent
        BY <4>2, SentTyped
      <4>4. QED  BY <4>1, <4>2, <4>3
    <3>2. QED  BY <1>2, <2>13, <3>1, GotoTyped DEF SendInflow, TypeOK, Sent, Step, Exited, Working, Waiting
  <2>14. CASE SendOutflow(r)
    <3>1. sent' \in [Runs -> Sent]
      <4>1. sent' = sent \/ sent' = [sent EXCEPT ![r] = [sent[r] EXCEPT !.outflow = outflow[HandOverTag(r)]]]
        BY <2>14 DEF SendOutflow
      <4>2. sent \in [Runs -> Sent] /\ outflow[HandOverTag(r)] \in SUBSET Runs
        BY DEF TypeOK, Sent
      <4>3. [sent[r] EXCEPT !.outflow = outflow[HandOverTag(r)]] \in Sent
        BY <4>2, SentTyped
      <4>4. QED  BY <4>1, <4>2, <4>3
    <3>2. QED  BY <1>2, <2>14, <3>1, GotoTyped DEF SendOutflow, TypeOK, Sent, Step, Exited, Working, Waiting
  <2>15. CASE WriteRunFile(r)
    BY <1>2, <2>15, GotoTyped DEF WriteRunFile, TypeOK, Step, Exited, Working, Waiting
  <2>16. CASE SendRunFile(r)
    <3>1. sent' \in [Runs -> Sent]
      <4>1. sent' = sent \/ sent' = [sent EXCEPT ![r] = [sent[r] EXCEPT !.run = runFile[TagOf[r]]]]
        BY <2>16 DEF SendRunFile
      <4>2. sent \in [Runs -> Sent] /\ runFile[TagOf[r]] \in SUBSET Runs
        BY DEF TypeOK, Sent
      <4>3. [sent[r] EXCEPT !.run = runFile[TagOf[r]]] \in Sent
        BY <4>2, SentTyped
      <4>4. QED  BY <4>1, <4>2, <4>3
    <3>2. QED  BY <1>2, <2>16, <3>1, GotoTyped DEF SendRunFile, TypeOK, Sent, Step, Exited, Working, Waiting
  <2>17. CASE RecordStatus(r)
    BY <1>2, <2>17, GotoTyped DEF RecordStatus, TypeOK, Step, Exited, Working, Waiting
  <2>18. QED
    BY <1>2, <2>1, <2>2, <2>3, <2>4, <2>5, <2>6, <2>7, <2>8, <2>9, <2>10, <2>11,
       <2>12, <2>13, <2>14, <2>15, <2>16, <2>17 DEF Work
<1>3. QED  BY <1>1, <1>2 DEF Next

\* The files and the state of the scripts have their types, whatever fails and
\* whoever is killed.
THEOREM TypeCorrect == Spec => []TypeOK
BY TypeInit, TypeNext, PTL DEF Spec
-----------------------------------------------------------------------------
(* Who writes what.                                                        *)

\* A step moves one script on, which was at work unless it starts.
LEMMA OneMoves ==
  ASSUME TypeOK, NEW r \in Runs, Start(r) \/ Work(r) \/ Dismiss(r) \/ Killed(r)
  PROVE  /\ \A q \in Runs \ {r} : pc'[q] = pc[q]
         /\ Active(r) \/ Start(r)
         /\ pc'[r] # pc[r]
<1>1. ASSUME NEW step, Goto(r, step)
      PROVE  pc'[r] = step /\ \A q \in Runs \ {r} : pc'[q] = pc[q]
  BY <1>1 DEF Goto, TypeOK
<1>2. CASE Start(r)
  BY <1>1, <1>2 DEF Start
<1>3. CASE Killed(r) \/ Dismiss(r)
  BY <1>1, <1>3 DEF Killed, Dismiss, Active, Working, Waiting
<1>4. CASE FetchFiles(r)
  BY <1>1, <1>4 DEF FetchFiles, Active, Working, Waiting
<1>5. CASE WriteRain(r) \/ CopyHack(r) \/ RemoveDss(r) \/ WriteDss(r) \/ UpdateWindow(r)
  BY <1>1, <1>5 DEF WriteRain, CopyHack, RemoveDss, WriteDss, UpdateWindow, Active, Working, Waiting
<1>6. CASE RunHecHms(r) \/ WriteDischarge(r) \/ RejectDischarge(r) \/ WriteInflow(r) \/ NoTides(r)
  BY <1>1, <1>6 DEF RunHecHms, WriteDischarge, RejectDischarge, WriteInflow, NoTides, Active, Working, Waiting
<1>7. CASE WriteOutflow(r) \/ SendInflow(r) \/ SendOutflow(r)
  BY <1>1, <1>7 DEF WriteOutflow, AfterTides, SendInflow, SendOutflow, Active, Working, Waiting
<1>8. CASE WriteRunFile(r) \/ SendRunFile(r) \/ RecordStatus(r)
  BY <1>1, <1>8 DEF WriteRunFile, SendRunFile, RecordStatus, Active, Working, Waiting
<1>9. QED  BY <1>2, <1>3, <1>4, <1>5, <1>6, <1>7, <1>8 DEF Work

\* Each file has its writers.
LEMMA FileWriters ==
  ASSUME NEW r \in Runs, Start(r) \/ Work(r) \/ Dismiss(r) \/ Killed(r)
  PROVE  /\ WriteRain(r) \/ UNCHANGED rain
         /\ CopyHack(r) \/ RemoveDss(r) \/ WriteDss(r) \/ UNCHANGED dssIn
         /\ CopyHack(r) \/ RemoveDss(r) \/ RunHecHms(r) \/ UNCHANGED dssOut
         /\ CopyHack(r) \/ UpdateWindow(r) \/ UNCHANGED window
         /\ WriteDischarge(r) \/ UNCHANGED discharge
         /\ WriteInflow(r) \/ UNCHANGED inflow
         /\ WriteOutflow(r) \/ UNCHANGED outflow
         /\ SendInflow(r) \/ SendOutflow(r) \/ SendRunFile(r) \/ UNCHANGED sent
         /\ RecordStatus(r) \/ UNCHANGED status
BY DEF Start, Work, Dismiss, Killed, FetchFiles, WriteRain, CopyHack, RemoveDss, WriteDss,
       UpdateWindow, RunHecHms, WriteDischarge, RejectDischarge, WriteInflow, NoTides,
       WriteOutflow, SendInflow, SendOutflow, WriteRunFile, SendRunFile, RecordStatus,
       csvVars, hmsVars, datVars

\* Each place in the script has one step that leads to it.
LEMMA ComesFrom ==
  ASSUME TypeOK, NEW r \in Runs, Start(r) \/ Work(r) \/ Dismiss(r) \/ Killed(r)
  PROVE  /\ pc'[r] = "hack"    => WriteRain(r)
         /\ pc'[r] = "clean"   => CopyHack(r)
         /\ pc'[r] = "todss"   => RemoveDss(r)
         /\ pc'[r] = "todssBox" => WriteDss(r)
         /\ pc'[r] = "update"  => WriteDss(r) \/ (Dismiss(r) /\ pc[r] = "todssBox")
         /\ pc'[r] = "hms"     => UpdateWindow(r)
         /\ pc'[r] = "tocsv"   => RunHecHms(r)
         /\ pc'[r] = "tocsvBox" => WriteDischarge(r)
         /\ pc'[r] = "todat"   => WriteDischarge(r) \/ (Dismiss(r) /\ pc[r] = "tocsvBox")
         /\ pc'[r] = "tidal"   => WriteInflow(r)
         /\ pc'[r] = "sendIn"  => WriteOutflow(r)
         /\ pc'[r] = "sendOut" => SendInflow(r)
         /\ pc'[r] = "runFile" => SendOutflow(r)
         /\ pc'[r] = "sendRun" => WriteRunFile(r)
         /\ pc'[r] = "record"  => SendRunFile(r) \/ (WriteOutflow(r) /\ r \in KeepLocal)
         /\ pc'[r] = "done"    => SendOutflow(r) \/ RecordStatus(r)
<1>1. ASSUME NEW step, Goto(r, step)
      PROVE  pc'[r] = step
  BY <1>1 DEF Goto, TypeOK
<1>2. CASE Start(r)
  <2>1. pc'[r] \in {"fetch", "quit", "rain"}
    BY <1>1, <1>2 DEF Start
  <2>2. QED  BY <2>1
<1>3. CASE Killed(r) \/ RejectDischarge(r) \/ NoTides(r) \/ FetchFiles(r)
  <2>1. pc'[r] \in {"killed", "failed", "rain", "quit"}
    BY <1>1, <1>3 DEF Killed, RejectDischarge, NoTides, FetchFiles
  <2>2. QED  BY <2>1
<1>4. CASE WriteRain(r) \/ CopyHack(r) \/ RemoveDss(r) \/ WriteDss(r) \/ UpdateWindow(r)
           \/ Dismiss(r)
  BY <1>1, <1>4 DEF WriteRain, CopyHack, RemoveDss, WriteDss, UpdateWindow, Dismiss, Waiting
<1>5. CASE RunHecHms(r) \/ WriteDischarge(r) \/ WriteInflow(r)
  BY <1>1, <1>5 DEF RunHecHms, WriteDischarge, WriteInflow
<1>6. CASE WriteOutflow(r) \/ SendInflow(r) \/ SendOutflow(r)
  BY <1>1, <1>6 DEF WriteOutflow, AfterTides, SendInflow, SendOutflow
<1>7. CASE WriteRunFile(r) \/ SendRunFile(r) \/ RecordStatus(r)
  BY <1>1, <1>7 DEF WriteRunFile, SendRunFile, RecordStatus
<1>8. QED  BY <1>2, <1>3, <1>4, <1>5, <1>6, <1>7 DEF Work

\* Two scripts never work with the same tag.
LEMMA ExclusiveNext == TypeOK /\ Exclusive /\ [Next]_vars => Exclusive'
<1> SUFFICES ASSUME TypeOK, Exclusive, [Next]_vars PROVE Exclusive'
  OBVIOUS
<1>1. CASE UNCHANGED vars
  BY <1>1 DEF vars, Exclusive, Active
<1>2. ASSUME NEW r \in Runs, Start(r) \/ Work(r) \/ Dismiss(r) \/ Killed(r)
      PROVE  Exclusive'
  <2>1. /\ \A q \in Runs \ {r} : Active(q)' <=> Active(q)
        /\ Active(r) \/ Start(r)
    BY <1>2, OneMoves DEF Active
  <2>2. CASE Active(r)
    BY <2>1, <2>2 DEF Exclusive
  <2>3. CASE Start(r)
    BY <2>1, <2>3 DEF Exclusive, Start, MayStart
  <2>4. QED  BY <2>1, <2>2, <2>3
<1>3. QED  BY <1>1, <1>2 DEF Next

LEMMA ExclusiveInvariance == Spec => [](TypeOK /\ Exclusive)
<1>1. Init => Exclusive
  BY DEF Init, Exclusive, Active, Working, Waiting
<1>2. QED  BY <1>1, TypeCorrect, ExclusiveNext, PTL DEF Spec
-----------------------------------------------------------------------------
(* Nothing foreign.                                                        *)

\* While an untagged run is at work, only tagged runs are beside it.
LEMMA OthersTagged ==
  ASSUME TypeOK, Exclusive, NEW q \in Runs, Plain(q), Active(q),
         NEW r \in Runs, r # q, Start(r) \/ Work(r) \/ Dismiss(r) \/ Killed(r)
  PROVE  TagOf[r] # NoTag
<1>1. Active(r) \/ Start(r)
  BY OneMoves
<1>2. CASE Active(r)
  BY <1>2 DEF Exclusive, Plain
<1>3. CASE Start(r)
  BY <1>3 DEF Start, MayStart, Plain
<1>4. QED  BY <1>1, <1>2, <1>3

\* Discharge computed from sources P over windows W.
Made(P, W) == {p \in Pieces : p.rain \in P /\ p.over \in W}

\* What 2008_2_Events holds of the .dss files while an untagged run uses them:
\* P is a property of sources that the rain of that run has, and W one of the
\* windows it may be computed over.
LEMMA DssNext ==
  ASSUME TypeOK, Exclusive, NEW q \in Runs, Plain(q), NEW P,
         NEW W,
         InHecHms(q) => dssIn[NoTag] \subseteq P /\ dssOut[NoTag] \subseteq Made(P, W),
         InHecHms(q) /\ InWindow # {} => window \in W,
         pc[q] = "todss" => rain[Key(q)] \subseteq P,
         NEW r \in Runs, Start(r) \/ Work(r) \/ Dismiss(r) \/ Killed(r), InHecHms(q)'
  PROVE  dssIn'[NoTag] \subseteq P /\ dssOut'[NoTag] \subseteq Made(P, W)
<1> USE NamesTyped
<1>1. dssIn \in [Tags -> SUBSET Sources] /\ dssOut \in [Tags -> SUBSET Pieces]
  BY DEF TypeOK
<1>0. InHecHms(q) => {p \in dssOut[NoTag] : p.over # window} \cup Computed \subseteq Made(P, W)
  BY ComputedTyped DEF Made
<1>2. CASE q = r
  <2>1. CASE RemoveDss(r)
    BY <1>1, <2>1 DEF RemoveDss
  <2>2. CASE WriteDss(r)
    <3>1. Merge(dssIn[NoTag], rain[Key(r)]) \subseteq P
      BY <1>2, <2>2, MergeTyped DEF WriteDss, InHecHms
    <3>2. QED  BY <1>1, <1>2, <2>2, <3>1 DEF WriteDss, InHecHms, Plain, hmsVars
  <2>3. CASE UpdateWindow(r)
    BY <1>2, <2>3 DEF UpdateWindow, InHecHms
  <2>4. CASE RunHecHms(r)
    BY <1>0, <1>1, <1>2, <2>4 DEF RunHecHms, InHecHms
  <2>5. CASE Dismiss(r) /\ pc[r] = "todssBox"
    BY <1>2, <2>5 DEF Dismiss, InHecHms, hmsVars
  <2>6. QED  BY <1>2, <2>1, <2>2, <2>3, <2>4, <2>5, ComesFrom DEF InHecHms
<1>3. CASE q # r
  <2>1. InHecHms(q) /\ Active(q)
    BY <1>3, OneMoves DEF InHecHms, Active, Working, Waiting
  <2>2. TagOf[r] # NoTag
    BY <1>3, <2>1, OthersTagged
  <2>3. CASE CopyHack(r)
    BY <1>1, <2>1, <2>2, <2>3 DEF CopyHack
  <2>4. CASE RemoveDss(r)
    BY <1>1, <2>4 DEF RemoveDss
  <2>5. CASE WriteDss(r)
    BY <1>1, <2>1, <2>2, <2>5 DEF WriteDss
  <2>6. CASE RunHecHms(r)
    BY <1>0, <1>1, <2>1, <2>6 DEF RunHecHms
  <2>7. QED  BY <2>1, <2>3, <2>4, <2>5, <2>6, FileWriters
<1>4. QED  BY <1>2, <1>3

\* INFLOW.DAT while an untagged run hands over is what that run wrote.
LEMMA InflowNext ==
  ASSUME TypeOK, Exclusive, NEW q \in Runs, Plain(q),
         NEW r \in Runs, Start(r) \/ Work(r) \/ Dismiss(r) \/ Killed(r), pc'[q] \in Handing
  PROVE  \/ pc[q] \in Handing /\ inflow'[NoTag] = inflow[NoTag]
         \/ q = r /\ WriteInflow(r) /\ pc'[q] = "tidal"
<1> USE NamesTyped
<1>1. inflow \in [Tags -> SUBSET Pieces]
  BY DEF TypeOK
<1>2. CASE q = r
  <2>1. CASE pc'[q] = "tidal"
    BY <1>2, <2>1, ComesFrom
  <2>2. CASE pc'[q] # "tidal"
    <3>1. \/ WriteOutflow(r) \/ SendInflow(r) \/ SendOutflow(r)
          \/ WriteRunFile(r) \/ SendRunFile(r)
      BY <1>2, <2>2, ComesFrom DEF Handing
    <3>2. QED
      BY <1>2, <3>1 DEF WriteOutflow, SendInflow, SendOutflow, WriteRunFile, SendRunFile,
                        datVars, Handing
  <2>3. QED  BY <2>1, <2>2
<1>3. CASE q # r
  <2>1. pc[q] \in Handing /\ Active(q)
    BY <1>3, OneMoves DEF Handing, Active, Working, Waiting
  <2>2. TagOf[r] # NoTag
    BY <1>3, <2>1, OthersTagged
  <2>3. inflow'[NoTag] = inflow[NoTag]
    BY <1>1, <2>2, FileWriters DEF WriteInflow
  <2>4. QED  BY <2>1, <2>3
<1>4. QED  BY <1>2, <1>3

LEMMA DateNext == TypeOK /\ Exclusive /\ DateInv /\ [Next]_vars => DateInv'
<1> SUFFICES ASSUME TypeOK, Exclusive, DateInv, [Next]_vars PROVE DateInv'
  OBVIOUS
<1> USE NamesTyped
<1>1. CASE UNCHANGED vars
  BY <1>1 DEF vars, DateInv, InHecHms, Plain, MayFail, csvVars, hmsVars, datVars, OfDate, SameDate
<1>2. ASSUME NEW r \in Runs, Start(r) \/ Work(r) \/ Dismiss(r) \/ Killed(r), UNCHANGED faults
      PROVE  DateInv'
  <2>1. \A k \in Keys : rain'[k] \subseteq {q \in Runs : Key(q) = k}
    <3>1. CASE UNCHANGED rain
      BY <3>1 DEF DateInv
    <3>2. CASE WriteRain(r)
      BY <3>2 DEF WriteRain, DateInv, TypeOK
    <3>3. QED  BY <1>2, <3>1, <3>2, FileWriters
  <2>2. ASSUME NEW q \in Runs, Plain(q), InHecHms(q)'
        PROVE  dssIn'[NoTag] \subseteq SameDate(q) /\ OfDate(dssOut'[NoTag], q)
    <3>1. rain[Key(q)] \subseteq SameDate(q)
      BY DEF DateInv, Key, SameDate
    <3>2. InHecHms(q) => /\ dssIn[NoTag] \subseteq SameDate(q)
                         /\ dssOut[NoTag] \subseteq Made(SameDate(q), Windows)
      BY <2>2 DEF DateInv, OfDate, Made, SameDate, TypeOK, Pieces
    <3>3. window \in Windows
      BY DEF TypeOK
    <3>4. dssIn'[NoTag] \subseteq SameDate(q) /\ dssOut'[NoTag] \subseteq Made(SameDate(q), Windows)
      BY <1>2, <2>2, <3>1, <3>2, <3>3, DssNext
    <3>5. QED  BY <3>4 DEF OfDate, Made, SameDate
  <2>3. ASSUME NEW q \in Runs, Plain(q)
        PROVE  OfDate(discharge'[Key(q)], q)
    <3>1. CASE UNCHANGED discharge
      BY <2>3, <3>1 DEF DateInv
    <3>2. CASE WriteDischarge(r) /\ Key(r) = Key(q)
      <4>1. Plain(r) /\ DateOf[r] = DateOf[q] /\ InHecHms(r)
        BY <2>3, <3>2 DEF Key, Plain, WriteDischarge, InHecHms
      <4>2. OfDate(dssOut[TagOf[r]], q)
        BY <4>1 DEF DateInv, OfDate, Plain
      <4>3. QED  BY <2>3, <3>2, <4>2 DEF WriteDischarge, DateInv, OfDate, TypeOK
    <3>3. CASE WriteDischarge(r) /\ Key(r) # Key(q)
      BY <2>3, <3>3 DEF WriteDischarge, DateInv, TypeOK
    <3>4. QED  BY <1>2, <3>1, <3>2, <3>3, FileWriters
  <2>4. ASSUME NEW q \in Runs, Plain(q), pc'[q] \in Handing
        PROVE  /\ OfDate(inflow'[NoTag], q)
               /\ ~MayFail("todat") => inflow'[NoTag] # {}
    <3>1. CASE pc[q] \in Handing /\ inflow'[NoTag] = inflow[NoTag]
      BY <2>4, <3>1 DEF DateInv, Handing
    <3>2. CASE WriteInflow(q)
      <4>1. OfDate(discharge[Key(q)], q) /\ inflow \in [Tags -> SUBSET Pieces]
        BY <2>4 DEF DateInv, TypeOK
      <4>2. QED  BY <2>4, <3>2, <4>1 DEF WriteInflow, Plain, OfDate
    <3>3. QED  BY <1>2, <2>4, <3>1, <3>2, InflowNext
  <2>5. QED  BY <1>2, <2>1, <2>2, <2>3, <2>4 DEF DateInv, Handing, MayFail, InHecHms, Plain, OfDate, SameDate
<1>3. QED  BY <1>1, <1>2 DEF Next
LEMMA DateInvariance == Spec => [](TypeOK /\ Exclusive /\ DateInv)
<1>1. Init => DateInv
  BY NamesTyped DEF Init, DateInv, InHecHms, Handing, OfDate
<1>2. QED  BY <1>1, ExclusiveInvariance, DateNext, PTL DEF Spec

\* What an untagged run hands over as INFLOW.DAT has no discharge of another
\* date and not the sample's, whichever steps fail and whoever is killed.
THEOREM NothingForeign == Spec => []NoForeignDischarge
<1>1. Init => NoForeignDischarge
  BY DEF Init, NoForeignDischarge, OfDate
<1>2. TypeOK /\ Exclusive /\ DateInv /\ NoForeignDischarge /\ [Next]_vars => NoForeignDischarge'
  <2> SUFFICES ASSUME TypeOK, DateInv, NoForeignDischarge, [Next]_vars,
                      NEW q \in Runs, Plain(q)
               PROVE  OfDate(sent'[q].inflow, q)
    BY DEF NoForeignDischarge, Plain, OfDate
  <2>1. OfDate(sent[q].inflow, q)
    BY DEF NoForeignDischarge, Plain
  <2>2. CASE UNCHANGED sent
    BY <2>1, <2>2
  <2>3. sent \in [Runs -> Sent]
    BY DEF TypeOK, Sent
  <2>4. ASSUME NEW r \in Runs, SendInflow(r) PROVE OfDate(sent'[q].inflow, q)
    <3>1. CASE q # r
      BY <2>1, <2>3, <2>4, <3>1 DEF SendInflow
    <3>2. CASE q = r /\ sent' # sent
      <4>1. sent' = [sent EXCEPT ![r] = [sent[r] EXCEPT !.inflow = inflow[NoTag]]]
        BY <2>4, <3>2 DEF SendInflow, HandOverTag, Plain
      <4>2. sent'[q].inflow = inflow[NoTag]
        BY <2>3, <3>2, <4>1 DEF Sent
      <4>3. OfDate(inflow[NoTag], q)
        BY <2>4, <3>2 DEF SendInflow, DateInv, Handing
      <4>4. QED  BY <4>2, <4>3
    <3>3. QED  BY <2>2, <3>1, <3>2
  <2>5. ASSUME NEW r \in Runs, SendOutflow(r) \/ SendRunFile(r)
        PROVE  sent'[q].inflow = sent[q].inflow
    <3>1. \/ sent' = sent
          \/ sent' = [sent EXCEPT ![r] = [sent[r] EXCEPT !.outflow = outflow[HandOverTag(r)]]]
          \/ sent' = [sent EXCEPT ![r] = [sent[r] EXCEPT !.run = runFile[TagOf[r]]]]
      BY <2>5 DEF SendOutflow, SendRunFile
    <3>2. QED  BY <2>3, <3>1 DEF Sent
  <2>6. CASE UNCHANGED vars
    BY <2>2, <2>6 DEF vars
  <2>7. QED  BY <2>1, <2>2, <2>4, <2>5, <2>6, FileWriters DEF Next
<1>3. QED  BY <1>1, <1>2, DateInvariance, PTL DEF Spec

\* Unless writing INFLOW.DAT itself goes wrong, an untagged run records its
\* date only over an INFLOW.DAT with discharge of that date.
THEOREM RecordsProduced == Spec => RecordOnlyProduced
<1> DEFINE Recorded == \A r \in Runs :
             pc[r] = "record" /\ Done(r)' /\ TagOf[r] = NoTag /\ ~MayFail("todat") =>
             inflow[NoTag] # {} /\ OfDate(inflow[NoTag], r)
<1>1. DateInv => Recorded
  BY DEF DateInv, Handing, Plain
<1>2. DateInv /\ [Next]_vars => [Recorded]_vars
  BY <1>1
<1>3. QED  BY <1>2, DateInvariance, PTL DEF Spec, RecordOnlyProduced

LEMMA UploadNext ==
  TypeOK /\ Exclusive /\ DateInv /\ UploadInv /\ [Next]_vars => UploadInv'
<1> SUFFICES ASSUME TypeOK, Exclusive, DateInv, UploadInv, [Next]_vars PROVE UploadInv'
  OBVIOUS
<1> USE NamesTyped
<1>1. CASE UNCHANGED vars
  BY <1>1 DEF vars, UploadInv, Plain, MayFail, datVars
<1>2. ASSUME NEW r \in Runs, Start(r) \/ Work(r) \/ Dismiss(r) \/ Killed(r), UNCHANGED faults,
             ~MayFail("send"), NEW q \in Runs, Plain(q)
      PROVE  /\ /\ ~MayFail("todat")
                /\ pc'[q] = "sendOut" \/ (pc'[q] \in Delivered /\ q \notin KeepLocal)
                => sent'[q].inflow # {}
             /\ ~MayFail("tidal") =>
                  /\ pc'[q] \in {"sendIn", "sendOut"} => outflow'[NoTag] = {q}
                  /\ pc'[q] \in Delivered /\ q \notin KeepLocal => sent'[q].outflow = {q}
  <2>0. outflow \in [Tags -> SUBSET Runs] /\ sent \in [Runs -> Sent]
    BY DEF TypeOK, Sent
  \* Another run that moves leaves q, its files and what it sent alone.
  <2>1. ASSUME q # r
        PROVE  /\ pc'[q] = pc[q] /\ sent'[q] = sent[q]
               /\ Active(q) => outflow'[NoTag] = outflow[NoTag]
    <3>1. pc'[q] = pc[q] /\ (Active(q) => TagOf[r] # NoTag)
      BY <1>2, <2>1, OneMoves, OthersTagged DEF Plain
    <3>2. sent'[q] = sent[q]
      BY <1>2, <2>0, <2>1, FileWriters DEF SendInflow, SendOutflow, SendRunFile
    <3>3. TagOf[r] # NoTag => outflow'[NoTag] = outflow[NoTag]
      BY <1>2, <2>0, FileWriters DEF WriteOutflow
    <3>4. QED  BY <3>1, <3>2, <3>3
  <2>2. CASE q # r
    BY <1>2, <2>1, <2>2 DEF UploadInv, Active, Working
  <2>3. CASE q = r /\ WriteOutflow(q)
    <3>1. pc'[q] \in {"record", "sendIn"} /\ (pc'[q] = "record" => q \in KeepLocal)
      BY <2>3 DEF WriteOutflow, AfterTides, Goto, TypeOK
    <3>2. ~MayFail("tidal") => outflow'[NoTag] = {q}
      BY <1>2, <2>0, <2>3 DEF WriteOutflow, Plain
    <3>3. QED  BY <3>1, <3>2 DEF Delivered
  <2>4. CASE q = r /\ SendInflow(q)
    <3>1. pc'[q] = "sendOut" /\ outflow' = outflow
      BY <2>4 DEF SendInflow, Goto, TypeOK, datVars
    <3>2. sent' = [sent EXCEPT ![q] = [sent[q] EXCEPT !.inflow = inflow[NoTag]]]
      BY <1>2, <2>4 DEF SendInflow, HandOverTag, Plain
    <3>3. sent'[q].inflow = inflow[NoTag]
      BY <2>0, <3>2 DEF Sent
    <3>4. ~MayFail("todat") => inflow[NoTag] # {}
      BY <1>2, <2>4 DEF SendInflow, DateInv, Handing
    <3>5. ~MayFail("tidal") => outflow[NoTag] = {q}
      BY <1>2, <2>4 DEF SendInflow, UploadInv
    <3>6. QED  BY <3>1, <3>3, <3>4, <3>5 DEF Delivered
  <2>5. CASE q = r /\ SendOutflow(q)
    <3>1. pc'[q] \in Delivered /\ pc[q] = "sendOut"
      BY <2>5 DEF SendOutflow, Goto, TypeOK, Delivered
    <3>2. sent' = [sent EXCEPT ![q] = [sent[q] EXCEPT !.outflow = outflow[NoTag]]]
      BY <1>2, <2>5 DEF SendOutflow, HandOverTag, Plain
    <3>3. sent'[q].inflow = sent[q].inflow /\ sent'[q].outflow = outflow[NoTag]
      BY <2>0, <3>2 DEF Sent
    <3>4. QED  BY <1>2, <3>1, <3>3 DEF UploadInv, Delivered
  <2>6. CASE q = r /\ SendRunFile(q)
    <3>1. pc'[q] = "record" /\ pc[q] = "sendRun"
      BY <2>6 DEF SendRunFile, Goto, TypeOK
    <3>2. sent' = [sent EXCEPT ![q] = [sent[q] EXCEPT !.run = runFile[TagOf[q]]]]
      BY <1>2, <2>6 DEF SendRunFile
    <3>3. sent'[q].inflow = sent[q].inflow /\ sent'[q].outflow = sent[q].outflow
      BY <2>0, <3>2 DEF Sent
    <3>4. QED  BY <1>2, <3>1, <3>3 DEF UploadInv, Delivered
  <2>7. CASE q = r /\ (WriteRunFile(q) \/ RecordStatus(q))
    <3>1. pc'[q] \in {"sendRun", "done"} /\ pc[q] \in Delivered /\ sent' = sent
      BY <2>7 DEF WriteRunFile, RecordStatus, Goto, TypeOK, Delivered
    <3>2. QED  BY <1>2, <3>1 DEF UploadInv, Delivered
  <2>8. QED  BY <1>2, <2>2, <2>3, <2>4, <2>5, <2>6, <2>7, ComesFrom DEF Delivered
<1>3. ASSUME NEW r \in Runs, Start(r) \/ Work(r) \/ Dismiss(r) \/ Killed(r), UNCHANGED faults
      PROVE  UploadInv'
  <2>1. faults' = faults
    BY <1>3
  <2>2. QED  BY <1>2, <1>3, <2>1 DEF UploadInv, Plain, MayFail
<1>4. QED  BY <1>1, <1>3 DEF Next

\* Three failures alone reach what an untagged run hands over: of the upload, of
\* INFLOW.DAT and of the tides.
THEOREM UploadsKept == Spec => []UploadsProduced
<1>1. Init => UploadInv
  BY DEF Init, UploadInv, Delivered
<1>2. UploadInv /\ NoForeignDischarge => UploadsProduced
  <2> SUFFICES ASSUME UploadInv, NoForeignDischarge, ~MayFail("send"),
                      NEW r \in Runs, HandsOver(r)
               PROVE  /\ ~MayFail("todat") => sent[r].inflow # {} /\ OfDate(sent[r].inflow, r)
                      /\ ~MayFail("tidal") => sent[r].outflow = {r}
    BY DEF UploadsProduced
  <2>1. Plain(r) /\ pc[r] \in Delivered /\ r \notin KeepLocal
    BY DEF HandsOver, Done, Plain, Delivered
  <2>2. QED  BY <2>1 DEF UploadInv, NoForeignDischarge, Plain
<1>3. QED  BY <1>1, <1>2, UploadNext, DateInvariance, NothingForeign, PTL DEF Spec

-----------------------------------------------------------------------------
(* Nothing goes wrong.                                                     *)

LEMMA OwnNext == TypeOK /\ Exclusive /\ OwnInv /\ [Next]_vars => OwnInv'
<1> SUFFICES ASSUME TypeOK, Exclusive, OwnInv, [Next]_vars PROVE OwnInv'
  OBVIOUS
<1> USE NamesTyped
<1>1. CASE UNCHANGED vars
  BY <1>1 DEF vars, OwnInv, InHecHms, Plain, Own, csvVars, hmsVars, datVars
<1>2. ASSUME NEW r \in Runs, Start(r) \/ Work(r) \/ Dismiss(r) \/ Killed(r), UNCHANGED faults,
             faults = {}, NEW q \in Runs, Plain(q)
      PROVE  /\ pc'[q] \in AfterRain => rain'[Key(q)] \subseteq {q}
             /\ pc'[q] = "clean" \/ InHecHms(q)' => window' \in WindowsFor(q)
             /\ InHecHms(q)' => dssIn'[NoTag] \subseteq {q} /\ Own(dssOut'[NoTag], q)
             /\ pc'[q] \in {"tocsvBox", "todat"} => Own(discharge'[Key(q)], q)
             /\ pc'[q] \in {"tidal", "sendIn"} => inflow'[NoTag] # {} /\ Own(inflow'[NoTag], q)
             /\ pc'[q] \in {"sendIn", "sendOut"} => outflow'[NoTag] = {q}
             /\ pc'[q] = "sendOut" => sent'[q].inflow # {} /\ Own(sent'[q].inflow, q)
             /\ pc'[q] \in {"runFile", "sendRun", "record", "done"} /\ q \notin KeepLocal =>
                  sent'[q].inflow # {} /\ Own(sent'[q].inflow, q) /\ sent'[q].outflow = {q}
  <2>0. /\ rain \in [Keys -> SUBSET Runs] /\ discharge \in [Keys -> SUBSET Pieces]
        /\ outflow \in [Tags -> SUBSET Runs] /\ inflow \in [Tags -> SUBSET Pieces]
        /\ sent \in [Runs -> Sent] /\ ~MayFail("todat") /\ ~MayFail("rain")
        /\ ~MayFail("tocsv") /\ ~MayFail("tidal") /\ ~MayFail("send")
    BY <1>2 DEF TypeOK, Sent, MayFail
  \* Another run that moves: q stays where it is.
  <2>1. ASSUME q # r PROVE pc'[q] = pc[q] /\ (Active(q) => TagOf[r] # NoTag /\ Key(r) # Key(q))
    BY <1>2, <2>1, OneMoves, OthersTagged DEF Key, Plain
  <2>2. ASSUME pc'[q] \in AfterRain PROVE rain'[Key(q)] \subseteq {q}
    <3>1. CASE WriteRain(r) /\ q = r
      BY <2>0, <3>1 DEF WriteRain
    <3>2. CASE WriteRain(r) /\ q # r
      BY <1>2, <2>0, <2>1, <2>2, <3>2 DEF WriteRain, OwnInv, AfterRain, Active, Working, Waiting
    <3>3. CASE ~WriteRain(r)
      <4>1. rain' = rain
        BY <1>2, <3>3, FileWriters
      <4>2. pc[q] \in AfterRain
        BY <1>2, <2>1, <2>2, <3>3, ComesFrom DEF CopyHack, RemoveDss, WriteDss, AfterRain
      <4>3. QED  BY <1>2, <4>1, <4>2 DEF OwnInv
    <3>4. QED  BY <3>1, <3>2, <3>3
  <2>3. ASSUME InHecHms(q)'
        PROVE  dssIn'[NoTag] \subseteq {q} /\ Own(dssOut'[NoTag], q)
    <3>1. InHecHms(q) => /\ dssIn[NoTag] \subseteq {q}
                         /\ dssOut[NoTag] \subseteq Made({q}, OwnWindows(q))
      BY <1>2 DEF OwnInv, Own, Made, TypeOK
    <3>2. pc[q] = "todss" => rain[Key(q)] \subseteq {q}
      BY <1>2 DEF OwnInv, AfterRain
    <3>3. ASSUME InHecHms(q), InWindow # {} PROVE window \in OwnWindows(q)
      <4>1. q \in InWindow
        BY <3>1, <3>3 DEF InWindow
      <4>2. Overlap(DateOf[q], window)
        BY <4>1 DEF InWindow, When
      <4>3. window \in Dates
        BY <4>2, PipelineAssumption DEF Overlap
      <4>4. window = DateOf[q] \/ window \in TaggedDates
        BY <1>2, <3>3, <4>3 DEF OwnInv, WindowsFor
      <4>5. QED  BY <4>2, <4>4 DEF Overlap, TaggedDates, OwnWindows, Intruding
    <3>4. dssIn'[NoTag] \subseteq {q} /\ dssOut'[NoTag] \subseteq Made({q}, OwnWindows(q))
      <4> HIDE DEF Made, OwnWindows
      <4>1. QED  BY <1>2, <2>3, <3>1, <3>2, <3>3, DssNext
    <3>5. QED  BY <3>4 DEF Own, Made
  \* The window is the sample's, that of q or that of a tagged run beside it.
  <2>11. ASSUME pc'[q] = "clean" \/ InHecHms(q)' PROVE window' \in WindowsFor(q)
    <3>1. CASE q = r /\ CopyHack(q)
      BY <1>2, <3>1 DEF CopyHack, Plain, WindowsFor
    <3>2. CASE q = r /\ ~CopyHack(q)
      <4>1. pc[q] = "clean" \/ InHecHms(q)
        BY <1>2, <2>11, <3>2, ComesFrom
           DEF InHecHms, RemoveDss, WriteDss, UpdateWindow, RunHecHms
      <4>2. window' = window \/ window' = DateOf[q]
        BY <1>2, <3>2, FileWriters DEF UpdateWindow
      <4>3. QED  BY <1>2, <4>1, <4>2 DEF OwnInv, WindowsFor
    <3>3. CASE q # r
      <4>1. Active(q) /\ (pc[q] = "clean" \/ InHecHms(q))
        BY <2>1, <2>11, <3>3 DEF InHecHms, Active, Working, Waiting
      <4>2. window \in WindowsFor(q)
        BY <1>2, <4>1 DEF OwnInv
      <4>3. TagOf[r] # NoTag
        BY <2>1, <3>3, <4>1
      <4>4. CASE UpdateWindow(r)
        <5>1. Simultaneous
          BY <3>3, <4>1, <4>4 DEF Exclusive, UpdateWindow, Active, Working
        <5>2. DateOf[r] \in TaggedDates
          BY <4>3, <5>1 DEF TaggedDates
        <5>3. window' = window \/ window' = DateOf[r]
          BY <4>4 DEF UpdateWindow
        <5>4. QED  BY <4>2, <5>2, <5>3 DEF WindowsFor
      <4>5. CASE ~UpdateWindow(r)
        BY <1>2, <4>2, <4>3, <4>5, FileWriters DEF CopyHack
      <4>6. QED  BY <4>4, <4>5
    <3>4. QED  BY <3>1, <3>2, <3>3
  <2>4. ASSUME pc'[q] \in {"tocsvBox", "todat"} PROVE Own(discharge'[Key(q)], q)
    <3>1. CASE q = r /\ WriteDischarge(q)
      <4>1. Own(dssOut[NoTag], q)
        BY <1>2, <3>1 DEF WriteDischarge, OwnInv, InHecHms
      <4>2. discharge'[Key(q)] = dssOut[NoTag] \/ discharge'[Key(q)] = {}
        BY <1>2, <2>0, <3>1 DEF WriteDischarge, Plain
      <4>3. QED  BY <4>1, <4>2 DEF Own
    <3>2. CASE q = r /\ ~WriteDischarge(q)
      <4>1. pc[q] = "tocsvBox" /\ Dismiss(q)
        BY <1>2, <2>4, <3>2, ComesFrom
      <4>2. QED  BY <1>2, <4>1 DEF Dismiss, OwnInv, csvVars
    <3>3. CASE q # r
      <4>1. pc[q] \in {"tocsvBox", "todat"} /\ Key(r) # Key(q)
        BY <2>1, <2>4, <3>3 DEF Active, Working, Waiting
      <4>2. discharge'[Key(q)] = discharge[Key(q)]
        BY <1>2, <2>0, <4>1, FileWriters DEF WriteDischarge
      <4>3. QED  BY <1>2, <4>1, <4>2 DEF OwnInv
    <3>4. QED  BY <3>1, <3>2, <3>3
  <2>5. ASSUME pc'[q] \in {"tidal", "sendIn"} PROVE inflow'[NoTag] # {} /\ Own(inflow'[NoTag], q)
    <3>1. CASE WriteInflow(q)
      <4>1. discharge[Key(q)] # {} /\ Own(discharge[Key(q)], q)
        BY <1>2, <3>1 DEF WriteInflow, OwnInv
      <4>2. inflow'[NoTag] = discharge[Key(q)]
        BY <1>2, <2>0, <3>1 DEF WriteInflow, Plain
      <4>3. QED  BY <4>1, <4>2
    <3>2. CASE ~WriteInflow(q)
      <4>1. pc[q] \in Handing /\ inflow'[NoTag] = inflow[NoTag]
        BY <1>2, <2>5, <3>2, InflowNext DEF Handing
      <4>2. pc[q] \in {"tidal", "sendIn"}
        BY <1>2, <2>1, <2>5, <3>2, ComesFrom DEF WriteOutflow
      <4>3. QED  BY <1>2, <4>1, <4>2 DEF OwnInv
    <3>3. QED  BY <3>1, <3>2
  <2>6. ASSUME pc'[q] \in {"sendIn", "sendOut"} PROVE outflow'[NoTag] = {q}
    <3>1. CASE q = r
      <4>1. CASE WriteOutflow(q)
        BY <1>2, <2>0, <4>1 DEF WriteOutflow, Plain
      <4>2. CASE SendInflow(q)
        BY <1>2, <4>2 DEF SendInflow, OwnInv, datVars
      <4>3. QED  BY <1>2, <2>6, <3>1, <4>1, <4>2, ComesFrom
    <3>2. CASE q # r
      <4>1. pc[q] = pc'[q] /\ TagOf[r] # NoTag
        BY <2>1, <2>6, <3>2 DEF Active, Working, Waiting
      <4>2. outflow'[NoTag] = outflow[NoTag]
        BY <1>2, <2>0, <4>1, FileWriters DEF WriteOutflow
      <4>3. QED  BY <1>2, <2>6, <4>1, <4>2 DEF OwnInv
    <3>3. QED  BY <3>1, <3>2
  \* A run sends for itself only.
  <2>7. ASSUME q # r PROVE sent'[q] = sent[q]
    BY <1>2, <2>0, <2>7, FileWriters DEF SendInflow, SendOutflow, SendRunFile
  <2>8. ASSUME pc'[q] = "sendOut" PROVE sent'[q].inflow # {} /\ Own(sent'[q].inflow, q)
    <3>1. CASE q = r
      <4>1. SendInflow(q) /\ inflow[NoTag] # {} /\ Own(inflow[NoTag], q)
        BY <1>2, <2>8, <3>1, ComesFrom DEF SendInflow, OwnInv
      <4>2. sent' = [sent EXCEPT ![q] = [sent[q] EXCEPT !.inflow = inflow[NoTag]]]
        BY <1>2, <2>0, <4>1 DEF SendInflow, HandOverTag, Plain
      <4>3. QED  BY <2>0, <4>1, <4>2 DEF Sent
    <3>2. CASE q # r
      BY <1>2, <2>1, <2>7, <2>8, <3>2 DEF OwnInv
    <3>3. QED  BY <3>1, <3>2
  <2>9. ASSUME pc'[q] \in {"runFile", "sendRun", "record", "done"}, q \notin KeepLocal
        PROVE  sent'[q].inflow # {} /\ Own(sent'[q].inflow, q) /\ sent'[q].outflow = {q}
    <3>1. CASE q = r /\ SendOutflow(q)
      <4>1. outflow[NoTag] = {q} /\ sent[q].inflow # {} /\ Own(sent[q].inflow, q)
        BY <1>2, <3>1 DEF SendOutflow, OwnInv
      <4>2. sent' = [sent EXCEPT ![q] = [sent[q] EXCEPT !.outflow = outflow[NoTag]]]
        BY <1>2, <2>0, <3>1 DEF SendOutflow, HandOverTag, Plain
      <4>3. QED  BY <2>0, <4>1, <4>2 DEF Sent
    <3>2. CASE q = r /\ SendRunFile(q)
      <4>1. sent[q].inflow # {} /\ Own(sent[q].inflow, q) /\ sent[q].outflow = {q}
        BY <1>2, <2>9, <3>2 DEF SendRunFile, OwnInv
      <4>2. sent' = [sent EXCEPT ![q] = [sent[q] EXCEPT !.run = runFile[TagOf[q]]]]
        BY <2>0, <3>2 DEF SendRunFile
      <4>3. QED  BY <2>0, <4>1, <4>2 DEF Sent
    <3>3. CASE q = r /\ (WriteRunFile(q) \/ RecordStatus(q))
      BY <1>2, <2>9, <3>3 DEF WriteRunFile, RecordStatus, OwnInv
    <3>4. CASE q # r
      BY <1>2, <2>1, <2>7, <2>9, <3>4 DEF OwnInv
    <3>5. QED  BY <1>2, <2>9, <3>1, <3>2, <3>3, <3>4, ComesFrom
  <2>10. QED  BY <2>2, <2>3, <2>4, <2>5, <2>6, <2>8, <2>9, <2>11
<1>3. ASSUME NEW r \in Runs, Start(r) \/ Work(r) \/ Dismiss(r) \/ Killed(r), UNCHANGED faults
      PROVE  OwnInv'
  <2>1. faults' = faults
    BY <1>3
  <2>2. QED  BY <1>2, <1>3, <2>1 DEF OwnInv, Plain, Own, InHecHms, WindowsFor
<1>4. QED  BY <1>1, <1>3 DEF Next

\* When no step goes wrong, an untagged run that is done has handed over its own
\* OUTFLOW.DAT, and an INFLOW.DAT computed from its own rain: over its own window
\* when runs follow each other, and beside tagged runs over their windows, too.
THEOREM OwnFiles == Spec => []OwnFilesHandedOver
<1>1. Init => OwnInv
  BY DEF Init, OwnInv, InHecHms, AfterRain
<1>2. OwnInv => OwnFilesHandedOver
  BY DEF OwnInv, OwnFilesHandedOver, HandsOver, Done, Plain, Own, OwnWindows
<1>3. QED  BY <1>1, <1>2, ExclusiveInvariance, OwnNext, PTL DEF Spec
-----------------------------------------------------------------------------
(* The ledger.                                                             *)

\* Scripts that work at the same time have different dates.
LEMMA OtherDate ==
  ASSUME Exclusive, DatesApart, NEW q \in Runs, NEW r \in Runs,
         q # r, Active(q), Active(r)
  PROVE  DateOf[q] # DateOf[r]
BY DEF Exclusive, DatesApart

LEMMA LedgerNext ==
  TypeOK /\ Exclusive /\ LedgerInv /\ [Next]_vars => LedgerInv'
<1> SUFFICES ASSUME TypeOK, Exclusive, LedgerInv, [Next]_vars, Daily, DatesApart,
                    NEW q \in Runs, Active(q)'
             PROVE  pc'[q] # "fetch" /\ ~AlreadyRun(q)'
  BY DEF LedgerInv, Daily, DatesApart
<1>1. CASE UNCHANGED vars
  BY <1>1 DEF vars, LedgerInv, Active, AlreadyRun
<1>2. ASSUME NEW r \in Runs, Start(r) \/ Work(r) \/ Dismiss(r) \/ Killed(r)
      PROVE  pc'[q] # "fetch" /\ ~AlreadyRun(q)'
  <2>1. CASE q = r /\ Start(r)
    <3>1. pc'[q] = IF AlreadyRun(q) THEN "quit" ELSE "rain"
      BY <2>1 DEF Start, Goto, TypeOK
    <3>2. QED  BY <2>1, <3>1 DEF Start, AlreadyRun, Active, Working, Waiting
  <2>2. CASE q # r \/ ~Start(r)
    <3>1. Active(q) /\ pc[q] # "fetch" /\ ~AlreadyRun(q)
      BY <1>2, <2>2, OneMoves DEF Active, LedgerInv
    <3>2. pc'[q] # "fetch"
      <4>1. CASE q # r
        BY <1>2, <3>1, <4>1, OneMoves
      <4>2. CASE q = r
        <5>1. \A step : Goto(r, step) => pc'[r] = step
          BY DEF Goto, TypeOK
        <5>2. QED
          BY <1>2, <2>2, <3>1, <4>2, <5>1
             DEF Work, Dismiss, Killed, FetchFiles, WriteRain, CopyHack, RemoveDss, WriteDss,
                 UpdateWindow, RunHecHms, WriteDischarge, RejectDischarge, WriteInflow,
                 NoTides, WriteOutflow, AfterTides, SendInflow, SendOutflow, WriteRunFile,
                 SendRunFile, RecordStatus
      <4>3. QED  BY <4>1, <4>2
    <3>3. ~AlreadyRun(q)'
      <4>1. CASE UNCHANGED status
        BY <3>1, <4>1 DEF AlreadyRun
      <4>2. CASE RecordStatus(r)
        <5>1. Active(r) /\ pc'[r] = "done"
          BY <4>2 DEF RecordStatus, Active, Working, Waiting, Goto, TypeOK
        <5>2. q # r
          BY <5>1 DEF Active, Working, Waiting
        <5>3. DateOf[q] # DateOf[r]
          BY <3>1, <5>1, <5>2, OtherDate
        <5>4. QED  BY <3>1, <4>2, <5>3 DEF RecordStatus, AlreadyRun
      <4>3. QED  BY <1>2, <4>1, <4>2, FileWriters
    <3>4. QED  BY <3>2, <3>3
  <2>3. QED  BY <2>1, <2>2
<1>3. QED  BY <1>1, <1>2 DEF Next

LEMMA LedgerInvariance == Spec => [](TypeOK /\ Exclusive /\ LedgerInv)
<1>1. Init => LedgerInv
  BY DEF Init, LedgerInv, Active, Working, Waiting
<1>2. QED  BY <1>1, ExclusiveInvariance, LedgerNext, PTL DEF Spec

\* A step of a script that changes its outcome or Status.txt is a step of the
\* ledger.
LEMMA LedgerStep ==
  ASSUME TypeOK, LedgerInv, Daily, DatesApart,
         NEW p \in Runs, Start(p) \/ Work(p) \/ Dismiss(p) \/ Killed(p)
  PROVE  [Ledger!Next]_<<[r \in Runs |-> OutcomeOf(r)], status>>
<1> DEFINE out == [r \in Runs |-> OutcomeOf(r)]
<1>1. \A q \in Runs \ {p} : OutcomeOf(q)' = OutcomeOf(q)
  BY OneMoves DEF OutcomeOf
<1>2. \A step : Goto(p, step) => pc'[p] = step
  BY DEF Goto, TypeOK
<1>3. ASSUME NEW o, OutcomeOf(p)' = o
      PROVE  out' = [out EXCEPT ![p] = o]
  BY <1>1, <1>3
<1>4. Active(p) => OutcomeOf(p) = "open"
  BY DEF Active, Working, Waiting, OutcomeOf
<1>5. Active(p) => pc[p] # "fetch" /\ ~Ledger!Barred(p)
  BY DEF LedgerInv, AlreadyRun, Ledger!Barred
<1>6. CASE Start(p)
  <2>1. OutcomeOf(p) = "open" /\ UNCHANGED status
    BY <1>6 DEF Start, OutcomeOf
  <2>2. CASE AlreadyRun(p)
    <3>1. OutcomeOf(p)' = "refused"
      BY <1>2, <1>6, <2>2 DEF Start, OutcomeOf
    <3>2. Ledger!Refuse(p)
      BY <1>3, <2>1, <2>2, <3>1 DEF Ledger!Refuse, Ledger!Barred, AlreadyRun
    <3>3. QED  BY <3>2 DEF Ledger!Next
  <2>3. CASE ~AlreadyRun(p)
    <3>1. OutcomeOf(p)' = "open"
      BY <1>2, <1>6, <2>3 DEF Start, OutcomeOf
    <3>2. QED  BY <1>1, <2>1, <3>1
  <2>4. QED  BY <2>2, <2>3
<1>7. ASSUME Active(p), pc'[p] \in {"failed", "killed"}, UNCHANGED status
      PROVE  Ledger!Next
  <2>1. OutcomeOf(p)' = "aborted"
    BY <1>7 DEF OutcomeOf
  <2>2. Ledger!Abort(p)
    BY <1>3, <1>4, <1>5, <1>7, <2>1 DEF Ledger!Abort
  <2>3. QED  BY <2>2 DEF Ledger!Next
<1>8. ASSUME Active(p), pc'[p] \in Working, UNCHANGED status
      PROVE  UNCHANGED <<out, status>>
  <2>1. OutcomeOf(p)' = "open"
    BY <1>8 DEF OutcomeOf, Working, Waiting
  <2>2. QED  BY <1>1, <1>4, <1>8, <2>1
<1>9. CASE RecordStatus(p)
  <2>1. Active(p) /\ OutcomeOf(p)' = "done" /\ status' = status \cup {DateOf[p]}
    BY <1>2, <1>9 DEF RecordStatus, Active, Working, Waiting, OutcomeOf
  <2>2. Ledger!Finish(p)
    BY <1>3, <1>4, <1>5, <2>1 DEF Ledger!Finish
  <2>3. QED  BY <2>2 DEF Ledger!Next
<1>10. CASE ~Start(p) /\ ~RecordStatus(p)
  <2>1. Active(p) /\ UNCHANGED status
    BY <1>10, OneMoves, FileWriters
  <2>2. pc'[p] \in Working \cup {"failed", "killed"}
    <3>1. CASE RunHecHms(p)
      BY <1>2, <3>1 DEF RunHecHms, Working
    <3>2. CASE WriteDss(p) \/ WriteDischarge(p) \/ Dismiss(p)
      BY <1>2, <3>2 DEF WriteDss, WriteDischarge, Dismiss, Working, Waiting
    <3>3. CASE WriteRain(p) \/ CopyHack(p) \/ RemoveDss(p) \/ UpdateWindow(p)
      BY <1>2, <3>3 DEF WriteRain, CopyHack, RemoveDss, UpdateWindow, Working
    <3>4. CASE FetchFiles(p) \/ SendOutflow(p)
      BY <1>2, <1>5, <2>1, <3>4, PipelineAssumption DEF FetchFiles, SendOutflow, Working
    <3>5. CASE RejectDischarge(p) \/ WriteInflow(p) \/ NoTides(p) \/ WriteOutflow(p) \/ Killed(p)
      BY <1>2, <3>5 DEF RejectDischarge, WriteInflow, NoTides, WriteOutflow, AfterTides, Killed,
                        Working
    <3>6. CASE SendInflow(p) \/ WriteRunFile(p) \/ SendRunFile(p)
      BY <1>2, <3>6 DEF SendInflow, WriteRunFile, SendRunFile, Working
    <3>7. QED  BY <1>10, <3>1, <3>2, <3>3, <3>4, <3>5, <3>6 DEF Work
  <2>3. QED  BY <1>7, <1>8, <2>1, <2>2
<1>11. QED  BY <1>6, <1>9, <1>10

\* Where scripts that may overlap have different dates, Forecast.sh keeps the
\* ledger: a date enters it with a run that went through and never leaves, and
\* a run without -f is turned away exactly when its date is in it.
THEOREM LedgerKept == Daily /\ DatesApart /\ Spec => LedgerImplemented
<1>1. Init => Ledger!Init
  BY DEF Init, Ledger!Init, OutcomeOf
<1>2. (Daily /\ DatesApart) /\ [Next]_vars => (Daily /\ DatesApart)'
  BY DEF Daily, DatesApart
<1>3. (Daily /\ DatesApart) /\ TypeOK /\ LedgerInv /\ [Next]_vars
        => [Ledger!Next]_<<[r \in Runs |-> OutcomeOf(r)], status>>
  <2> SUFFICES ASSUME Daily, DatesApart, TypeOK, LedgerInv, [Next]_vars
               PROVE  [Ledger!Next]_<<[r \in Runs |-> OutcomeOf(r)], status>>
    OBVIOUS
  <2>1. CASE UNCHANGED vars
    BY <2>1 DEF vars, OutcomeOf
  <2>2. CASE Next
    BY <2>2, LedgerStep DEF Next
  <2>3. QED  BY <2>1, <2>2
<1>4. QED
  BY <1>1, <1>2, <1>3, LedgerInvariance, PTL DEF Spec, LedgerImplemented, Ledger!Spec
=============================================================================
