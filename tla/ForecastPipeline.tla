--------------------------- MODULE ForecastPipeline ---------------------------
(***************************************************************************)
(* The forecast scripts on the Linux host: Forecast.sh, which hands its    *)
(* results to the FLO2D host, and Forecast_150.sh, which fetches its rain  *)
(* from a bucket and uploads its results there.  Both run the same chain   *)
(* of programs, which talk through files:                                  *)
(*                                                                         *)
(*   RFTOCSV -> rain -> CSVTODSS -> dssIn -> HEC-HMS -> dssOut -> DSSTOCSV *)
(*     -> discharge -> CSVTODAT -> INFLOW.DAT,  tides -> OUTFLOW.DAT       *)
(*                                                                         *)
(* Few of the exit codes are looked at, and what a step leaves unwritten   *)
(* is whatever an earlier run left there.  A file is modelled by the set   *)
(* of sources of the series it holds: runs, or the Sample data that comes  *)
(* with the repository; {} is a missing file or one without a series.      *)
(* Discharge comes in pieces: the rain of one source, computed over the    *)
(* window of one date, which is several days long and overlaps others.     *)
(***************************************************************************)
EXTENDS Naturals

CONSTANTS
  Runs,          \* invocations of the script
  Dates,         \* forecast dates, -d
  Near,          \* pairs of dates whose windows overlap
  Tags,          \* values of -T
  DateOf, TagOf, \* run -> its date, its tag
  WrfDateOf,     \* run -> the date whose rain folder its WRF_ID names
  NoTag,         \* the tag of a run without -T
  Sample,        \* the series in the .dss files of the repository
  Forced,        \* the runs with -f
  Named,         \* the runs with -n
  KeepLocal,     \* the runs with -e (Forecast.sh): nothing is posted
  Script,        \* which of the two scripts
  Simultaneous,  \* runs with different tags may overlap
  HmsStatus,     \* what hec-hms.sh may exit with after a computation
  Stocks,        \* bound: what a date's rain folders may hold at first
  FaultSets      \* bound: which steps may go wrong together

Kinds == {"raincell", "mean", "stations", "other"}   \* blobs in the bucket

\* The rain files RFTOCSV.py needs for the forecast, in the folders of a date.
RainFiles == {"mean", "stations"}

\* "kill": a run may be killed at any step.
Steps == {"fetch", "rain", "todss", "update", "hms", "tocsv", "todat",
          "tidal", "send", "kill"}

ASSUME PipelineAssumption ==
  /\ \A r \in Runs : DateOf[r] \in Dates /\ TagOf[r] \in Tags
                      /\ WrfDateOf[r] \in Dates
  /\ Near \subseteq Dates \X Dates
  /\ NoTag \in Tags
  /\ Sample \notin Runs \cup Dates
  /\ Forced \subseteq Runs
  /\ Named \subseteq Runs
  /\ KeepLocal \subseteq Runs
  /\ Script \in {"Forecast.sh", "Forecast_150.sh"}
  /\ Simultaneous \in BOOLEAN
  /\ HmsStatus \subseteq {0, 1}
  /\ Stocks \subseteq SUBSET RainFiles
  /\ FaultSets \subseteq SUBSET Steps

Sources == Runs \cup {Sample}
Windows == Dates \cup {Sample}
Pieces  == [rain : Sources, over : Windows]

VARIABLES
  pc,         \* run -> the step it does next, or how it ended
  status,     \* Status.txt: dates already forecast
  stock,      \* date -> which of RainFiles its folders hold
  rain,       \* <<date, tag>> -> DailyRain-<date>.<tag>.csv
  discharge,  \* <<date, tag>> -> DailyDischarge-<date>.<tag>.csv
  dssIn,      \* tag -> 2008_2_Events.<tag>/2008_2_Events_input.dss
  dssOut,     \* tag -> 2008_2_Events.<tag>/2008_2_Events_run.dss
  window,     \* which window 2008_2_Events/Control_1.control has
  inflow,     \* tag -> FLO2D/INFLOW.<tag>.DAT
  outflow,    \* tag -> FLO2D/OUTFLOW.<tag>.DAT
  runFile,    \* tag -> whose dates FLO2D/RUN_FLO2D.<tag>.json has
  sent,       \* run -> what it uploaded or posted
  faults      \* the steps that may go wrong, chosen once

csvVars == <<rain, discharge>>
hmsVars == <<dssIn, dssOut, window>>
datVars == <<inflow, outflow, runFile>>

vars == <<pc, status, stock, csvVars, hmsVars, datVars, sent, faults>>

Exited  == {"done", "quit", "failed", "killed"}
Waiting == {"todssBox", "tocsvBox"}   \* for somebody to close a message box
Working == {"fetch", "rain", "hack", "clean", "todss", "update", "hms", "tocsv",
            "todat", "tidal", "sendIn", "sendOut", "runFile", "sendRun", "record"}
           \cup Waiting

\* A run's CSV files carry its date and its tag.
Key(r) == <<DateOf[r], TagOf[r]>>
Keys   == Dates \X Tags

Daily == Script = "Forecast.sh"

TypeOK ==
  /\ pc \in [Runs -> {"idle"} \cup Working \cup Exited]
  /\ status \subseteq Dates
  /\ stock \in [Dates -> SUBSET RainFiles]
  /\ rain \in [Keys -> SUBSET Runs]
  /\ discharge \in [Keys -> SUBSET Pieces]
  /\ dssIn \in [Tags -> SUBSET Sources]
  /\ dssOut \in [Tags -> SUBSET Pieces]
  /\ window \in Windows
  /\ inflow \in [Tags -> SUBSET Pieces]
  /\ outflow \in [Tags -> SUBSET Runs]
  /\ runFile \in [Tags -> SUBSET Runs]
  /\ sent \in [Runs -> [inflow : SUBSET Pieces, outflow : SUBSET Runs,
                        run : SUBSET Runs]]
  /\ faults \in FaultSets

\* The repository comes with 2008_2_Events and its .dss files.
Shipped(series) == [t \in Tags |-> IF t = NoTag THEN series ELSE {}]

SamplePiece == [rain |-> Sample, over |-> Sample]

Init ==
  /\ pc = [r \in Runs |-> "idle"]
  /\ status = {}
  /\ stock \in [Dates -> Stocks]
  /\ rain = [k \in Keys |-> {}]
  /\ discharge = [k \in Keys |-> {}]
  /\ dssIn = Shipped({Sample})
  /\ dssOut = Shipped({SamplePiece})
  /\ window = Sample
  /\ inflow = [t \in Tags |-> {}]
  /\ outflow = [t \in Tags |-> {}]
  /\ runFile = [t \in Tags |-> {}]
  /\ sent = [r \in Runs |-> [inflow |-> {}, outflow |-> {}, run |-> {}]]
  /\ faults \in FaultSets

-----------------------------------------------------------------------------
(* Starting a run.                                                         *)

Goto(r, step) == pc' = [pc EXCEPT ![r] = step]
MayFail(step) == step \in faults
Active(r)     == pc[r] \in Working

\* The operator runs one script at a time, or one for each tag.
MayStart(r) ==
  \A q \in Runs \ {r} : Active(q) => Simultaneous /\ TagOf[q] # TagOf[r]

\* alreadyForecast: the date is in Status.txt, and there is no -f.
AlreadyRun(r) == DateOf[r] \in status /\ r \notin Forced

\* isWRFAvailable answers 1 in either case.
Start(r) ==
  /\ pc[r] = "idle"
  /\ MayStart(r)
  /\ Goto(r, CASE ~Daily                  -> "fetch"
               [] Daily /\ AlreadyRun(r)  -> "quit"
               [] Daily /\ ~AlreadyRun(r) -> "rain")
  /\ UNCHANGED <<status, stock, csvVars, hmsVars, datVars, sent>>

\* What FilesFromBucket.py may take from a listing: the file of kind "mean" asks
\* BucketConfig for a name it does not have, which ends the loop before the
\* files listed after it; a blob of another kind only prints a line.
Downloads(listing) ==
  IF "mean" \in listing THEN SUBSET (listing \ {"mean", "other"})
                        ELSE {listing \ {"other"}}

\* The script compares everything that was printed with "proceed".
Proceeds(listing) == listing \cap {"mean", "other"} = {}

\* The files go into the folder of the day in WRF_ID, whatever -d says.
Keep(r, got) == stock' = [stock EXCEPT ![WrfDateOf[r]] = @ \cup (got \cap RainFiles)]

\* Status.txt is read before the download; this script never writes it.
FetchFiles(r) ==
  /\ pc[r] = "fetch"
  /\ \/ \E listing \in SUBSET Kinds : \E got \in Downloads(listing) :
          /\ Keep(r, got)
          /\ Goto(r, IF Proceeds(listing) /\ ~AlreadyRun(r) THEN "rain" ELSE "quit")
     \/ /\ MayFail("fetch")
        /\ \E got \in SUBSET (Kinds \ {"mean", "other"}) : Keep(r, got)
        /\ Goto(r, "quit")
  /\ UNCHANGED <<status, csvVars, hmsVars, datVars, sent>>

-----------------------------------------------------------------------------
(* Rain to discharge.  The script looks at the exit code of HEC-HMS only.  *)

\* A forecast row takes a value of both files; a missing file is no error.
HasForecast(r) == stock[DateOf[r]] = RainFiles

\* The CSV has the observed rows, which there may be, and the forecast rows, or
\* its header alone.  RFTOCSV.py opens it after it has read files and database:
\* when it fails, an older CSV of that date and tag stays, or one without rows.
WriteRain(r) ==
  /\ pc[r] = "rain"
  /\ \/ \E observed \in BOOLEAN :
          rain' = [rain EXCEPT ![Key(r)] =
                     IF observed \/ HasForecast(r) THEN {r} ELSE {}]
     \/ MayFail("rain") /\ rain' = [rain EXCEPT ![Key(r)] = {}]
     \/ MayFail("rain") /\ UNCHANGED rain
  /\ Goto(r, "hack")
  /\ UNCHANGED <<status, stock, discharge, hmsVars, datVars, sent>>

\* cp -R 2008_2_Events_Hack/* brings the sample .dss files back.
CopyHack(r) ==
  LET t == TagOf[r] IN
  /\ pc[r] = "hack"
  /\ dssIn' = [dssIn EXCEPT ![t] = {Sample}]
  /\ dssOut' = [dssOut EXCEPT ![t] = {SamplePiece}]
  /\ window' = IF t = NoTag THEN Sample ELSE window
  /\ Goto(r, "clean")
  /\ UNCHANGED <<status, stock, csvVars, datVars, sent>>

\* Mutant: the .dss files of earlier runs stay.
RemoveDss_Keeps(r) ==
  /\ pc[r] = "clean"
  /\ Goto(r, "todss")
  /\ UNCHANGED <<status, stock, csvVars, hmsVars, datVars, sent>>

\* rm: CONFIG.json names the .dss files of 2008_2_Events, whatever the tag.
RemoveDss(r) ==
  /\ pc[r] = "clean"
  /\ dssIn' = [dssIn EXCEPT ![NoTag] = {}]
  /\ dssOut' = [dssOut EXCEPT ![NoTag] = {}]
  /\ Goto(r, "todss")
  /\ UNCHANGED <<status, stock, csvVars, window, datVars, sent>>

When(s) == IF s = Sample THEN Sample ELSE DateOf[s]

\* New series replace those of the same window in a .dss file.
Merge(old, new) == {s \in old : \A n \in new : When(n) # When(s)} \cup new

\* CSVTODSS.py takes the model directory of the tag.  What it raises, on a CSV
\* without rows, too, it shows in a message box, if there is a display.
WriteDss(r) ==
  /\ pc[r] = "todss"
  /\ \/ /\ rain[Key(r)] # {}
        /\ dssIn' = [dssIn EXCEPT ![TagOf[r]] = Merge(@, rain[Key(r)])]
        /\ Goto(r, "update")
     \/ /\ rain[Key(r)] = {} \/ MayFail("todss")
        /\ Goto(r, "update") \/ Goto(r, "todssBox")
        /\ UNCHANGED dssIn
  /\ UNCHANGED <<status, stock, csvVars, dssOut, window, datVars, sent>>


\* Update_HECHMS.py reads the window from the rain CSV and raises before it
\* writes when there are no rows.  Its files are those of 2008_2_Events.
UpdateWindow(r) ==
  /\ pc[r] = "update"
  /\ \/ window' = IF rain[Key(r)] = {} THEN window ELSE DateOf[r]
     \/ MayFail("update") /\ UNCHANGED window
  /\ Goto(r, "hms")
  /\ UNCHANGED <<status, stock, csvVars, dssIn, dssOut, datVars, sent>>

Overlap(v, w) == v = w \/ <<v, w>> \in Near

\* 2008_2_Events.script opens the project 2008_2_Events, whatever the tag, and
\* computes what rain there is in the window.
InWindow == {s \in dssIn[NoTag] : Overlap(When(s), window)}

Computed == {[rain |-> s, over |-> window] : s \in InWindow}

\* Rain that does not cover the window may be an error to HEC-HMS, too.
Covered == \E s \in dssIn[NoTag] : When(s) = window

\* The script ends with Exit(1): what hec-hms.sh makes of that decides whether
\* the forecast goes on after a computation.
RunHecHms(r) ==
  /\ pc[r] = "hms"
  /\ \/ /\ InWindow # {}
        /\ dssOut' = [dssOut EXCEPT ![NoTag] =
                        {p \in @ : p.over # window} \cup Computed]
        /\ \E ret \in HmsStatus : Goto(r, IF ret = 0 THEN "tocsv" ELSE "failed")
     \/ /\ ~Covered \/ MayFail("hms")
        /\ Goto(r, "tocsv") \/ Goto(r, "failed")   \* exit status 0 or not
        /\ UNCHANGED dssOut
  /\ UNCHANGED <<status, stock, csvVars, dssIn, window, datVars, sent>>

\* DSSTOCSV.py takes the model directory of the tag, and every value of the
\* flow series in it.  It opens the CSV before it reads them; that there are
\* none, and what it raises, it shows in a message box.
WriteDischarge(r) ==
  /\ pc[r] = "tocsv"
  /\ \/ /\ dssOut[TagOf[r]] # {}
        /\ discharge' = [discharge EXCEPT ![Key(r)] = dssOut[TagOf[r]]]
        /\ Goto(r, "todat")
     \/ /\ dssOut[TagOf[r]] = {} \/ MayFail("tocsv")
        /\ \/ discharge' = [discharge EXCEPT ![Key(r)] = {}]
           \/ MayFail("tocsv") /\ UNCHANGED discharge
        /\ Goto(r, "todat") \/ Goto(r, "tocsvBox")
  /\ UNCHANGED <<status, stock, rain, hmsVars, datVars, sent>>

\* Somebody closes the message box, and the script goes on.
Dismiss(r) ==
  /\ pc[r] \in Waiting
  /\ Goto(r, IF pc[r] = "todssBox" THEN "update" ELSE "todat")
  /\ UNCHANGED <<status, stock, csvVars, hmsVars, datVars, sent>>

-----------------------------------------------------------------------------
(* Discharge and tides to the inputs of FLO2D.                             *)

\* CSVTODAT.py knows --runName but is given --name: it exits 2.  It exits 1
\* when there are no values, and when it fails before it opens INFLOW.DAT.
RejectDischarge(r) ==
  /\ pc[r] = "todat"
  /\ r \in Named \/ discharge[Key(r)] = {} \/ MayFail("todat")
  /\ Goto(r, "failed")
  /\ UNCHANGED <<status, stock, csvVars, hmsVars, datVars, sent>>

\* Mutant: an empty discharge is converted, too.
WriteInflow_Unchecked(r) ==
  /\ pc[r] = "todat"
  /\ inflow' = [inflow EXCEPT ![TagOf[r]] = discharge[Key(r)]]
  /\ Goto(r, "tidal")
  /\ UNCHANGED <<status, stock, csvVars, hmsVars, outflow, runFile, sent>>

\* Mutant: INFLOW.DAT has the same name for every tag.
WriteInflow_OneName(r) ==
  /\ pc[r] = "todat"
  /\ discharge[Key(r)] # {}
  /\ inflow' = [inflow EXCEPT ![NoTag] = discharge[Key(r)]]
  /\ Goto(r, "tidal")
  /\ UNCHANGED <<status, stock, csvVars, hmsVars, outflow, runFile, sent>>

\* A failure after that is printed and forgotten: exit status 0.
WriteInflow(r) ==
  /\ pc[r] = "todat"
  /\ r \notin Named
  /\ discharge[Key(r)] # {}
  /\ \/ inflow' = [inflow EXCEPT ![TagOf[r]] = discharge[Key(r)]]
     \/ MayFail("todat") /\ inflow' = [inflow EXCEPT ![TagOf[r]] = {}]
  /\ Goto(r, "tidal")
  /\ UNCHANGED <<status, stock, csvVars, hmsVars, outflow, runFile, sent>>

\* TIDAL_TO_OUTFLOW.py exits 1 when the database has no tides ...
NoTides(r) ==
  /\ pc[r] = "tidal"
  /\ MayFail("tidal")
  /\ Goto(r, "failed")
  /\ UNCHANGED <<status, stock, csvVars, hmsVars, datVars, sent>>

AfterTides(r) == IF Daily /\ r \in KeepLocal THEN "record" ELSE "sendIn"

\* Mutant: an OUTFLOW.DAT that is there is not written again.
WriteOutflow_Once(r) ==
  /\ pc[r] = "tidal"
  /\ outflow' = [outflow EXCEPT ![TagOf[r]] = IF @ = {} THEN {r} ELSE @]
  /\ Goto(r, AfterTides(r))
  /\ UNCHANGED <<status, stock, csvVars, hmsVars, inflow, runFile, sent>>

\* ... and 0 when the database does not answer, or writing fails half-way.
WriteOutflow(r) ==
  /\ pc[r] = "tidal"
  /\ \/ outflow' = [outflow EXCEPT ![TagOf[r]] = {r}]
     \/ MayFail("tidal") /\ outflow' = [outflow EXCEPT ![TagOf[r]] = {}]
     \/ MayFail("tidal") /\ UNCHANGED outflow
  /\ Goto(r, AfterTides(r))
  /\ UNCHANGED <<status, stock, csvVars, hmsVars, inflow, runFile, sent>>

-----------------------------------------------------------------------------
(* Handing over.  FilesToBucket.py catches what its uploads raise and      *)
(* exits 0; the exit codes of curl are not looked at.                      *)

\* FilesToBucket.py uploads the files CONFIG.json names, whatever the tag.
HandOverTag(r) == IF Daily THEN TagOf[r] ELSE NoTag

SendInflow(r) ==
  /\ pc[r] = "sendIn"
  /\ \/ sent' = [sent EXCEPT ![r].inflow = inflow[HandOverTag(r)]]
     \/ MayFail("send") /\ UNCHANGED sent
  /\ Goto(r, "sendOut")
  /\ UNCHANGED <<status, stock, csvVars, hmsVars, datVars>>

SendOutflow(r) ==
  /\ pc[r] = "sendOut"
  /\ \/ sent' = [sent EXCEPT ![r].outflow = outflow[HandOverTag(r)]]
     \/ MayFail("send") /\ UNCHANGED sent
  /\ Goto(r, IF Daily THEN "runFile" ELSE "done")
  /\ UNCHANGED <<status, stock, csvVars, hmsVars, datVars>>

\* cp the template to the file of the tag; sed the dates into RUN_FLO2D.json,
\* whatever the tag.
WriteRunFile(r) ==
  /\ pc[r] = "runFile"
  /\ runFile' = [t \in Tags |-> CASE t = NoTag                  -> {r}
                                  [] t = TagOf[r] /\ t # NoTag  -> {}
                                  [] OTHER                      -> runFile[t]]
  /\ Goto(r, "sendRun")
  /\ UNCHANGED <<status, stock, csvVars, hmsVars, inflow, outflow, sent>>

SendRunFile(r) ==
  /\ pc[r] = "sendRun"
  /\ \/ sent' = [sent EXCEPT ![r].run = runFile[TagOf[r]]]
     \/ MayFail("send") /\ UNCHANGED sent
  /\ Goto(r, "record")
  /\ UNCHANGED <<status, stock, csvVars, hmsVars, datVars>>

\* Mutant: the date is not recorded, as in Forecast_150.sh.
RecordStatus_Forgets(r) ==
  /\ pc[r] = "record"
  /\ Goto(r, "done")
  /\ UNCHANGED <<status, stock, csvVars, hmsVars, datVars, sent>>

\* Mutant: the tag is recorded for the date.
RecordStatus_Tag(r) ==
  /\ pc[r] = "record"
  /\ status' = status \cup {TagOf[r]}
  /\ Goto(r, "done")
  /\ UNCHANGED <<stock, csvVars, hmsVars, datVars, sent>>

\* The end of Forecast.sh: append the date unless it is there.
RecordStatus(r) ==
  /\ pc[r] = "record"
  /\ status' = status \cup {DateOf[r]}
  /\ Goto(r, "done")
  /\ UNCHANGED <<stock, csvVars, hmsVars, datVars, sent>>

\* The script is killed, or the host goes down; the files stay.
Killed(r) ==
  /\ MayFail("kill")
  /\ Active(r)
  /\ Goto(r, "killed")
  /\ UNCHANGED <<status, stock, csvVars, hmsVars, datVars, sent>>

-----------------------------------------------------------------------------
Work(r) ==
  \/ FetchFiles(r)
  \/ WriteRain(r) \/ CopyHack(r) \/ RemoveDss(r) \/ WriteDss(r)
  \/ UpdateWindow(r) \/ RunHecHms(r) \/ WriteDischarge(r)
  \/ RejectDischarge(r) \/ WriteInflow(r) \/ NoTides(r) \/ WriteOutflow(r)
  \/ SendInflow(r) \/ SendOutflow(r) \/ WriteRunFile(r) \/ SendRunFile(r)
  \/ RecordStatus(r)

Next ==
  /\ \E r \in Runs : Start(r) \/ Work(r) \/ Dismiss(r) \/ Killed(r)
  /\ UNCHANGED faults

Spec == Init /\ [][Next]_vars

\* A script that was started goes on to its next command; nothing makes the
\* operator start one, or close a message box.
FairSpec == Spec /\ \A r \in Runs : WF_vars(Work(r) /\ UNCHANGED faults)

-----------------------------------------------------------------------------
(* The runs as ForecastLedger sees them.                                   *)

OutcomeOf(r) == CASE pc[r] = "done"                 -> "done"
                  [] pc[r] = "quit"                 -> "refused"
                  [] pc[r] \in {"failed", "killed"} -> "aborted"
                  [] OTHER                          -> "open"

Ledger == INSTANCE ForecastLedger
            WITH outcome  <- [r \in Runs |-> OutcomeOf(r)],
                 recorded <- status

\* One after the other, runs of Forecast.sh keep the ledger: a date is
\* recorded by a run that went through, never lost, and a run without -f is
\* turned away exactly when its date is recorded, whatever else was killed or
\* went wrong.
LedgerImplemented == Ledger!Spec

-----------------------------------------------------------------------------
(* Properties.                                                             *)

Done(r) == pc[r] = "done"

OfDate(pieces, r) == \A p \in pieces : p.rain \in Runs /\ DateOf[p.rain] = DateOf[r]

\* An INFLOW.DAT that an untagged run hands over holds no discharge of another
\* date's rain and not the sample's, whichever of the unchecked steps failed,
\* whoever was killed, and whichever tagged run worked in 2008_2_Events too.
NoForeignDischarge ==
  \A r \in Runs : TagOf[r] = NoTag => OfDate(sent[r].inflow, r)

\* Unless writing INFLOW.DAT itself fails, a date is recorded only when that
\* file holds a discharge of that date's rain: CSVTODAT.py's one check catches
\* the failures of the four steps before it.
RecordOnlyProduced ==
  [][\A r \in Runs :
       pc[r] = "record" /\ Done(r)' /\ TagOf[r] = NoTag /\ ~MayFail("todat") =>
       inflow[NoTag] # {} /\ OfDate(inflow[NoTag], r)]_vars

HandsOver(r) == Done(r) /\ TagOf[r] = NoTag /\ r \notin KeepLocal

\* Of all that may fail with exit status 0, three failures alone reach what an
\* untagged run hands over when it goes through: those of an upload or a post, of
\* writing INFLOW.DAT and of the tides, the last two each in its own file.
\* Whatever else failed, or was killed before, the run handed over a discharge
\* of its date and its own tides.
UploadsProduced ==
  ~MayFail("send") =>
    \A r \in Runs : HandsOver(r) =>
      /\ ~MayFail("todat") => sent[r].inflow # {} /\ OfDate(sent[r].inflow, r)
      /\ ~MayFail("tidal") => sent[r].outflow = {r}

\* The windows a simultaneous tagged run may have left in 2008_2_Events, of
\* those that share days with a date's own.
Intruding(d) ==
  {w \in Dates : Simultaneous /\ <<d, w>> \in Near
                 /\ \E q \in Runs : TagOf[q] # NoTag /\ DateOf[q] = w}

\* When no step goes wrong, what an untagged run hands over was computed from
\* its own rain, even when its date was forecast before: over its own window,
\* all of it, when runs follow each other, and over nothing but that and the
\* windows of tagged runs near its date when those use 2008_2_Events, too.
OwnFilesHandedOver ==
  faults = {} =>
    \A r \in Runs : HandsOver(r) =>
      /\ sent[r].outflow = {r}
      /\ sent[r].inflow # {}
      /\ \A p \in sent[r].inflow :
           p.rain = r /\ p.over \in {DateOf[r]} \cup Intruding(DateOf[r])

=============================================================================
