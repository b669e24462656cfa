--------------------------- MODULE ExtractRequests ---------------------------
(***************************************************************************)
(* Flo2dHost with the requests that extract results from a model           *)
(* directory.                                                              *)
(*                                                                         *)
(*   Trigger_Extract_WaterLevel.sh  posts three requests in a row and      *)
(*                      looks at no reply;                                 *)
(*   Server_FLO2D.py    answers each by spawning a PowerShell script that  *)
(*                      runs one of the three extraction programs;         *)
(*   the programs       read RUN_FLO2D.json, then HYCHAN.OUT twice (once   *)
(*                      to count the rows of a series, once for the        *)
(*                      values), then BASE.OUT, as far as each needs them. *)
(*                                                                         *)
(* Nothing relates a request to the model: it may come before the model    *)
(* has ended, and a later run for the same directory may empty it between  *)
(* two passes of a program.  Only Windows stands between them: a file that *)
(* a program has open is not removed.                                      *)
(***************************************************************************)
EXTENDS Flo2dHost, Sequences, FiniteSets

CONSTANTS
  Triggers,   \* invocations of Trigger_Extract_WaterLevel.sh
  Of,         \* trigger -> the run whose directory it names by -d or -p
  MaxEvents   \* bound: extraction programs spawned and server stops together

ASSUME ExtractAssumption ==
  /\ Of \in [Triggers -> Runs]
  /\ MaxEvents \in Nat

\* The requests in the order of the posts: EXTRACT_WATERLEVEL,
\* EXTRACT_WATERLEVEL_GRID, EXTRACT_WATER_DISCHARGE.
Requests == 1 .. 3
Readers  == Triggers \X Requests

\* The passes each program makes over the results.
Passes(x) ==
  CASE x[2] = 1 -> <<"count", "values", "flood">>
    [] x[2] = 2 -> <<"flood">>
    [] x[2] = 3 -> <<"count", "values">>

\* The file a pass reads: HYCHAN.OUT or BASE.OUT.
FileOf(pass) == IF pass = "flood" THEN "base" ELSE "hychan"
OutFiles     == {"hychan", "base"}

NoResult == [run |-> Absent, full |-> FALSE]
Result   == [run : Runs, full : BOOLEAN] \cup {NoResult}
Nothing  == [o \in OutFiles |-> NoResult]

VARIABLES
  results,  \* model directory -> what the output files hold, and of which run
  sent,     \* trigger -> 0 not started, 1..3 the request it posts next, 4 over
  reader,   \* reader -> its extraction program
  blocked   \* history: the runs whose rmtree met an open file of a reader

extractVars == <<results, sent, reader, blocked>>
allVars == <<vars, extractVars>>

\* at: none, config, then for each pass open and read, then ended or failed;
\* opened: the run whose file it has open; saw: what each finished pass read.
NewReader == [at |-> "none", pass |-> 1, opened |-> Absent, saw |-> << >>]

ExtractTypeOK ==
  /\ results \in [Dirs -> [OutFiles -> Result]]
  /\ sent \in [Triggers -> 0 .. 4]
  /\ blocked \subseteq Runs
  /\ \A x \in Readers :
       /\ reader[x].at \in {"none", "config", "open", "read", "ended", "failed"}
       /\ reader[x].pass \in 1 .. Len(Passes(x))
       /\ reader[x].opened \in Runs \cup {Absent}
       /\ Len(reader[x].saw) <= Len(Passes(x))
       /\ \A i \in DOMAIN reader[x].saw : reader[x].saw[i] \in Result \ {NoResult}

ExtractInit ==
  /\ Init
  /\ results = [d \in Dirs |-> Nothing]
  /\ sent = [t \in Triggers |-> 0]
  /\ reader = [x \in Readers |-> NewReader]
  /\ blocked = {}

DirRead(x)  == DirOf[Of[x[1]]]
FileRead(x) == FileOf(Passes(x)[reader[x].pass])
Reading(x)  == reader[x].at = "read"

\* A file of d is open in a reader.
Held(d) == \E x \in Readers : DirRead(x) = d /\ Reading(x)

-----------------------------------------------------------------------------
(* The host, with what its steps mean for the results.                     *)

\* Mutant: rmtree takes no notice of who reads.
RemoveUnheld_Anyway(r) ==
  /\ RemoveDir(r)
  /\ results' = IF At(r, "failed")' THEN results
                ELSE [results EXCEPT ![DirOf[r]] = Nothing]
  /\ UNCHANGED <<sent, reader, blocked>>

\* rmtree removes the results with the rest of the directory; where it fails
\* for a running model, the output files are open and stay.
RemoveUnheld(r) ==
  /\ ~Held(DirOf[r])
  /\ RemoveDir(r)
  /\ results' = IF At(r, "failed")' THEN results
                ELSE [results EXCEPT ![DirOf[r]] = Nothing]
  /\ UNCHANGED <<sent, reader, blocked>>

\* rmtree meets a file that is open in a reader: it raises after it deleted
\* some of the entries.
RemoveHeld(r) ==
  LET d == DirOf[r]
      open == {FileRead(x) : x \in {y \in Readers : DirRead(y) = d /\ Reading(y)}}
  IN
  /\ At(r, "remove")
  /\ Held(d)
  /\ \E kept \in SUBSET Files :
       dirs' = [dirs EXCEPT ![d] = KeepOnly(@, kept)]
  /\ \E lost \in SUBSET (IF Locked(d) THEN {} ELSE OutFiles \ open) :
       results' = [results EXCEPT ![d] =
                     [o \in OutFiles |-> IF o \in lost THEN NoResult ELSE @[o]]]
  /\ Goto(r, "failed")
  /\ blocked' = blocked \cup {r}
  /\ UNCHANGED <<clientVars, serverVars, stage, sent, reader>>

\* Mutant: BASE.OUT is complete only some time after the model has ended.
ModelResults_Late(r, full) ==
  results' = [results EXCEPT ![DirOf[r]] =
                [o \in OutFiles |-> [run |-> r, full |-> full /\ o = "hychan"]]]

\* The model of r writes both output files; they are complete when it ends.
ModelResults(r, full) ==
  results' = [results EXCEPT ![DirOf[r]] = [o \in OutFiles |-> [run |-> r, full |-> full]]]

ModelStarts(r) ==
  /\ Launch(r)
  /\ IF At(r, "running")' THEN ModelResults(r, FALSE) ELSE UNCHANGED results
  /\ UNCHANGED <<sent, reader, blocked>>

ModelStops(r) ==
  /\ ModelEnds(r)
  /\ ModelResults(r, TRUE)
  /\ UNCHANGED <<sent, reader, blocked>>

\* The steps that leave the results alone.
Beside(r) ==
  /\ \/ StartRun(r) \/ Client(r) \/ Handler(r)
     \/ MakeDir(r) \/ CopyTemplates(r)
     \/ MoveInput(r) \/ CopyOpenInput(r) \/ UnlinkSource(r) \/ MoveFails(r)
  /\ UNCHANGED extractVars

-----------------------------------------------------------------------------
(* The trigger and the server.                                             *)

StartTrigger(t) ==
  /\ sent[t] = 0
  /\ sent' = [sent EXCEPT ![t] = 1]
  /\ UNCHANGED <<vars, results, reader, blocked>>

\* The bound on what may happen in one behaviour.
EventLeft == Cardinality({x \in Readers : reader[x].at # "none"}) + stops < MaxEvents

\* The server takes the request when it serves no other, and spawns or fails to;
\* it does not wait, and the script goes on whether the reply is 200 or 500.
PostExtract(t) ==
  /\ sent[t] \in Requests
  /\ up
  /\ handler = Idle
  /\ \/ /\ EventLeft
        /\ reader' = [reader EXCEPT ![<<t, sent[t]>>].at = "config"]
     \/ UNCHANGED reader
  /\ sent' = [sent EXCEPT ![t] = @ + 1]
  /\ UNCHANGED <<vars, results, blocked>>

\* Mutant: the script goes on posting after its last request.
LoseExtract_Beyond(t) ==
  /\ sent[t] > 0
  /\ ~up
  /\ sent' = [sent EXCEPT ![t] = @ + 1]
  /\ UNCHANGED <<vars, results, reader, blocked>>

\* Nobody answers.
LoseExtract(t) ==
  /\ sent[t] \in Requests
  /\ ~up
  /\ sent' = [sent EXCEPT ![t] = @ + 1]
  /\ UNCHANGED <<vars, results, reader, blocked>>

-----------------------------------------------------------------------------
(* The extraction programs.                                                *)

Becomes(x, state) ==
  /\ reader' = [reader EXCEPT ![x] = state]
  /\ UNCHANGED <<vars, results, sent, blocked>>

\* RUN_FLO2D.json of the directory gives defaults; one that was cut short is
\* no JSON, and the program ends.
ReadConfig(x) ==
  /\ reader[x].at = "config"
  /\ Becomes(x, [reader[x] EXCEPT
       !.at = IF dirs[DirRead(x)].files[RunJson] = Cut THEN "failed" ELSE "open"])

\* Mutant: a program that finds nothing waits for the model.
OpenResult_Waits(x) ==
  LET found == results[DirRead(x)][FileRead(x)] IN
  /\ reader[x].at = "open"
  /\ found # NoResult
  /\ Becomes(x, [reader[x] EXCEPT !.at = "read", !.opened = found.run])

\* The file of the next pass is opened; without it the program ends.
OpenResult(x) ==
  LET found == results[DirRead(x)][FileRead(x)] IN
  /\ reader[x].at = "open"
  /\ Becomes(x, IF found = NoResult
                THEN [reader[x] EXCEPT !.at = "failed"]
                ELSE [reader[x] EXCEPT !.at = "read", !.opened = found.run])

\* The pass meets the end of the file, and closes it.
FinishPass(x) ==
  LET found == results[DirRead(x)][FileRead(x)]
      last  == reader[x].pass = Len(Passes(x))
  IN
  /\ Reading(x)
  /\ Becomes(x, [at |-> IF last THEN "ended" ELSE "open",
                 pass |-> IF last THEN reader[x].pass ELSE reader[x].pass + 1,
                 opened |-> Absent,
                 saw |-> Append(reader[x].saw, found)])

Extraction(x) == ReadConfig(x) \/ OpenResult(x) \/ FinishPass(x)

-----------------------------------------------------------------------------
HostProcess(r) ==
  \/ RemoveUnheld(r) \/ RemoveHeld(r) \/ ModelStarts(r) \/ ModelStops(r)
  \/ Beside(r)

ExtractNext ==
  \/ \E r \in Runs : HostProcess(r)
  \/ EventLeft /\ ServerStops /\ UNCHANGED extractVars
  \/ ServerStarts /\ UNCHANGED extractVars
  \/ \E t \in Triggers : StartTrigger(t) \/ PostExtract(t) \/ LoseExtract(t)
  \/ \E x \in Readers : Extraction(x)

\* As in Flo2dHost: started scripts, the server's loop and spawned processes go
\* on; nobody has to start a run, a trigger or the server.
ExtractFairness ==
  /\ \A r \in Runs :
       /\ WF_allVars(Client(r) /\ UNCHANGED extractVars)
       /\ WF_allVars(Handler(r) /\ UNCHANGED extractVars)
       /\ WF_allVars(HostProcess(r) /\ proc'[r] # proc[r] /\ post' = post)
  /\ \A t \in Triggers : WF_allVars(PostExtract(t) \/ LoseExtract(t))
  /\ \A x \in Readers : WF_allVars(Extraction(x))

ExtractSpec == ExtractInit /\ [][ExtractNext]_allVars /\ ExtractFairness
-----------------------------------------------------------------------------
(* Properties.                                                             *)

\* Where no two processes work in one directory, one pass of a program reads
\* the file of one run from its opening to its end, whatever later runs for
\* that directory do meanwhile: the open file keeps rmtree, and with it the
\* next model, away.  (Where two do, the second may already be past rmtree.)
PassReadsOneRun ==
  DistinctDirs \/ Pacing = "spaced" =>
    \A x \in Readers : Reading(x) =>
      results[DirRead(x)][FileRead(x)].run = reader[x].opened

\* Once a pass has seen the complete file of a run, no later pass of the same
\* program sees that run cut short, though the passes read different files: a
\* series length counted in a complete file never meets half a file of the
\* same run.
CompleteStaysComplete ==
  \A x \in Readers : \A i, j \in DOMAIN reader[x].saw :
    LET saw == reader[x].saw IN
    i < j /\ saw[i].full /\ saw[j].run = saw[i].run => saw[j].full

\* When forecast runs are spaced, an extraction is the only thing that can cost
\* a run its model: a run all of whose posts were acknowledged has its model
\* run to the end, unless its rmtree met a file an extraction was reading.
OnlyReadersBlock ==
  \A r \in Runs :
    Pacing = "spaced" /\ acked[r] = Files ~> At(r, "ended") \/ r \in blocked

\* A trigger that was started gets through its posts, and each program that was
\* spawned for it comes to an end, whatever happens to the directory.
TriggerSettles ==
  \A t \in Triggers :
    sent[t] = 1 ~>
      sent[t] = 4 /\ \A q \in Requests :
                       reader[<<t, q>>].at \in {"none", "ended", "failed"}
=============================================================================
