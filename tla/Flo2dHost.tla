------------------------------ MODULE Flo2dHost ------------------------------
(***************************************************************************)
(* The Windows host that runs the FLO2D hydraulic model, and the tail of a *)
(* forecast run that feeds it.                                             *)
(*                                                                         *)
(*   Forecast.sh        posts four inputs, one curl after the other, and   *)
(*                      never looks at curl's exit code;                   *)
(*   Server_FLO2D.py    one thread: writes each posted body to a fixed     *)
(*                      name in the staging directory FLO2D/, and answers  *)
(*                      the fourth post by spawning a process;             *)
(*   Run_FLO2D.py       the process: empties the run's model directory,    *)
(*                      fills it with the templates, moves the four staged *)
(*                      inputs into it, and starts FLOPRO.exe there.       *)
(*                                                                         *)
(* A staged name carries neither the date nor the tag of the run that      *)
(* posted it, and the spawned process is not waited for.  What a model is  *)
(* computed from is therefore a matter of interleaving.                    *)
(*                                                                         *)
(* The body of a post is the name of the run it comes from: a file holds   *)
(* the run whose input it is, Absent, or Cut (a prefix of some body).      *)
(***************************************************************************)
EXTENDS Naturals

CONSTANTS
  Runs,      \* invocations of Forecast.sh
  Dirs,      \* model directories on the Windows host
  DirOf,     \* the directory a run names: <date>_Kelani or FLO2D_PATH
  Pacing,    \* when the operator starts the next run, see MayStart
  MaxStops,  \* bound: how often the server goes down
  Absent,    \* no such file; also no such run
  Cut        \* a file that holds less than the whole body

ASSUME HostAssumption ==
  /\ DirOf \in [Runs -> Dirs]
  /\ Pacing \in {"simultaneous", "repeated", "spaced"}
  /\ MaxStops \in Nat
  /\ Absent \notin Runs
  /\ Cut \notin Runs
  /\ Absent # Cut

\* The four inputs, in the order in which they are posted and moved:
\* INFLOW.DAT, OUTFLOW.DAT, RAINCELL.DAT, RUN_FLO2D.json.
Files   == 1 .. 4
RunJson == 4

Content == Runs \cup {Absent, Cut}

VARIABLES
  post,     \* run -> 0 not started, 1..4 the input it posts next, 5 all posted
  acked,    \* run -> the inputs whose post was answered 200
  up,       \* the server process exists
  stops,    \* how often it went down
  handler,  \* the one request the server serves, and how far it is
  stage,    \* FLO2D/: input -> what its staged file holds
  dirs,     \* model directory -> what is there
  proc      \* run -> its Run_FLO2D.py process

clientVars == <<post, acked>>
serverVars == <<up, stops, handler>>
vars == <<post, acked, up, stops, handler, stage, dirs, proc>>

Idle    == [run |-> Absent, at |-> "idle"]
NoFiles == [f \in Files |-> Absent]
NoDir   == [kind |-> "absent", templates |-> FALSE, files |-> NoFiles]

\* A process that is over, whether its model ran or not.
Over == {"ended", "failed"}

TypeOK ==
  /\ post \in [Runs -> 0 .. 5]
  /\ acked \in [Runs -> SUBSET Files]
  /\ up \in BOOLEAN
  /\ stops \in 0 .. MaxStops
  /\ handler \in [run : Runs \cup {Absent}, at : {"idle", "write", "spawn"}]
  /\ stage \in [Files -> Content]
  /\ dirs \in [Dirs -> [kind : {"absent", "dir", "file"},
                        templates : BOOLEAN,
                        files : [Files -> Content]]]
  /\ proc \in [Runs -> [pc : {"none", "remove", "make", "copy", "move",
                              "unlink", "launch", "running"} \cup Over,
                        file : Files]]

Init ==
  /\ post = [r \in Runs |-> 0]
  /\ acked = [r \in Runs |-> {}]
  /\ up = TRUE
  /\ stops = 0
  /\ handler = Idle
  /\ stage = NoFiles
  /\ dirs = [d \in Dirs |-> NoDir]
  /\ proc = [r \in Runs |-> [pc |-> "none", file |-> 1]]

-----------------------------------------------------------------------------
(* The forecast run.                                                       *)

Posting(r) == post[r] \in Files
Posted(r)  == post[r] = 5
Settled(r) == Posted(r) /\ proc[r].pc \in Over \cup {"none"}

\* Mutant: the next run does not wait for the model of the last one.
MayStart_Early(r) ==
  \A q \in Runs \ {r} : Pacing = "simultaneous" \/ post[q] = 0 \/ Posted(q)

\* Runs are tagged and simultaneous, or follow each other as ScriptRepeator.py
\* makes them (the next script starts when the last one returned), or follow
\* each other with a wait that outlasts the model.
MayStart(r) ==
  \A q \in Runs \ {r} :
    CASE Pacing = "simultaneous" -> TRUE
      [] Pacing = "repeated"     -> post[q] = 0 \/ Posted(q)
      [] Pacing = "spaced"       -> post[q] = 0 \/ Settled(q)

StartRun(r) ==
  /\ post[r] = 0
  /\ MayStart(r)
  /\ post' = [post EXCEPT ![r] = 1]
  /\ UNCHANGED <<acked, serverVars, stage, dirs, proc>>

\* Mutant: the script goes on posting after its last input.
LosePost_Beyond(r) ==
  /\ post[r] > 0
  /\ ~up
  /\ post' = [post EXCEPT ![r] = @ + 1]
  /\ UNCHANGED <<acked, serverVars, stage, dirs, proc>>

\* Mutant: the script repeats a post until somebody answers.
LosePost_Repeats(r) ==
  /\ Posting(r)
  /\ ~up
  /\ UNCHANGED vars

\* Nobody answers: curl fails, and the script goes on to the next post.
LosePost(r) ==
  /\ Posting(r)
  /\ ~up
  /\ post' = [post EXCEPT ![r] = @ + 1]
  /\ UNCHANGED <<acked, serverVars, stage, dirs, proc>>

-----------------------------------------------------------------------------
(* The server: one request at a time.                                      *)

Serving(r) == handler.run = r /\ handler.at # "idle"

\* The staged file the handler has open.
Open(f) == handler.at = "write" /\ post[handler.run] = f

\* Mutant: the server answers 200 before it has written the body.
BeginPost_Acks(r) ==
  /\ Posting(r)
  /\ up
  /\ handler = Idle
  /\ handler' = [run |-> r, at |-> "write"]
  /\ stage' = [stage EXCEPT ![post[r]] = Cut]
  /\ acked' = [acked EXCEPT ![r] = @ \cup {post[r]}]
  /\ UNCHANGED <<post, up, stops, dirs, proc>>

\* open(..., 'w') truncates what is staged under that name.
BeginPost(r) ==
  /\ Posting(r)
  /\ up
  /\ handler = Idle
  /\ handler' = [run |-> r, at |-> "write"]
  /\ stage' = [stage EXCEPT ![post[r]] = Cut]
  /\ UNCHANGED <<clientVars, up, stops, dirs, proc>>

\* The client takes a reply and goes on; status 200 is remembered in acked.
Reply(r, ok) ==
  /\ handler' = Idle
  /\ post' = [post EXCEPT ![r] = @ + 1]
  /\ acked' = [acked EXCEPT ![r] = IF ok THEN @ \cup {post[r]} ELSE @]

\* write and close; the handler of RUN_FLO2D has still to spawn the process.
FinishPost(r) ==
  /\ handler = [run |-> r, at |-> "write"]
  /\ stage' = [stage EXCEPT ![post[r]] = r]
  /\ \/ /\ post[r] = RunJson
        /\ handler' = [run |-> r, at |-> "spawn"]
        /\ UNCHANGED clientVars
     \/ /\ post[r] # RunJson
        /\ Reply(r, TRUE)
  /\ UNCHANGED <<up, stops, dirs, proc>>

\* Popen returns at once: the reply does not wait for the model.
SpawnModel(r) ==
  /\ handler = [run |-> r, at |-> "spawn"]
  /\ proc' = [proc EXCEPT ![r] = [pc |-> "remove", file |-> 1]]
  /\ Reply(r, TRUE)
  /\ UNCHANGED <<up, stops, stage, dirs>>

\* Popen raises: the reply is 500, and nobody reads it.
SpawnFails(r) ==
  /\ handler = [run |-> r, at |-> "spawn"]
  /\ Reply(r, FALSE)
  /\ UNCHANGED <<up, stops, stage, dirs, proc>>

\* The server goes down.  A request it serves is lost with it, a file it was
\* writing stays as far as it got; spawned processes live on.
ServerStops ==
  /\ up
  /\ stops < MaxStops
  /\ up' = FALSE
  /\ stops' = stops + 1
  /\ handler' = Idle
  /\ post' = [r \in Runs |-> IF Serving(r) THEN post[r] + 1 ELSE post[r]]
  /\ UNCHANGED <<acked, stage, dirs, proc>>

\* Somebody runs FLO2DServer.bat again.
ServerStarts ==
  /\ ~up
  /\ up' = TRUE
  /\ UNCHANGED <<clientVars, stops, handler, stage, dirs, proc>>

-----------------------------------------------------------------------------
(* The process Run_FLO2D.py.                                               *)

At(r, pc) == proc[r].pc = pc
Goto(r, pc) == proc' = [proc EXCEPT ![r].pc = pc]

\* FLOPRO.exe runs in d: Windows lets nobody delete or replace it there.
Locked(d) == \E r \in Runs : DirOf[r] = d /\ At(r, "running")

\* What is left of a directory of whose inputs only those in kept survive.
KeepOnly(entry, kept) ==
  [entry EXCEPT !.files =
     [f \in Files |-> IF f \in kept THEN entry.files[f] ELSE Absent]]

\* Mutant: rmtree is given the parent of all model directories.
RemoveDir_All(r) ==
  /\ At(r, "remove")
  /\ dirs' = [d \in Dirs |-> NoDir]
  /\ Goto(r, "make")
  /\ UNCHANGED <<clientVars, serverVars, stage>>

\* Mutant: the directory of an earlier run is kept.
RemoveDir_Keeps(r) ==
  /\ At(r, "remove")
  /\ Goto(r, "make")
  /\ UNCHANGED <<clientVars, serverVars, stage, dirs>>

\* isdir -> rmtree.  On a locked directory rmtree raises after it deleted
\* some of the entries, and the process gives up.
RemoveDir(r) ==
  LET d == DirOf[r] IN
  /\ At(r, "remove")
  /\ \/ /\ dirs[d].kind = "dir"
        /\ ~Locked(d)
        /\ dirs' = [dirs EXCEPT ![d] = NoDir]
        /\ Goto(r, "make")
     \/ /\ dirs[d].kind = "dir"
        /\ Locked(d)
        /\ \E kept \in SUBSET Files :
             dirs' = [dirs EXCEPT ![d] = KeepOnly(@, kept)]
        /\ Goto(r, "failed")
     \/ /\ dirs[d].kind # "dir"
        /\ Goto(r, "make")
        /\ UNCHANGED dirs
  /\ UNCHANGED <<clientVars, serverVars, stage>>

\* not exists -> makedirs.
MakeDir(r) ==
  LET d == DirOf[r] IN
  /\ At(r, "make")
  /\ dirs' = [dirs EXCEPT ![d].kind = IF @ = "absent" THEN "dir" ELSE @]
  /\ Goto(r, "copy")
  /\ UNCHANGED <<clientVars, serverVars, stage>>

\* copy_tree twice.  It makes the directory anew when somebody removed it, and
\* raises on a plain file of that name and on the locked FLOPRO.exe.
CopyTemplates(r) ==
  LET d == DirOf[r] IN
  /\ At(r, "copy")
  /\ \/ /\ dirs[d].kind # "file"
        /\ ~Locked(d)
        /\ dirs' = [dirs EXCEPT ![d] =
                                [kind |-> "dir", templates |-> TRUE,
                                 files |-> @.files]]
        /\ proc' = [proc EXCEPT ![r] = [pc |-> "move", file |-> 1]]
     \/ /\ dirs[d].kind = "file" \/ Locked(d)
        /\ Goto(r, "failed")
        /\ UNCHANGED dirs
  /\ UNCHANGED <<clientVars, serverVars, stage>>

\* What a directory entry is once a file f with content c was put "into" it.
\* Without the directory, shutil.move takes its path as the file's new name.
Put(entry, f, c) ==
  IF entry.kind = "dir"
  THEN [entry EXCEPT !.files[f] = c]
  ELSE [kind |-> "file", templates |-> FALSE, files |-> [NoFiles EXCEPT ![f] = c]]

\* The file is in place: move the next one, or start the model.
NextFile(r) ==
  proc' = [proc EXCEPT ![r] = IF @.file = RunJson
                              THEN [@ EXCEPT !.pc = "launch"]
                              ELSE [pc |-> "move", file |-> @.file + 1]]

\* Mutant: it is not looked at whether there is something to move.
Movable_Blind(r) ==
  LET d == DirOf[r]
      f == proc[r].file
  IN  dirs[d].kind = "dir" => dirs[d].files[f] = Absent

\* shutil.move can start: there is something to move and no file of that name.
Movable(r) ==
  LET d == DirOf[r]
      f == proc[r].file
  IN  /\ stage[f] # Absent
      /\ dirs[d].kind = "dir" => dirs[d].files[f] = Absent

\* Mutant: the staged file is copied, not moved.
MoveInput_Copies(r) ==
  LET d == DirOf[r]
      f == proc[r].file
  IN
  /\ At(r, "move")
  /\ Movable(r)
  /\ ~Open(f)
  /\ dirs' = [dirs EXCEPT ![d] = Put(@, f, stage[f])]
  /\ NextFile(r)
  /\ UNCHANGED <<clientVars, serverVars, stage>>

\* shutil.move renames a closed file.
MoveInput(r) ==
  LET d == DirOf[r]
      f == proc[r].file
  IN
  /\ At(r, "move")
  /\ Movable(r)
  /\ ~Open(f)
  /\ dirs' = [dirs EXCEPT ![d] = Put(@, f, stage[f])]
  /\ stage' = [stage EXCEPT ![f] = Absent]
  /\ NextFile(r)
  /\ UNCHANGED <<clientVars, serverVars>>

\* A file the server has open cannot be renamed: shutil.move copies what is
\* there so far ...
CopyOpenInput(r) ==
  LET d == DirOf[r]
      f == proc[r].file
  IN
  /\ At(r, "move")
  /\ Movable(r)
  /\ Open(f)
  /\ dirs' = [dirs EXCEPT ![d] = Put(@, f, Cut)]
  /\ Goto(r, "unlink")
  /\ UNCHANGED <<clientVars, serverVars, stage>>

\* ... and then deletes the source, whatever the server wrote in between.
UnlinkSource(r) ==
  LET f == proc[r].file IN
  /\ At(r, "unlink")
  /\ ~Open(f)
  /\ stage[f] # Absent
  /\ stage' = [stage EXCEPT ![f] = Absent]
  /\ NextFile(r)
  /\ UNCHANGED <<clientVars, serverVars, dirs>>

\* Mutant: a move that fails puts the inputs moved before back.
MoveFails_PutsBack(r) ==
  LET d == DirOf[r]
      f == proc[r].file
  IN
  /\ At(r, "move")
  /\ ~Movable(r)
  /\ stage' = [g \in Files |-> IF g < f THEN dirs[d].files[g] ELSE stage[g]]
  /\ dirs' = [dirs EXCEPT ![d] = NoDir]
  /\ Goto(r, "failed")
  /\ UNCHANGED <<clientVars, serverVars>>

\* shutil.Error or OSError: "Directory not copied", the model is not started
\* and the inputs not yet moved stay staged.
MoveFails(r) ==
  LET f == proc[r].file IN
  /\ \/ At(r, "move") /\ ~Movable(r)
     \/ At(r, "unlink") /\ (Open(f) \/ stage[f] = Absent)
  /\ Goto(r, "failed")
  /\ UNCHANGED <<clientVars, serverVars, stage, dirs>>

\* chdir and os.system; without the directory or the program nothing runs.
Launch(r) ==
  LET d == DirOf[r] IN
  /\ At(r, "launch")
  /\ Goto(r, IF dirs[d].kind = "dir" /\ dirs[d].templates
             THEN "running" ELSE "failed")
  /\ UNCHANGED <<clientVars, serverVars, stage, dirs>>

\* FLOPRO.exe ends.
ModelEnds(r) ==
  /\ At(r, "running")
  /\ Goto(r, "ended")
  /\ UNCHANGED <<clientVars, serverVars, stage, dirs>>

-----------------------------------------------------------------------------
Client(r)  == BeginPost(r) \/ LosePost(r)
Handler(r) == FinishPost(r) \/ SpawnModel(r) \/ SpawnFails(r)
Process(r) ==
  \/ RemoveDir(r) \/ MakeDir(r) \/ CopyTemplates(r)
  \/ MoveInput(r) \/ CopyOpenInput(r) \/ UnlinkSource(r) \/ MoveFails(r)
  \/ Launch(r) \/ ModelEnds(r)

Next ==
  \/ \E r \in Runs : StartRun(r) \/ Client(r) \/ Handler(r) \/ Process(r)
  \/ ServerStops
  \/ ServerStarts

Spec == Init /\ [][Next]_vars

\* A started script, the server's loop and a spawned process go on by
\* themselves; nothing makes the operator start a run, the server stop, or
\* somebody start it again.
Fairness ==
  \A r \in Runs : /\ WF_vars(Client(r))
                  /\ WF_vars(Handler(r))
                  /\ WF_vars(Process(r))

FairSpec == Spec /\ Fairness
-----------------------------------------------------------------------------
(* The staging directory as InputHandoff sees it.                          *)

\* The server has taken the post of f, or the post has failed.
Sent(r, f) == post[r] > f \/ (f = RunJson /\ handler = [run |-> r, at |-> "spawn"])

StatusOf(r, f) ==
  IF stage[f] = r THEN "staged"
  ELSE IF \E d \in Dirs : dirs[d].files[f] = r THEN "taken"
  ELSE IF Sent(r, f) THEN "gone"
  ELSE "unsent"

Handoff ==
  INSTANCE InputHandoff
    WITH status <- [p \in Runs \X Files |-> StatusOf(p[1], p[2])]

\* Whatever is interleaved, lost or overwritten, an input of a forecast run is
\* handed to one model run at most and never returns to an earlier stage, and
\* each staged name holds the input of one run: the host implements
\* InputHandoff.
HandoffImplemented == Handoff!Spec

-----------------------------------------------------------------------------
(* Properties.                                                             *)

Running(r) == At(r, "running")
Inputs(r)  == dirs[DirOf[r]].files
DistinctDirs == \A q, r \in Runs : DirOf[q] = DirOf[r] => q = r

\* A posted input lies in one place at most: staged, or in one model
\* directory.  shutil.move must never leave the staged file behind, or a later
\* run would compute on it again.
AtMostOnePlace ==
  \A r \in Runs, f \in Files :
    /\ stage[f] = r => \A d \in Dirs : dirs[d].files[f] # r
    /\ \A d, e \in Dirs :
         dirs[d].files[f] = r /\ dirs[e].files[f] = r => d = e

\* When every run has a directory of its own, a model is never started without
\* one of its four inputs: a missing staged file makes Run_FLO2D.py give up.
CompleteLaunch ==
  DistinctDirs => \A r \in Runs : Running(r) =>
                    \A f \in Files : Inputs(r)[f] # Absent

\* When every run has a directory of its own, or runs are spaced, no sequence
\* of moves turns the path of a model directory into a plain file, which
\* neither rmtree nor makedirs would ever repair.
NeverBlocked ==
  DistinctDirs \/ Pacing = "spaced" => \A d \in Dirs : dirs[d].kind # "file"

\* When every run has a directory of its own, no other run's process touches
\* what a running model reads.
UndisturbedModel ==
  [][DistinctDirs => \A r \in Runs : Running(r) =>
                       dirs'[DirOf[r]] = dirs[DirOf[r]]]_vars

\* When runs are spaced, an input the server acknowledged is the one the model
\* of that run computes on, whatever other posts were lost or cut short and
\* whatever earlier runs left staged.
AckedInputsUsed ==
  Pacing = "spaced" => \A r \in Runs : Running(r) =>
                         \A f \in acked[r] : Inputs(r)[f] = r

\* Forecast.sh:30 "Tag to differential simultaneous Forecast Runs": with a
\* directory for each tag, the model of a run computes on that run's inputs.
TaggedRunsKeepInputs ==
  DistinctDirs => \A r \in Runs : Running(r) =>
                    \A f \in Files : Inputs(r)[f] = r

\* A forecast run that started to post gets through, whether or not the server
\* is there, and its process, if there is one, comes to an end.
StartedRunSettles == \A r \in Runs : Posting(r) ~> Settled(r)

\* When runs are spaced, a run all of whose posts were acknowledged has its
\* model run to the end.
AckedRunLaunches ==
  \A r \in Runs : Pacing = "spaced" /\ acked[r] = Files ~> At(r, "ended")
=============================================================================
