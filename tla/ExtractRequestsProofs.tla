------------------------- MODULE ExtractRequestsProofs -------------------------
(***************************************************************************)
(* Theorems about ExtractRequests, for any number of runs, triggers and    *)
(* directories, every pacing and every bound.                              *)
(***************************************************************************)
EXTENDS ExtractRequests, ModelDirProofs

-----------------------------------------------------------------------------
(* The invariant.                                                          *)

\* The process of r has emptied its directory and has not started its model.
Emptied(r) == proc[r].pc \in {"make", "copy", "move", "unlink", "launch"}
Ended(r)   == At(r, "ended")

Found(x) == results[DirRead(x)][FileRead(x)]

\* The files of a model are in the directory of its run, and complete if and
\* only if the model has ended.
Genuine(d, result) ==
  result # NoResult => /\ DirOf[result.run] = d
                       /\ IF result.full THEN Ended(result.run)
                                         ELSE Running(result.run)

ResultsInv ==
  /\ results \in [Dirs -> [OutFiles -> Result]]
  /\ \A d \in Dirs, o \in OutFiles : Genuine(d, results[d][o])

ReaderState == [at : {"none", "config", "open", "read", "ended", "failed"},
                pass : Nat,
                opened : Runs \cup {Absent},
                saw : Seq(Result)]

\* A program has seen one result for each pass it has finished, and the file it
\* reads is there.
ReaderInv ==
  /\ reader \in [Readers -> ReaderState]
  /\ \A x \in Readers :
       /\ reader[x].pass \in 1 .. Len(Passes(x))
       /\ Len(reader[x].saw) = IF reader[x].at = "ended" THEN reader[x].pass
                               ELSE reader[x].pass - 1
       /\ Reading(x) => Found(x) # NoResult

\* A request that is not posted yet has no program.
SentInv ==
  /\ sent \in [Triggers -> 0 .. 4]
  /\ \A x \in Readers : sent[x[1]] <= x[2] => reader[x].at = "none"

\* What was seen complete is of a model that has ended.
SawInv ==
  \A x \in Readers : \A i \in DOMAIN reader[x].saw :
    LET seen == reader[x].saw[i] IN
    seen # NoResult /\ (seen.full => Ended(seen.run))

\* Where no two processes work in one directory: from rmtree to the start of the
\* model there are no results in it, and then those of that model.
OwnResultsInv ==
  Apart =>
    /\ \A r \in Runs, o \in OutFiles :
         /\ Emptied(r) => results[DirOf[r]][o] = NoResult
         /\ Running(r) => results[DirOf[r]][o].run = r
    /\ \A x \in Readers : Reading(x) => Found(x).run = reader[x].opened

ExtractInv ==
  /\ blocked \subseteq Runs
  /\ ResultsInv /\ ReaderInv /\ SentInv /\ SawInv
  /\ CompleteStaysComplete
  /\ OwnResultsInv

LEMMA PassesShape ==
  ASSUME NEW x \in Readers
  PROVE  /\ Len(Passes(x)) \in Nat /\ Len(Passes(x)) > 0
         /\ \A pass : FileOf(pass) \in OutFiles
<1>1. x[2] \in 1 .. 3
  BY DEF Readers, Requests
<1>2. CASE x[2] = 1
  BY <1>2 DEF Passes, FileOf, OutFiles
<1>3. CASE x[2] = 2
  BY <1>3 DEF Passes, FileOf, OutFiles
<1>4. CASE x[2] = 3
  BY <1>4 DEF Passes, FileOf, OutFiles
<1>5. QED  BY <1>1, <1>2, <1>3, <1>4

\* A reader looks for a file of some directory.
LEMMA FoundTyped ==
  ASSUME results \in [Dirs -> [OutFiles -> Result]], NEW x \in Readers
  PROVE  /\ DirRead(x) \in Dirs /\ FileRead(x) \in OutFiles
         /\ Found(x) \in Result
BY PassesShape, HostAssumption, ExtractAssumption
   DEF DirRead, FileRead, Found, Readers

LEMMA ResultShape ==
  ASSUME NEW result \in Result, result # NoResult
  PROVE  result.run \in Runs /\ result.full \in BOOLEAN
BY DEF Result

LEMMA ExtractInitial == ExtractInit => TypeInv /\ OrderInv /\ ExtractInv
<1> SUFFICES ASSUME ExtractInit PROVE TypeInv /\ OrderInv /\ ExtractInv
  OBVIOUS
<1>1. TypeInv /\ OrderInv
  BY TypeInit DEF ExtractInit, Init, OrderInv, Busy
<1>2. /\ \A d \in Dirs, o \in OutFiles : results[d][o] = NoResult
      /\ results \in [Dirs -> [OutFiles -> Result]]
  BY DEF ExtractInit, Nothing, Result
<1>3. \A x \in Readers : reader[x] = NewReader
  BY DEF ExtractInit
<1>4. NewReader \in ReaderState
  BY DEF NewReader, ReaderState
<1>5. /\ NewReader.at = "none" /\ NewReader.pass = 1
      /\ NewReader.saw = << >>
  BY DEF NewReader
<1>6. ResultsInv
  BY <1>2 DEF ResultsInv, Genuine
<1>7. ReaderInv
  <2>1. reader \in [Readers -> ReaderState]
    BY <1>4 DEF ExtractInit
  <2>2. Len(NewReader.saw) = 0
    BY <1>5
  <2>3. QED  BY <1>3, <1>5, <2>1, <2>2, PassesShape DEF ReaderInv, Reading
<1>8. SentInv
  BY <1>3, <1>5 DEF SentInv, ExtractInit
<1>9. SawInv /\ CompleteStaysComplete
  BY <1>3, <1>5 DEF SawInv, CompleteStaysComplete
<1>10. OwnResultsInv
  <2>1. \A r \in Runs : ~Running(r)
    BY DEF ExtractInit, Init, Running, At
  <2>2. \A r \in Runs : DirOf[r] \in Dirs
    BY HostAssumption
  <2>3. QED  BY <1>2, <1>3, <1>5, <2>1, <2>2 DEF OwnResultsInv, Reading
<1>11. QED
  BY <1>1, <1>6, <1>7, <1>8, <1>9, <1>10 DEF ExtractInv, ExtractInit

-----------------------------------------------------------------------------
(* Steps of the host that leave the results alone.                         *)

\* The model of q neither starts nor ends, and its directory is not emptied.
SamePhase(q) ==
  /\ Emptied(q)' => Emptied(q)
  /\ Running(q)' <=> Running(q)
  /\ Ended(q)' <=> Ended(q)

LEMMA QuietKept ==
  ASSUME ExtractInv, UNCHANGED extractVars, \A q \in Runs : SamePhase(q)
  PROVE  ExtractInv'
<1>1. UNCHANGED <<results, sent, reader, blocked>>
  BY DEF extractVars
<1>2. ResultsInv'
  <2>1. ASSUME NEW d \in Dirs, NEW o \in OutFiles
        PROVE  Genuine(d, results[d][o])'
    <3>1. results[d][o] \in Result /\ Genuine(d, results[d][o])
      BY DEF ExtractInv, ResultsInv
    <3>2. QED  BY <1>1, <3>1, ResultShape DEF Genuine, SamePhase
  <2>2. QED  BY <1>1, <2>1 DEF ExtractInv, ResultsInv
<1>3. ReaderInv' /\ SentInv' /\ CompleteStaysComplete'
  BY <1>1 DEF ExtractInv, ReaderInv, SentInv, CompleteStaysComplete, Reading, Found,
              DirRead, FileRead
<1>4. SawInv'
  <2>1. ASSUME NEW x \in Readers, NEW i \in DOMAIN reader[x].saw
        PROVE  reader[x].saw[i] \in Result
    <3>1. reader[x].saw \in Seq(Result)
      BY DEF ExtractInv, ReaderInv, ReaderState
    <3>2. QED  BY <3>1
  <2>2. ASSUME NEW x \in Readers, NEW i \in DOMAIN reader[x].saw,
               NEW seen \in Result, seen = reader[x].saw[i]
        PROVE  seen # NoResult /\ (seen.full => Ended(seen.run)')
    BY <2>2, ResultShape DEF ExtractInv, SawInv, SamePhase
  <2>3. QED  BY <1>1, <2>1, <2>2 DEF SawInv
<1>5. OwnResultsInv'
  BY <1>1 DEF ExtractInv, OwnResultsInv, SamePhase, Apart, DistinctDirs, Reading,
              Found, DirRead, FileRead
<1>6. QED  BY <1>1, <1>2, <1>3, <1>4, <1>5 DEF ExtractInv

LEMMA BesideKept ==
  ASSUME TypeInv, OrderInv, ExtractInv, NEW r \in Runs, Beside(r)
  PROVE  ExtractInv'
<1>1. proc = [q \in Runs |-> proc[q]]
  BY DEF TypeInv, TypeOK
<1>2. CASE StartRun(r) \/ Client(r) \/ Handler(r)
  <2>1. CASE UNCHANGED proc
    BY <2>1, QuietKept DEF Beside, SamePhase, Emptied, Running, Ended, At
  <2>2. CASE SpawnModel(r)
    <3>1. handler.run = r /\ handler.at = "spawn"
      BY <2>2 DEF SpawnModel
    <3>2. proc[r].pc = "none"
      BY <3>1 DEF TypeInv, HandlerOK, OrderInv, Posted, RunJson
    <3>3. proc' = [proc EXCEPT ![r] = [pc |-> "remove", file |-> 1]]
      BY <2>2 DEF SpawnModel
    <3>4. \A q \in Runs : SamePhase(q)
      BY <1>1, <3>2, <3>3 DEF SamePhase, Emptied, Running, Ended, At
    <3>5. QED  BY <3>4, QuietKept DEF Beside
  <2>3. QED
    BY <1>2, <2>1, <2>2 DEF StartRun, Client, BeginPost, LosePost, Handler,
                            FinishPost, SpawnFails
<1>3. CASE \/ MakeDir(r) \/ CopyTemplates(r)
          \/ MoveInput(r) \/ CopyOpenInput(r) \/ UnlinkSource(r) \/ MoveFails(r)
  <2>1. Process(r) /\ Emptied(r)
    BY <1>3 DEF Process, Emptied, At, MakeDir, CopyTemplates, MoveInput, CopyOpenInput,
                UnlinkSource, MoveFails
  <2>2. proc'[r].pc \in {"copy", "move", "unlink", "launch", "failed"}
    <3>1. proc[r] \in [pc : {"none", "remove", "make", "copy", "move", "unlink",
                            "launch", "running"} \cup Over,
                      file : Files]
      BY DEF TypeInv, TypeOK
    <3>2. \A pc : Goto(r, pc) => proc'[r].pc = pc
      BY <1>1, <3>1 DEF Goto
    <3>3. NextFile(r) => proc'[r].pc \in {"move", "launch"}
      BY <1>1, <3>1 DEF NextFile
    <3>4. CopyTemplates(r) => proc'[r].pc \in {"move", "failed"}
      BY <1>1, <3>2 DEF CopyTemplates
    <3>5. QED
      BY <1>3, <3>2, <3>3, <3>4 DEF MakeDir, MoveInput, CopyOpenInput, UnlinkSource,
                                    MoveFails
  <2>3. \A q \in Runs \ {r} : proc'[q] = proc[q]
    BY <2>1, OwnOnly
  <2>4. \A q \in Runs : SamePhase(q)
    BY <2>1, <2>2, <2>3 DEF SamePhase, Emptied, Running, Ended, At
  <2>5. QED  BY <2>4, QuietKept DEF Beside
<1>4. QED  BY <1>2, <1>3 DEF Beside

-----------------------------------------------------------------------------
(* Steps of a process that change the results in its directory.            *)

\* What such a step must see to: the new results are genuine, whoever reads
\* still has its file, and what the process promises of its directory is true.
LEMMA ResultsStep ==
  ASSUME TypeInv, OrderInv, ExtractInv, NEW r \in Runs, Active(r),
         UNCHANGED <<sent, reader>>, blocked' \subseteq Runs,
         \A q \in Runs \ {r} : proc'[q] = proc[q],
         NEW new \in [OutFiles -> Result],
         results' = [results EXCEPT ![DirOf[r]] = new],
         \A o \in OutFiles : Genuine(DirOf[r], new[o])',
         \A x \in Readers : DirRead(x) = DirOf[r] /\ Reading(x) =>
           /\ new[FileRead(x)] # NoResult
           /\ Apart => new[FileRead(x)].run = reader[x].opened,
         Apart => \A o \in OutFiles : /\ Emptied(r)' => new[o] = NoResult
                                      /\ Running(r)' => new[o].run = r
  PROVE  ExtractInv'
<1> DEFINE d == DirOf[r]
<1>1. d \in Dirs /\ results \in [Dirs -> [OutFiles -> Result]]
  BY HostAssumption DEF ExtractInv, ResultsInv
<1>2. ~Ended(r)
  BY DEF Active, Ended, At, Over
<1>3. \A q \in Runs \ {r} : /\ Running(q)' <=> Running(q)
                            /\ Ended(q)' <=> Ended(q)
                            /\ Emptied(q)' <=> Emptied(q)
  BY DEF Running, Ended, Emptied, At
<1>4. ResultsInv'
  <2>1. ASSUME NEW e \in Dirs \ {d}, NEW o \in OutFiles
        PROVE  Genuine(e, results[e][o])'
    <3>1. results'[e][o] = results[e][o] /\ results[e][o] \in Result
          /\ Genuine(e, results[e][o])
      BY <1>1 DEF ExtractInv, ResultsInv
    <3>2. results[e][o] # NoResult => results[e][o].run \in Runs \ {r}
      BY <3>1, ResultShape DEF Genuine
    <3>3. QED  BY <1>3, <3>1, <3>2 DEF Genuine
  <2>2. results'[d] = new /\ results' \in [Dirs -> [OutFiles -> Result]]
    BY <1>1
  <2>3. QED  BY <2>1, <2>2 DEF ResultsInv
<1>5. \A x \in Readers : Found(x)' = IF DirRead(x) = d THEN new[FileRead(x)] ELSE Found(x)
  BY <1>1, FoundTyped DEF Found, DirRead, FileRead
<1>6. ReaderInv'
  BY <1>5 DEF ExtractInv, ReaderInv, Reading
<1>7. SentInv' /\ CompleteStaysComplete'
  BY DEF ExtractInv, SentInv, CompleteStaysComplete
<1>8. SawInv'
  <2>1. ASSUME NEW x \in Readers, NEW i \in DOMAIN reader[x].saw
        PROVE  reader[x].saw[i] \in Result
    <3>1. reader[x].saw \in Seq(Result)
      BY DEF ExtractInv, ReaderInv, ReaderState
    <3>2. QED  BY <3>1
  <2>2. ASSUME NEW x \in Readers, NEW i \in DOMAIN reader[x].saw,
               NEW seen \in Result, seen = reader[x].saw[i]
        PROVE  seen # NoResult /\ (seen.full => Ended(seen.run)')
    BY <1>2, <1>3, <2>2, ResultShape DEF ExtractInv, SawInv
  <2>3. QED  BY <2>1, <2>2 DEF SawInv
<1>9. OwnResultsInv'
  <2> SUFFICES ASSUME Apart PROVE OwnResultsInv'
    BY DEF OwnResultsInv, Apart, DistinctDirs
  <2>1. ASSUME NEW q \in Runs \ {r}, NEW o \in OutFiles
        PROVE  /\ Emptied(q)' => results'[DirOf[q]][o] = NoResult
               /\ Running(q)' => results'[DirOf[q]][o].run = q
    <3>1. CASE DirOf[q] = d
      <4>1. ~Active(q)
        BY <3>1, OthersIdle
      <4>2. ~Emptied(q) /\ ~Running(q)
        BY <4>1 DEF Active, Emptied, Running, At, Over
      <4>3. QED  BY <1>3, <4>2
    <3>2. CASE DirOf[q] # d
      <4>1. DirOf[q] \in Dirs
        BY HostAssumption
      <4>2. QED  BY <1>1, <1>3, <3>2, <4>1 DEF ExtractInv, OwnResultsInv
    <3>3. QED  BY <3>1, <3>2
  <2>2. ASSUME NEW o \in OutFiles
        PROVE  /\ Emptied(r)' => results'[d][o] = NoResult
               /\ Running(r)' => results'[d][o].run = r
    <3>1. results'[d][o] = new[o]
      BY <1>1
    <3>2. QED  BY <3>1
  <2>3. ASSUME NEW x \in Readers, Reading(x)
        PROVE  Found(x)'.run = reader[x].opened
    BY <1>5, <2>3 DEF ExtractInv, OwnResultsInv
  <2>4. QED  BY <2>1, <2>2, <2>3 DEF OwnResultsInv, Reading
<1>10. QED
  BY <1>4, <1>6, <1>7, <1>8, <1>9 DEF ExtractInv

LEMMA UnheldKept ==
  ASSUME TypeInv, OrderInv, ExtractInv, NEW r \in Runs, RemoveUnheld(r)
  PROVE  ExtractInv'
<1>1. /\ RemoveDir(r) /\ Process(r) /\ Active(r) /\ proc[r].pc = "remove"
      /\ \A q \in Runs \ {r} : proc'[q] = proc[q]
  BY OwnOnly, ProcessActive DEF RemoveUnheld, RemoveDir, Process, At
<1>2. proc'[r].pc \in {"make", "failed"}
  BY <1>1 DEF RemoveDir, Goto, TypeInv, TypeOK
<1>3. CASE At(r, "failed")'
  <2>1. \A q \in Runs : SamePhase(q)
    BY <1>1, <1>3 DEF SamePhase, Emptied, Running, Ended, At
  <2>2. QED  BY <1>3, <2>1, QuietKept DEF RemoveUnheld, extractVars
<1>4. CASE proc'[r].pc = "make"
  <2>1. /\ results' = [results EXCEPT ![DirOf[r]] = Nothing]
        /\ UNCHANGED <<sent, reader, blocked>> /\ ~Held(DirOf[r])
    BY <1>4 DEF RemoveUnheld, At
  <2>2. Nothing \in [OutFiles -> Result] /\ \A o \in OutFiles : Nothing[o] = NoResult
    BY DEF Nothing, Result
  <2>3. ~Running(r)'
    BY <1>4 DEF Running, At
  <2>4. \A o \in OutFiles : Genuine(DirOf[r], Nothing[o])'
    BY <2>2 DEF Genuine, Nothing, OutFiles
  <2>5. blocked' \subseteq Runs
    BY <2>1 DEF ExtractInv
  <2>6. \A x \in Readers : ~(DirRead(x) = DirOf[r] /\ Reading(x))
    BY <2>1 DEF Held
  <2>7. QED  BY <1>1, <2>1, <2>2, <2>3, <2>4, <2>5, <2>6, ResultsStep
<1>5. QED  BY <1>2, <1>3, <1>4 DEF At

LEMMA HeldKept ==
  ASSUME TypeInv, OrderInv, ExtractInv, NEW r \in Runs, RemoveHeld(r)
  PROVE  TypeInv' /\ OrderInv' /\ ExtractInv'
<1> DEFINE d == DirOf[r]
<1>1. /\ d \in Dirs /\ dirs \in [Dirs -> DirEntry]
      /\ results \in [Dirs -> [OutFiles -> Result]]
  BY HostAssumption DEF TypeInv, TypeOK, DirEntry, ExtractInv, ResultsInv
<1>2. /\ proc[r].pc = "remove" /\ proc' = [proc EXCEPT ![r].pc = "failed"]
      /\ UNCHANGED <<post, acked, up, stops, handler, stage, sent, reader>>
      /\ blocked' = blocked \cup {r}
  BY DEF RemoveHeld, At, Goto, clientVars, serverVars
<1>3. /\ proc'[r].pc = "failed" /\ Active(r)
      /\ \A q \in Runs \ {r} : proc'[q] = proc[q]
      /\ proc' \in [Runs -> [pc : {"none", "remove", "make", "copy", "move",
                                   "unlink", "launch", "running"} \cup Over,
                             file : Files]]
  BY <1>2 DEF TypeInv, TypeOK, Active, Over
<1>4. TypeInv'
  <2>1. PICK kept \in SUBSET Files :
          dirs' = [dirs EXCEPT ![d] = KeepOnly(dirs[d], kept)]
    BY DEF RemoveHeld
  <2>2. KeepOnly(dirs[d], kept) \in DirEntry
    BY <1>1 DEF KeepOnly, DirEntry, Content
  <2>3. dirs' \in [Dirs -> DirEntry]
    BY <1>1, <2>1, <2>2
  <2>4. QED
    BY <1>2, <1>3, <2>3 DEF TypeInv, TypeOK, HandlerOK, Posting, DirEntry
<1>5. OrderInv'
  BY <1>2, <1>3, OrderProcess
<1>6. PICK new \in [OutFiles -> Result] :
        /\ results' = [results EXCEPT ![d] = new]
        /\ \A o \in OutFiles : new[o] \in {NoResult, results[d][o]}
        /\ \A x \in Readers : DirRead(x) = d /\ Reading(x) =>
                               new[FileRead(x)] = results[d][FileRead(x)]
  <2> DEFINE open == {FileRead(x) : x \in {y \in Readers : DirRead(y) = d /\ Reading(y)}}
  <2>1. PICK lost \in SUBSET (IF Locked(d) THEN {} ELSE OutFiles \ open) :
          results' = [results EXCEPT ![d] =
                       [o \in OutFiles |-> IF o \in lost THEN NoResult ELSE results[d][o]]]
    BY DEF RemoveHeld
  <2> DEFINE rest == [o \in OutFiles |-> IF o \in lost THEN NoResult ELSE results[d][o]]
  <2>2. rest \in [OutFiles -> Result]
    BY <1>1 DEF Result
  <2>3. \A x \in Readers : DirRead(x) = d /\ Reading(x) =>
                            rest[FileRead(x)] = results[d][FileRead(x)]
    BY <1>1, <2>1, FoundTyped
  <2>4. \A o \in OutFiles : rest[o] \in {NoResult, results[d][o]}
    OBVIOUS
  <2> HIDE DEF rest
  <2>5. results' = [results EXCEPT ![d] = rest]
    BY <2>1 DEF rest
  <2>6. QED  BY <2>2, <2>3, <2>4, <2>5
<1>7. ASSUME NEW o \in OutFiles, NEW result \in Result, result = new[o]
      PROVE  Genuine(d, result)'
  <2>1. result # NoResult => Genuine(d, result)
    BY <1>1, <1>6, <1>7 DEF ExtractInv, ResultsInv
  <2>2. ~Running(r) /\ ~Ended(r)
    BY <1>2 DEF Running, Ended, At
  <2>3. result # NoResult => result.run \in Runs \ {r}
    BY <2>1, <2>2, ResultShape DEF Genuine
  <2>4. QED
    BY <1>3, <2>1, <2>3 DEF Genuine, Running, Ended, At
<1>8. ASSUME NEW x \in Readers, DirRead(x) = d, Reading(x)
      PROVE  /\ new[FileRead(x)] # NoResult
             /\ Apart => new[FileRead(x)].run = reader[x].opened
  <2>1. new[FileRead(x)] = Found(x)
    BY <1>6, <1>8 DEF Found
  <2>2. QED  BY <1>8, <2>1 DEF ExtractInv, ReaderInv, OwnResultsInv
<1>9. ExtractInv'
  <2>1. ~Emptied(r)' /\ ~Running(r)'
    BY <1>3 DEF Emptied, Running, At
  <2>2. blocked' \subseteq Runs
    BY <1>2 DEF ExtractInv
  <2>3. \A o \in OutFiles : Genuine(DirOf[r], new[o])'
    BY <1>6, <1>7
  <2>4. \A x \in Readers : DirRead(x) = DirOf[r] /\ Reading(x) =>
          /\ new[FileRead(x)] # NoResult
          /\ Apart => new[FileRead(x)].run = reader[x].opened
    BY <1>8
  <2>5. Apart => \A o \in OutFiles : /\ Emptied(r)' => new[o] = NoResult
                                     /\ Running(r)' => new[o].run = r
    BY <2>1
  <2>6. results' = [results EXCEPT ![DirOf[r]] = new] /\ UNCHANGED <<sent, reader>>
    BY <1>2, <1>6
  <2>7. Active(r) /\ \A q \in Runs \ {r} : proc'[q] = proc[q]
    BY <1>3
  <2>8. QED
    BY <2>2, <2>3, <2>4, <2>5, <2>6, <2>7, ResultsStep
<1>10. QED  BY <1>4, <1>5, <1>9

LEMMA StartKept ==
  ASSUME TypeInv, OrderInv, ExtractInv, NEW r \in Runs, ModelStarts(r)
  PROVE  ExtractInv'
<1>1. /\ Process(r) /\ Active(r) /\ proc[r].pc = "launch"
      /\ proc'[r].pc \in {"running", "failed"}
      /\ \A q \in Runs \ {r} : proc'[q] = proc[q]
  <2>1. Process(r) /\ proc[r].pc = "launch"
    BY DEF ModelStarts, Launch, Process, At
  <2>2. proc'[r].pc \in {"running", "failed"}
    BY DEF ModelStarts, Launch, Goto, TypeInv, TypeOK
  <2>3. QED  BY <2>1, <2>2, OwnOnly, ProcessActive
<1>2. CASE proc'[r].pc = "failed"
  <2>1. \A q \in Runs : SamePhase(q)
    BY <1>1, <1>2 DEF SamePhase, Emptied, Running, Ended, At
  <2>2. UNCHANGED extractVars
    BY <1>2 DEF ModelStarts, extractVars, At
  <2>3. QED  BY <2>1, <2>2, QuietKept
<1>3. CASE proc'[r].pc = "running"
  <2>1. PICK part \in Result : part = [run |-> r, full |-> FALSE]
    BY DEF Result
  <2>2. /\ part.run = r /\ part.full = FALSE /\ part # NoResult
    BY <2>1, HostAssumption DEF NoResult
  <2>3. PICK new \in [OutFiles -> Result] :
          /\ results' = [results EXCEPT ![DirOf[r]] = new]
          /\ \A o \in OutFiles : new[o] = part
    <3> DEFINE both == [o \in OutFiles |-> part]
    <3>1. both \in [OutFiles -> Result] /\ \A o \in OutFiles : both[o] = part
      OBVIOUS
    <3>2. results' = [results EXCEPT ![DirOf[r]] = both]
      BY <1>3, <2>1 DEF ModelStarts, ModelResults, At
    <3> HIDE DEF both
    <3>3. QED  BY <3>1, <3>2
  <2>4. \A o \in OutFiles : Genuine(DirOf[r], new[o])'
    BY <1>3, <2>2, <2>3 DEF Genuine, Running, At
  <2>5. UNCHANGED <<sent, reader>> /\ blocked' \subseteq Runs
    BY DEF ModelStarts, ExtractInv
  \* Where processes keep apart, nobody can be reading: there are no results.
  <2>6. ASSUME NEW x \in Readers, DirRead(x) = DirOf[r], Reading(x)
        PROVE  new[FileRead(x)] # NoResult /\ ~Apart
    <3>1. FileRead(x) \in OutFiles /\ Found(x) # NoResult
      BY <2>6, FoundTyped DEF ExtractInv, ResultsInv, ReaderInv
    <3>2. Apart => Found(x) = NoResult
      BY <1>1, <2>6, <3>1 DEF ExtractInv, OwnResultsInv, Emptied, Found
    <3>3. QED  BY <2>2, <2>3, <3>1, <3>2
  <2>7. ~Emptied(r)' /\ \A o \in OutFiles : new[o].run = r
    BY <1>3, <2>2, <2>3 DEF Emptied
  <2>8. QED  BY <1>1, <2>3, <2>4, <2>5, <2>6, <2>7, ResultsStep
<1>4. QED  BY <1>1, <1>2, <1>3

LEMMA StopKept ==
  ASSUME TypeInv, OrderInv, ExtractInv, NEW r \in Runs, ModelStops(r)
  PROVE  ExtractInv'
<1>1. /\ Process(r) /\ Active(r) /\ Running(r) /\ proc'[r].pc = "ended"
      /\ \A q \in Runs \ {r} : proc'[q] = proc[q]
  <2>1. Process(r) /\ Running(r)
    BY DEF ModelStops, ModelEnds, Process, Running
  <2>2. proc'[r].pc = "ended"
    BY DEF ModelStops, ModelEnds, Goto, TypeInv, TypeOK
  <2>3. QED  BY <2>1, <2>2, OwnOnly, ProcessActive
<1>2. PICK whole \in Result : whole = [run |-> r, full |-> TRUE]
  BY DEF Result
<1>3. /\ whole.run = r /\ whole.full = TRUE /\ whole # NoResult
  BY <1>2, HostAssumption DEF NoResult
<1>4. PICK new \in [OutFiles -> Result] :
        /\ results' = [results EXCEPT ![DirOf[r]] = new]
        /\ \A o \in OutFiles : new[o] = whole
  <2> DEFINE both == [o \in OutFiles |-> whole]
  <2>1. both \in [OutFiles -> Result] /\ \A o \in OutFiles : both[o] = whole
    OBVIOUS
  <2>2. results' = [results EXCEPT ![DirOf[r]] = both]
    BY <1>2 DEF ModelStops, ModelResults
  <2> HIDE DEF both
  <2>3. QED  BY <2>1, <2>2
<1>5. \A o \in OutFiles : Genuine(DirOf[r], new[o])'
  BY <1>1, <1>3, <1>4 DEF Genuine, Ended, At
<1>6. UNCHANGED <<sent, reader>> /\ blocked' \subseteq Runs
  BY DEF ModelStops, ExtractInv
\* Whoever reads was reading the file of this run already.
<1>7. ASSUME NEW x \in Readers, DirRead(x) = DirOf[r], Reading(x)
      PROVE  /\ new[FileRead(x)] # NoResult
             /\ Apart => new[FileRead(x)].run = reader[x].opened
  <2>1. FileRead(x) \in OutFiles
    BY FoundTyped DEF ExtractInv, ResultsInv
  <2>2. Apart => Found(x).run = r /\ Found(x).run = reader[x].opened
    BY <1>1, <1>7, <2>1 DEF ExtractInv, OwnResultsInv, Found
  <2>3. QED  BY <1>3, <1>4, <2>1, <2>2
<1>8. ~Emptied(r)' /\ ~Running(r)'
  BY <1>1 DEF Emptied, Running, At
<1>9. QED  BY <1>1, <1>4, <1>5, <1>6, <1>7, <1>8, ResultsStep

-----------------------------------------------------------------------------
(* Steps of the extraction programs and of the trigger.                    *)

\* Of two passes, the later one does not see the run of the earlier one less
\* complete.
Steady(saw) ==
  \A i, j \in DOMAIN saw :
    i < j /\ saw[i].full /\ saw[j].run = saw[i].run => saw[j].full

\* Everything seen is of a model, and if complete of one that has ended.
Sound(saw) ==
  \A i \in DOMAIN saw : saw[i] # NoResult /\ (saw[i].full => Ended(saw[i].run))

\* What a step of one program must see to.
LEMMA ReaderStep ==
  ASSUME ExtractInv, SentInv', UNCHANGED <<proc, results, blocked>>,
         NEW x \in Readers, NEW state \in ReaderState,
         reader' = [reader EXCEPT ![x] = state],
         state.pass \in 1 .. Len(Passes(x)),
         Len(state.saw) = IF state.at = "ended" THEN state.pass ELSE state.pass - 1,
         state.at = "read" =>
           LET found == results[DirRead(x)][FileOf(Passes(x)[state.pass])] IN
           found # NoResult /\ (Apart => found.run = state.opened),
         Steady(state.saw), Sound(state.saw)
  PROVE  ExtractInv'
<1>1. reader \in [Readers -> ReaderState] /\ reader' \in [Readers -> ReaderState]
  BY DEF ExtractInv, ReaderInv
<1>2. reader'[x] = state /\ \A y \in Readers \ {x} : reader'[y] = reader[y]
  BY <1>1
<1>3. \A y \in Readers \ {x} : Found(y)' = Found(y)
  BY <1>2 DEF Found, DirRead, FileRead
<1>4. Found(x)' = results[DirRead(x)][FileOf(Passes(x)[state.pass])]
  BY <1>2 DEF Found, DirRead, FileRead
<1>5. ResultsInv'
  BY DEF ExtractInv, ResultsInv, Genuine, Ended, Running, At
<1>6. ReaderInv'
  BY <1>1, <1>2, <1>3, <1>4 DEF ExtractInv, ReaderInv, Reading
<1>7. SawInv'
  <2>1. \A y \in Readers : Sound(reader[y].saw)
    BY DEF ExtractInv, SawInv, Sound
  <2>2. \A y \in Readers : Sound(reader'[y].saw)
    BY <1>2, <2>1
  <2>3. ASSUME NEW y \in Readers, NEW i \in DOMAIN reader'[y].saw
        PROVE  /\ reader'[y].saw[i] # NoResult
               /\ reader'[y].saw[i].full
                    => proc'[reader'[y].saw[i].run].pc = "ended"
    BY <2>2, <2>3 DEF Sound, Ended, At
  <2>4. QED  BY <2>3 DEF SawInv, Ended, At
<1>8. CompleteStaysComplete'
  BY <1>2 DEF ExtractInv, CompleteStaysComplete, Steady
<1>9. OwnResultsInv'
  BY <1>2, <1>3, <1>4
     DEF ExtractInv, OwnResultsInv, Apart, DistinctDirs, Emptied, Running, At, Reading
<1>10. QED  BY <1>5, <1>6, <1>7, <1>8, <1>9 DEF ExtractInv

\* What the invariant says of the state a program starts its step from.
LEMMA ReaderBefore ==
  ASSUME ExtractInv, NEW x \in Readers
  PROVE  /\ reader[x] \in ReaderState
         /\ Steady(reader[x].saw) /\ Sound(reader[x].saw)
         /\ reader[x].pass \in 1 .. Len(Passes(x))
         /\ Len(reader[x].saw) = IF reader[x].at = "ended" THEN reader[x].pass
                                 ELSE reader[x].pass - 1
         /\ Found(x) \in Result /\ Genuine(DirRead(x), Found(x))
BY FoundTyped
   DEF ExtractInv, ReaderInv, CompleteStaysComplete, SawInv, Steady, Sound, ResultsInv,
       Found

\* A program that is there already has its request posted.
LEMMA SentKept ==
  ASSUME SentInv, UNCHANGED sent, NEW x \in Readers, reader[x].at # "none",
         reader \in [Readers -> ReaderState],
         NEW state \in ReaderState, reader' = [reader EXCEPT ![x] = state]
  PROVE  SentInv'
BY DEF SentInv

LEMMA ExtractionKept ==
  ASSUME ExtractInv, NEW x \in Readers, Extraction(x)
  PROVE  ExtractInv'
<1> DEFINE old == reader[x]
<1>1. /\ old \in ReaderState /\ Steady(old.saw) /\ Sound(old.saw)
      /\ old.pass \in 1 .. Len(Passes(x))
      /\ Len(old.saw) = IF old.at = "ended" THEN old.pass ELSE old.pass - 1
      /\ Found(x) \in Result /\ Genuine(DirRead(x), Found(x))
  BY ReaderBefore
<1>2. /\ UNCHANGED <<proc, results, blocked, sent>>
      /\ SentInv /\ reader \in [Readers -> ReaderState]
  BY DEF Extraction, ReadConfig, OpenResult, FinishPass, Becomes, vars, ExtractInv,
         ReaderInv
<1>3. CASE ReadConfig(x)
  <2>1. PICK at \in {"failed", "open"} : reader' = [reader EXCEPT ![x] = [old EXCEPT !.at = at]]
    BY <1>3 DEF ReadConfig, Becomes
  <2>2. PICK state \in ReaderState : state = [old EXCEPT !.at = at]
    BY <1>1 DEF ReaderState
  <2>3. /\ state.at = at /\ state.pass = old.pass /\ state.saw = old.saw
        /\ old.at = "config"
    BY <1>1, <1>3, <2>2 DEF ReaderState, ReadConfig
  <2>4. reader' = [reader EXCEPT ![x] = state]
    BY <2>1, <2>2
  <2>5. SentInv'
    BY <1>2, <2>3, <2>4, SentKept
  <2>6. QED  BY <1>1, <1>2, <2>3, <2>4, <2>5, ReaderStep
<1>4. CASE OpenResult(x)
  <2>1. CASE Found(x) = NoResult
    <3>1. PICK state \in ReaderState : state = [old EXCEPT !.at = "failed"]
      BY <1>1 DEF ReaderState
    <3>2. /\ state.at = "failed" /\ state.pass = old.pass /\ state.saw = old.saw
          /\ old.at = "open"
      BY <1>1, <1>4, <3>1 DEF ReaderState, OpenResult
    <3>3. reader' = [reader EXCEPT ![x] = state]
      BY <1>4, <2>1, <3>1 DEF OpenResult, Becomes, Found
    <3>4. SentInv'
      BY <1>2, <3>2, <3>3, SentKept
    <3>5. QED  BY <1>1, <1>2, <3>2, <3>3, <3>4, ReaderStep
  <2>2. CASE Found(x) # NoResult
    <3>1. Found(x).run \in Runs
      BY <1>1, <2>2, ResultShape
    <3>2. PICK state \in ReaderState :
            state = [old EXCEPT !.at = "read", !.opened = Found(x).run]
      BY <1>1, <3>1 DEF ReaderState
    <3>3. /\ state.at = "read" /\ state.pass = old.pass /\ state.saw = old.saw
          /\ state.opened = Found(x).run /\ old.at = "open"
      BY <1>1, <1>4, <3>2 DEF ReaderState, OpenResult
    <3>4. reader' = [reader EXCEPT ![x] = state]
      BY <1>4, <2>2, <3>2 DEF OpenResult, Becomes, Found
    <3>5. SentInv'
      BY <1>2, <3>3, <3>4, SentKept
    <3>6. Found(x) = results[DirRead(x)][FileOf(Passes(x)[state.pass])]
      BY <3>3 DEF Found, FileRead
    <3>7. QED  BY <1>1, <1>2, <2>2, <3>3, <3>4, <3>5, <3>6, ReaderStep
  <2>3. QED  BY <2>1, <2>2
<1>5. CASE FinishPass(x)
  <2>1. /\ old.at = "read" /\ Found(x) # NoResult
        /\ old.saw \in Seq(Result) /\ Len(old.saw) = old.pass - 1
        /\ old.pass \in Nat /\ Len(Passes(x)) \in Nat
    BY <1>1, <1>5, PassesShape DEF FinishPass, Reading, ExtractInv, ReaderInv, ReaderState
  <2>2. PICK saw \in Seq(Result) : saw = Append(old.saw, Found(x))
    <3>1. Found(x) \in Result
      BY <1>1
    <3>2. Append(old.saw, Found(x)) \in Seq(Result)
      BY <2>1, <3>1
    <3>3. QED  BY <3>2
  <2>3. /\ Len(saw) = old.pass /\ DOMAIN saw = 1 .. old.pass
        /\ saw[old.pass] = Found(x)
        /\ \A i \in 1 .. old.pass - 1 : i \in DOMAIN old.saw /\ saw[i] = old.saw[i]
    BY <1>1, <2>1, <2>2
  <2>4. Found(x).full => Ended(Found(x).run)
    BY <1>1, <2>1 DEF Genuine
  <2>5. Sound(saw)
    <3>1. ASSUME NEW i \in 1 .. old.pass - 1
          PROVE  saw[i] # NoResult /\ (saw[i].full => Ended(saw[i].run))
      BY <1>1, <2>3 DEF Sound
    <3>2. \A i \in DOMAIN saw : i = old.pass \/ i \in 1 .. old.pass - 1
      BY <2>1, <2>3
    <3> HIDE DEF old
    <3>3. QED  BY <2>1, <2>3, <2>4, <3>1, <3>2 DEF Sound
  <2>6. ASSUME NEW i \in 1 .. old.pass - 1,
               saw[i].full, Found(x).run = saw[i].run
        PROVE  Found(x).full
    <3>1. Ended(Found(x).run)
      BY <1>1, <2>3, <2>6 DEF Sound
    <3>2. QED  BY <1>1, <2>1, <3>1 DEF Genuine, Ended, Running, At
  <2>7. Steady(saw)
    <3> SUFFICES ASSUME NEW i \in DOMAIN saw, NEW j \in DOMAIN saw,
                        i < j, saw[i].full, saw[j].run = saw[i].run
                 PROVE  saw[j].full
      BY DEF Steady
    <3>1. i \in 1 .. old.pass - 1
      BY <2>1, <2>3
    <3>2. CASE j = old.pass
      BY <2>3, <2>6, <3>1, <3>2
    <3>3. CASE j # old.pass
      <4>1. j \in 1 .. old.pass - 1
        BY <2>1, <2>3, <3>3
      <4>2. QED  BY <1>1, <2>3, <3>1, <4>1 DEF Steady
    <3>4. QED  BY <3>2, <3>3
  <2>8. PICK state \in ReaderState :
          /\ reader' = [reader EXCEPT ![x] = state]
          /\ state.saw = saw
          /\ \/ state.at = "ended" /\ state.pass = old.pass
             \/ state.at = "open" /\ state.pass = old.pass + 1 /\ old.pass # Len(Passes(x))
    <3> DEFINE last == old.pass = Len(Passes(x))
               next == [at |-> IF last THEN "ended" ELSE "open",
                        pass |-> IF last THEN old.pass ELSE old.pass + 1,
                        opened |-> Absent,
                        saw |-> saw]
    <3>1. next \in ReaderState
      BY <2>1 DEF ReaderState
    <3>2. reader' = [reader EXCEPT ![x] = next]
      BY <1>5, <2>2 DEF FinishPass, Becomes, Found
    <3>3. QED  BY <3>1, <3>2
  <2>9. SentInv'
    BY <1>2, <2>1, <2>8, SentKept
  <2>10. /\ state.pass \in 1 .. Len(Passes(x)) /\ state.at # "read"
         /\ Len(state.saw) = IF state.at = "ended" THEN state.pass ELSE state.pass - 1
    <3>1. old.pass \in 1 .. Len(Passes(x))
      BY <1>1
    <3>2. QED  BY <2>1, <2>3, <2>8, <3>1
  <2>11. QED
    BY <1>2, <2>5, <2>7, <2>8, <2>9, <2>10, ReaderStep
<1>6. QED  BY <1>3, <1>4, <1>5 DEF Extraction

LEMMA TriggerKept ==
  ASSUME ExtractInv, NEW t \in Triggers,
         StartTrigger(t) \/ PostExtract(t) \/ LoseExtract(t)
  PROVE  ExtractInv'
<1>1. /\ sent \in [Triggers -> 0 .. 4] /\ reader \in [Readers -> ReaderState]
      /\ \A x \in Readers : /\ x[1] \in Triggers /\ x[2] \in 1 .. 3
                            /\ sent[x[1]] <= x[2] => reader[x].at = "none"
  BY DEF ExtractInv, SentInv, ReaderInv, Readers, Requests
<1>2. /\ sent[t] \in 0 .. 3 /\ sent' = [sent EXCEPT ![t] = sent[t] + 1]
      /\ UNCHANGED <<vars, results, blocked>>
  BY DEF StartTrigger, PostExtract, LoseExtract, Requests
<1>3. /\ sent' \in [Triggers -> 0 .. 4]
      /\ \A u \in Triggers : sent[u] <= sent'[u]
      /\ sent'[t] = sent[t] + 1
  BY <1>1, <1>2
<1>4. CASE UNCHANGED reader
  <2>1. SentInv'
    BY <1>1, <1>3, <1>4 DEF SentInv
  <2>2. ResultsInv' /\ SawInv' /\ CompleteStaysComplete'
    <3>1. UNCHANGED <<proc, results, reader>>
      BY <1>2, <1>4 DEF vars
    <3>2. ResultsInv'
      BY <3>1 DEF ExtractInv, ResultsInv, Genuine, Ended, Running, At
    <3>3. SawInv' /\ CompleteStaysComplete'
      BY <3>1 DEF ExtractInv, SawInv, CompleteStaysComplete, Ended, At
    <3>4. QED  BY <3>2, <3>3
  <2>3. ReaderInv' /\ OwnResultsInv'
    BY <1>2, <1>4
       DEF ExtractInv, ReaderInv, OwnResultsInv, vars, Running, Emptied, At, Apart,
           DistinctDirs, Reading, Found, DirRead, FileRead
  <2>4. QED  BY <1>2, <2>1, <2>2, <2>3 DEF ExtractInv
<1>5. CASE PostExtract(t) /\ reader' # reader
  <2>1. PICK x \in Readers : x = <<t, sent[t]>>
    BY <1>5 DEF PostExtract, Readers
  <2>2. /\ reader' = [reader EXCEPT ![x] = [reader[x] EXCEPT !.at = "config"]]
        /\ x[1] = t /\ x[2] = sent[t]
    BY <1>5, <2>1 DEF PostExtract
  <2>3. /\ reader[x] \in ReaderState
        /\ Steady(reader[x].saw) /\ Sound(reader[x].saw)
        /\ reader[x].pass \in 1 .. Len(Passes(x))
        /\ Len(reader[x].saw) = IF reader[x].at = "ended" THEN reader[x].pass
                                ELSE reader[x].pass - 1
    BY ReaderBefore
  <2>4. PICK state \in ReaderState : state = [reader[x] EXCEPT !.at = "config"]
    BY <2>3 DEF ReaderState
  <2>5. /\ state.at = "config" /\ state.pass = reader[x].pass
        /\ state.saw = reader[x].saw /\ reader[x].at = "none"
    <3>1. reader[x].at = "none"
      BY <1>1, <2>2
    <3>2. QED  BY <2>3, <2>4, <3>1 DEF ReaderState
  <2>6. reader' = [reader EXCEPT ![x] = state]
    BY <2>2, <2>4
  <2>7. SentInv'
    <3>1. ASSUME NEW y \in Readers, sent'[y[1]] <= y[2] PROVE reader'[y].at = "none"
      <4>1. y # x
        BY <1>1, <1>3, <2>2, <3>1
      <4>2. sent[y[1]] <= y[2]
        BY <1>1, <1>3, <3>1
      <4>3. QED  BY <1>1, <2>6, <4>1, <4>2
    <3>2. QED  BY <1>3, <3>1 DEF SentInv
  <2>8. UNCHANGED <<proc, results, blocked>>
    BY <1>2 DEF vars
  <2>9. QED  BY <2>3, <2>5, <2>6, <2>7, <2>8, ReaderStep
<1>6. QED  BY <1>4, <1>5 DEF StartTrigger, PostExtract, LoseExtract

-----------------------------------------------------------------------------
(* All steps.                                                              *)

LEMMA ExtractStep ==
  TypeInv /\ OrderInv /\ ExtractInv /\ [ExtractNext]_allVars
    => TypeInv' /\ OrderInv' /\ ExtractInv'
<1> SUFFICES ASSUME TypeInv, OrderInv, ExtractInv, [ExtractNext]_allVars
             PROVE  TypeInv' /\ OrderInv' /\ ExtractInv'
  OBVIOUS
<1>1. ASSUME [Next]_vars PROVE TypeInv' /\ OrderInv'
  BY <1>1, TypeNext, OrderNext
<1>2. CASE UNCHANGED allVars
  <2>1. UNCHANGED vars /\ UNCHANGED extractVars
    BY <1>2 DEF allVars
  <2>2. \A q \in Runs : SamePhase(q)
    BY <2>1 DEF vars, SamePhase, Emptied, Running, Ended, At
  <2>3. QED  BY <1>1, <2>1, <2>2, QuietKept
<1>3. ASSUME NEW r \in Runs, HostProcess(r)
      PROVE  TypeInv' /\ OrderInv' /\ ExtractInv'
  <2>1. CASE RemoveHeld(r)
    BY <2>1, HeldKept
  <2>2. CASE ~RemoveHeld(r)
    <3>1. Next
      BY <1>3, <2>2 DEF HostProcess, RemoveUnheld, ModelStarts, ModelStops, Beside, Next,
                        Process
    <3>2. ExtractInv'
      BY <1>3, <2>2, UnheldKept, StartKept, StopKept, BesideKept DEF HostProcess
    <3>3. QED  BY <1>1, <3>1, <3>2
  <2>3. QED  BY <2>1, <2>2
<1>4. CASE (ServerStops \/ ServerStarts) /\ UNCHANGED extractVars
  <2>1. \A q \in Runs : SamePhase(q)
    BY <1>4 DEF ServerStops, ServerStarts, SamePhase, Emptied, Running, Ended, At
  <2>2. QED  BY <1>1, <1>4, <2>1, QuietKept DEF Next
<1>5. ASSUME NEW t \in Triggers, StartTrigger(t) \/ PostExtract(t) \/ LoseExtract(t)
      PROVE  TypeInv' /\ OrderInv' /\ ExtractInv'
  <2>1. UNCHANGED vars
    BY <1>5 DEF StartTrigger, PostExtract, LoseExtract
  <2>2. QED  BY <1>1, <1>5, <2>1, TriggerKept
<1>6. ASSUME NEW x \in Readers, Extraction(x)
      PROVE  TypeInv' /\ OrderInv' /\ ExtractInv'
  <2>1. UNCHANGED vars
    BY <1>6 DEF Extraction, ReadConfig, OpenResult, FinishPass, Becomes
  <2>2. QED  BY <1>1, <1>6, <2>1, ExtractionKept
<1>7. QED  BY <1>2, <1>3, <1>4, <1>5, <1>6 DEF ExtractNext

LEMMA ExtractInvariance == ExtractSpec => [](TypeInv /\ OrderInv /\ ExtractInv)
BY ExtractInitial, ExtractStep, PTL DEF ExtractSpec

\* The state of the extraction has its type; above all, a pass that was finished
\* has seen a file that was there.
THEOREM ExtractTypeCorrect == ExtractSpec => []ExtractTypeOK
<1>1. ExtractInv => ExtractTypeOK
  <2> SUFFICES ASSUME ExtractInv PROVE ExtractTypeOK
    OBVIOUS
  <2>1. ASSUME NEW x \in Readers
        PROVE  /\ reader[x].at \in {"none", "config", "open", "read", "ended", "failed"}
               /\ reader[x].pass \in 1 .. Len(Passes(x))
               /\ reader[x].opened \in Runs \cup {Absent}
               /\ Len(reader[x].saw) <= Len(Passes(x))
               /\ \A i \in DOMAIN reader[x].saw : reader[x].saw[i] \in Result \ {NoResult}
    <3>1. /\ reader[x] \in ReaderState /\ Sound(reader[x].saw)
          /\ reader[x].pass \in 1 .. Len(Passes(x))
          /\ Len(reader[x].saw) = IF reader[x].at = "ended" THEN reader[x].pass
                                  ELSE reader[x].pass - 1
      BY ReaderBefore
    <3>2. reader[x].saw \in Seq(Result)
      BY <3>1 DEF ReaderState
    <3>3. \A i \in DOMAIN reader[x].saw : reader[x].saw[i] \in Result
      BY <3>2
    <3>4. Len(reader[x].saw) <= Len(Passes(x))
      BY <3>1, PassesShape
    <3>5. QED  BY <3>1, <3>3, <3>4 DEF ReaderState, Sound
  <2>2. QED  BY <2>1 DEF ExtractInv, ExtractTypeOK, ResultsInv, SentInv
<1>2. QED  BY <1>1, ExtractInvariance, PTL

\* Where no two processes work in one directory, a pass reads the file of one
\* run from its opening to its end.
THEOREM OneRunPerPass == ExtractSpec => []PassReadsOneRun
<1>1. ExtractInv => PassReadsOneRun
  BY DEF ExtractInv, OwnResultsInv, PassReadsOneRun, Apart, Found
<1>2. QED  BY <1>1, ExtractInvariance, PTL

\* A program that saw the complete file of a run never sees that run cut short
\* afterwards, whatever is interleaved and however runs share directories.
THEOREM CompleteKept == ExtractSpec => []CompleteStaysComplete
BY ExtractInvariance, PTL DEF ExtractInv
=============================================================================
