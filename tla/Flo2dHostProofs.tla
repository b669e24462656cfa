--------------------------- MODULE Flo2dHostProofs ---------------------------
(***************************************************************************)
(* Theorems about Flo2dHost, for any number of runs and directories, every *)
(* pacing and every bound.                                                 *)
(***************************************************************************)
EXTENDS Flo2dHost, TLAPS

-----------------------------------------------------------------------------
(* Type correctness.                                                       *)

DirEntry == [kind : {"absent", "dir", "file"},
             templates : BOOLEAN,
             files : [Files -> Content]]

\* Whatever is put into a directory entry, it remains one.
LEMMA PutTyped ==
  ASSUME NEW entry \in DirEntry, NEW f \in Files, NEW c \in Content
  PROVE  Put(entry, f, c) \in DirEntry
<1>1. NoFiles \in [Files -> Content]
  BY DEF NoFiles, Content
<1>2. CASE entry.kind = "dir"
  BY <1>2 DEF Put, DirEntry
<1>3. CASE entry.kind # "dir"
  BY <1>1, <1>3 DEF Put, DirEntry
<1>4. QED  BY <1>2, <1>3

\* Going on to the next file, or to the launch, keeps the process table typed.
LEMMA NextFileTyped ==
  ASSUME TypeOK, NEW r \in Runs, NextFile(r)
  PROVE  proc' \in [Runs -> [pc : {"none", "remove", "make", "copy", "move",
                                   "unlink", "launch", "running"} \cup Over,
                             file : Files]]
BY DEF TypeOK, NextFile, Files, RunJson, Over

\* The handler serves a run that has a post under way, and only while the
\* server is up.
HandlerOK ==
  /\ ~up => handler.at = "idle"
  /\ handler.at = "idle" <=> handler.run = Absent
  /\ handler.at # "idle" => Posting(handler.run)
  /\ handler.at = "spawn" => post[handler.run] = RunJson

TypeInv == TypeOK /\ HandlerOK

LEMMA TypeInit == Init => TypeInv
BY HostAssumption
   DEF Init, TypeInv, TypeOK, HandlerOK, NoFiles, NoDir, Idle, Content, Files, Over

\* Steps of the clients and of the server.
LEMMA TypeServer ==
  ASSUME TypeInv, NEW r \in Runs,
         \/ StartRun(r) \/ LosePost(r) \/ BeginPost(r)
         \/ FinishPost(r) \/ SpawnModel(r) \/ SpawnFails(r)
  PROVE  TypeInv'
<1> USE HostAssumption DEF TypeInv, TypeOK, HandlerOK, Posting, Files, Content,
        clientVars, serverVars, Idle, RunJson, Over
<1>1. CASE StartRun(r)
  <2>1. ASSUME handler.at # "idle" PROVE handler.run \in Runs /\ handler.run # r
    BY <1>1, <2>1 DEF StartRun
  <2>2. QED  BY <1>1, <2>1 DEF StartRun
<1>2. CASE LosePost(r)
  BY <1>2 DEF LosePost
<1>3. CASE BeginPost(r)
  BY <1>3 DEF BeginPost
<1>4. CASE FinishPost(r)
  <2>1. /\ stage' \in [Files -> Content] /\ r # Absent
        /\ handler.run = r /\ handler.at = "write" /\ post[r] \in 1 .. 4 /\ up
    BY <1>4 DEF FinishPost
  <2>2. CASE post[r] = 4
    BY <1>4, <2>1, <2>2 DEF FinishPost
  <2>3. CASE post[r] # 4
    <3>1. Reply(r, TRUE) /\ UNCHANGED <<up, stops, dirs, proc>>
      BY <1>4, <2>3 DEF FinishPost
    <3>2. /\ post' \in [Runs -> 0 .. 5]
          /\ acked' \in [Runs -> SUBSET (1 .. 4)]
          /\ handler' = Idle
      BY <2>1, <3>1 DEF Reply
    <3>3. QED  BY <2>1, <3>1, <3>2
  <2>4. QED  BY <2>2, <2>3
<1>5. CASE SpawnModel(r)
  BY <1>5 DEF SpawnModel, Reply
<1>6. CASE SpawnFails(r)
  BY <1>6 DEF SpawnFails, Reply
<1>7. QED  BY <1>1, <1>2, <1>3, <1>4, <1>5, <1>6

\* The server goes down and comes up.
LEMMA TypeUpDown ==
  ASSUME TypeInv, ServerStops \/ ServerStarts
  PROVE  TypeInv'
<1> USE HostAssumption DEF TypeInv, TypeOK, HandlerOK, Posting, Files, Idle
<1>1. CASE ServerStops
  <2>1. \A r \in Runs : Serving(r) => post[r] \in 1 .. 4
    BY DEF Serving
  <2>2. post' \in [Runs -> 0 .. 5]
    BY <1>1, <2>1 DEF ServerStops
  <2>3. stops' \in 0 .. MaxStops
    BY <1>1 DEF ServerStops
  <2>4. QED  BY <1>1, <2>2, <2>3 DEF ServerStops
<1>2. CASE ServerStarts
  BY <1>2 DEF ServerStarts, clientVars
<1>3. QED  BY <1>1, <1>2

\* Steps of a Run_FLO2D.py process.
LEMMA TypeProcess ==
  ASSUME TypeInv, NEW r \in Runs, Process(r)
  PROVE  TypeInv'
<1> DEFINE d == DirOf[r]
           f == proc[r].file
<1>1. d \in Dirs /\ f \in Files /\ dirs[d] \in DirEntry
  BY HostAssumption DEF TypeInv, TypeOK, DirEntry
<1>2. SUFFICES /\ UNCHANGED <<post, acked, up, stops, handler>>
               /\ stage' \in [Files -> Content]
               /\ dirs' \in [Dirs -> DirEntry]
               /\ proc' \in [Runs -> [pc : {"none", "remove", "make", "copy",
                                            "move", "unlink", "launch",
                                            "running"} \cup Over,
                                      file : Files]]
  BY DEF TypeInv, TypeOK, HandlerOK, Posting, DirEntry
<1>3. ASSUME NEW pc \in {"make", "copy", "failed", "unlink", "running", "ended"},
             Goto(r, pc)
      PROVE  proc' \in [Runs -> [pc : {"none", "remove", "make", "copy",
                                       "move", "unlink", "launch",
                                       "running"} \cup Over,
                                 file : Files]]
  BY <1>3 DEF Goto, TypeInv, TypeOK, Over
<1> USE <1>1, <1>3 DEF TypeInv, TypeOK, clientVars, serverVars, DirEntry
<1>4. CASE RemoveDir(r)
  <2>1. NoDir \in DirEntry
    BY DEF NoDir, NoFiles, Content
  <2>2. ASSUME NEW kept \in SUBSET Files
        PROVE  KeepOnly(dirs[d], kept) \in DirEntry
    BY DEF Content, KeepOnly
  <2>3. dirs' \in [Dirs -> DirEntry]
    <3>1. CASE UNCHANGED dirs
      BY <3>1
    <3>2. ASSUME NEW entry \in DirEntry, dirs' = [dirs EXCEPT ![d] = entry]
          PROVE  dirs' \in [Dirs -> DirEntry]
      BY <3>2
    <3>3. \/ UNCHANGED dirs
          \/ dirs' = [dirs EXCEPT ![d] = NoDir]
          \/ \E kept \in SUBSET Files :
               dirs' = [dirs EXCEPT ![d] = KeepOnly(dirs[d], kept)]
      BY <1>4 DEF RemoveDir
    <3>4. QED  BY <2>1, <2>2, <3>1, <3>2, <3>3
  <2>4. QED  BY <1>4, <2>3 DEF RemoveDir
<1>5. CASE MakeDir(r)
  BY <1>5 DEF MakeDir
<1>6. CASE CopyTemplates(r)
  <2>1. dirs' \in [Dirs -> DirEntry]
    <3>1. [kind |-> "dir", templates |-> TRUE, files |-> dirs[d].files] \in DirEntry
      OBVIOUS
    <3>2. \/ UNCHANGED dirs
          \/ dirs' = [dirs EXCEPT ![d] = [kind |-> "dir", templates |-> TRUE,
                                         files |-> dirs[d].files]]
      BY <1>6 DEF CopyTemplates
    <3>3. QED  BY <3>1, <3>2
  <2>2. proc' \in [Runs -> [pc : {"none", "remove", "make", "copy", "move",
                                 "unlink", "launch", "running"} \cup Over,
                           file : Files]]
    <3>1. 1 \in Files
      BY DEF Files
    <3>2. CASE proc' = [proc EXCEPT ![r] = [pc |-> "move", file |-> 1]]
      BY <3>1, <3>2
    <3>3. CASE Goto(r, "failed")
      BY <3>3
    <3>4. QED  BY <1>6, <3>2, <3>3 DEF CopyTemplates
  <2>3. QED  BY <1>6, <2>1, <2>2 DEF CopyTemplates
<1>7. CASE MoveInput(r)
  <2>1. Put(dirs[d], f, stage[f]) \in DirEntry
    BY PutTyped
  <2>2. proc' \in [Runs -> [pc : {"none", "remove", "make", "copy", "move",
                                 "unlink", "launch", "running"} \cup Over,
                           file : Files]]
    BY <1>7, NextFileTyped DEF MoveInput
  <2>3. QED  BY <1>7, <2>1, <2>2 DEF MoveInput, Content
<1>8. CASE CopyOpenInput(r)
  <2>1. Put(dirs[d], f, Cut) \in DirEntry
    BY PutTyped DEF Content
  <2>2. QED  BY <1>8, <2>1 DEF CopyOpenInput
<1>9. CASE UnlinkSource(r)
  BY <1>9, NextFileTyped DEF UnlinkSource, Content
<1>10. CASE MoveFails(r)
  BY <1>10 DEF MoveFails
<1>11. CASE Launch(r)
  BY <1>11 DEF Launch
<1>12. CASE ModelEnds(r)
  BY <1>12 DEF ModelEnds
<1>13. QED
  BY <1>4, <1>5, <1>6, <1>7, <1>8, <1>9, <1>10, <1>11, <1>12 DEF Process

LEMMA TypeNext == TypeInv /\ [Next]_vars => TypeInv'
<1>1. SUFFICES ASSUME TypeInv, [Next]_vars PROVE TypeInv'
  OBVIOUS
<1>2. CASE UNCHANGED vars
  BY <1>1, <1>2 DEF TypeInv, TypeOK, HandlerOK, Posting, vars
<1>3. ASSUME NEW r \in Runs, StartRun(r) \/ Client(r) \/ Handler(r)
      PROVE  TypeInv'
  BY <1>1, <1>3, TypeServer DEF Client, Handler
<1>4. ASSUME NEW r \in Runs, Process(r) PROVE TypeInv'
  BY <1>1, <1>4, TypeProcess
<1>5. CASE ServerStops \/ ServerStarts
  BY <1>1, <1>5, TypeUpDown
<1>6. QED  BY <1>1, <1>2, <1>3, <1>4, <1>5 DEF Next

LEMMA TypeInvariance == Spec => []TypeInv
BY TypeInit, TypeNext, PTL DEF Spec

\* The state of the host has its type, through every stop of the server and
\* every failure of a process.
THEOREM TypeCorrect == Spec => []TypeOK
BY TypeInvariance, PTL DEF TypeInv

-----------------------------------------------------------------------------
(* An input lies in one place at most.                                     *)

\* Under the name f nothing new appears.
Shrinks(f) ==
  /\ stage'[f] \in {stage[f], Absent}
  /\ \A d \in Dirs : dirs'[d].files[f] \in {dirs[d].files[f], Absent, Cut}

\* What is staged as f goes to one directory.
Moves(f) ==
  /\ stage'[f] = Absent
  /\ \E d \in Dirs :
       /\ dirs'[d].files[f] = stage[f]
       /\ \A e \in Dirs \ {d} : dirs'[e].files[f] = dirs[e].files[f]

LEMMA PutFiles ==
  ASSUME NEW entry \in DirEntry, NEW f \in Files, NEW c \in Content
  PROVE  /\ Put(entry, f, c).files[f] = c
         /\ \A g \in Files \ {f} :
              Put(entry, f, c).files[g] \in {entry.files[g], Absent}
BY DEF Put, DirEntry, NoFiles

\* A process adds nothing, or moves one staged input.
LEMMA ProcessEffect ==
  ASSUME TypeInv, NEW r \in Runs, Process(r)
  PROVE  /\ UNCHANGED <<post, acked, up, stops, handler>>
         /\ \/ \A f \in Files : Shrinks(f)
            \/ \E f \in Files :
                 /\ Moves(f)
                 /\ \A g \in Files \ {f} : Shrinks(g) /\ stage'[g] = stage[g]
<1> DEFINE d == DirOf[r]
           f == proc[r].file
<1>1. d \in Dirs /\ f \in Files /\ dirs[d] \in DirEntry
  BY HostAssumption DEF TypeInv, TypeOK, DirEntry
<1>2. stage \in [Files -> Content] /\ dirs \in [Dirs -> DirEntry]
  BY DEF TypeInv, TypeOK, DirEntry
<1>3. UNCHANGED <<post, acked, up, stops, handler>>
  BY DEF Process, RemoveDir, MakeDir, CopyTemplates, MoveInput, CopyOpenInput,
         UnlinkSource, MoveFails, Launch, ModelEnds, clientVars, serverVars
<1>4. ASSUME NEW entry,
             \A g \in Files : entry.files[g] \in {dirs[d].files[g], Absent, Cut},
             dirs' = [dirs EXCEPT ![d] = entry],
             UNCHANGED stage
      PROVE  \A g \in Files : Shrinks(g)
  BY <1>1, <1>2, <1>4 DEF Shrinks
<1>5. CASE UNCHANGED <<stage, dirs>>
  BY <1>3, <1>5 DEF Shrinks
<1>6. CASE RemoveDir(r)
  <2>1. CASE dirs' = [dirs EXCEPT ![d] = NoDir]
    <3>1. \A g \in Files : NoDir.files[g] \in {dirs[d].files[g], Absent, Cut}
      BY DEF NoDir, NoFiles
    <3>2. UNCHANGED stage
      BY <1>6 DEF RemoveDir
    <3>3. QED  BY <1>3, <1>4, <2>1, <3>1, <3>2
  <2>2. ASSUME NEW kept \in SUBSET Files,
               dirs' = [dirs EXCEPT ![d] = KeepOnly(dirs[d], kept)]
        PROVE  \A g \in Files : Shrinks(g)
    <3>1. \A g \in Files :
            KeepOnly(dirs[d], kept).files[g] \in {dirs[d].files[g], Absent, Cut}
      BY <1>1 DEF KeepOnly, DirEntry
    <3>2. QED  BY <1>4, <1>6, <2>2, <3>1 DEF RemoveDir
  <2>3. /\ UNCHANGED stage
        /\ \/ UNCHANGED dirs
           \/ dirs' = [dirs EXCEPT ![d] = NoDir]
           \/ \E kept \in SUBSET Files :
                dirs' = [dirs EXCEPT ![d] = KeepOnly(dirs[d], kept)]
    BY <1>6 DEF RemoveDir
  <2>4. QED  BY <1>3, <1>5, <2>1, <2>2, <2>3
<1>7. CASE MakeDir(r)
  <2>1. dirs' = [dirs EXCEPT ![d] = [dirs[d] EXCEPT !.kind =
                    IF dirs[d].kind = "absent" THEN "dir" ELSE dirs[d].kind]]
    BY <1>7 DEF MakeDir
  <2>2. [dirs[d] EXCEPT !.kind = IF dirs[d].kind = "absent" THEN "dir"
                                 ELSE dirs[d].kind].files = dirs[d].files
    BY <1>1 DEF DirEntry
  <2>3. QED  BY <1>3, <1>4, <1>7, <2>1, <2>2 DEF MakeDir
<1>8. CASE CopyTemplates(r)
  BY <1>3, <1>4, <1>5, <1>8 DEF CopyTemplates
<1>9. CASE MoveInput(r)
  <2>1. stage[f] \in Content /\ stage' = [stage EXCEPT ![f] = Absent]
    BY <1>1, <1>2, <1>9 DEF MoveInput
  <2>2. dirs' = [dirs EXCEPT ![d] = Put(dirs[d], f, stage[f])]
    BY <1>9 DEF MoveInput
  <2>3. Moves(f)
    <3>1. stage'[f] = Absent /\ dirs'[d].files[f] = stage[f]
      BY <1>1, <1>2, <2>1, <2>2, PutFiles
    <3>2. \A e \in Dirs \ {d} : dirs'[e] = dirs[e]
      BY <1>2, <2>2
    <3> HIDE DEF d, f
    <3>3. QED  BY <1>1, <3>1, <3>2 DEF Moves
  <2>4. \A g \in Files \ {f} : Shrinks(g) /\ stage'[g] = stage[g]
    BY <1>1, <1>2, <2>1, <2>2, PutFiles DEF Shrinks
  <2>5. QED  BY <1>1, <1>3, <2>3, <2>4
<1>10. CASE CopyOpenInput(r)
  <2>1. \A g \in Files :
          Put(dirs[d], f, Cut).files[g] \in {dirs[d].files[g], Absent, Cut}
    BY <1>1, PutFiles DEF Content
  <2>2. QED  BY <1>3, <1>4, <1>10, <2>1 DEF CopyOpenInput
<1>11. CASE UnlinkSource(r)
  BY <1>1, <1>2, <1>3, <1>11 DEF UnlinkSource, Shrinks
<1>12. CASE MoveFails(r) \/ Launch(r) \/ ModelEnds(r)
  BY <1>5, <1>12 DEF MoveFails, Launch, ModelEnds
<1>13. QED
  BY <1>6, <1>7, <1>8, <1>9, <1>10, <1>11, <1>12 DEF Process

\* An input that was not sent yet is nowhere on the host.
UnsentNowhere ==
  \A r \in Runs, f \in Files :
    ~Sent(r, f) => stage[f] # r /\ \A d \in Dirs : dirs[d].files[f] # r

PlaceInv == AtMostOnePlace /\ UnsentNowhere

\* The steps that leave staging and model directories alone only send more.
LEMMA PlaceQuiet ==
  ASSUME PlaceInv, UNCHANGED <<stage, dirs>>,
         \A r \in Runs, f \in Files : Sent(r, f) => Sent(r, f)'
  PROVE  PlaceInv'
BY DEF PlaceInv, AtMostOnePlace, UnsentNowhere

LEMMA PlaceNext == TypeInv /\ PlaceInv /\ [Next]_vars => PlaceInv'
<1> SUFFICES ASSUME TypeInv, PlaceInv, [Next]_vars PROVE PlaceInv'
  OBVIOUS
<1> USE HostAssumption
<1>1. /\ post \in [Runs -> 0 .. 5] /\ stage \in [Files -> Content]
      /\ RunJson \in Files /\ Files \subseteq Nat
      /\ \A r \in Runs : r # Cut /\ r # Absent
  BY DEF TypeInv, TypeOK, RunJson, Files
<1>2. CASE UNCHANGED vars
  BY <1>2, PlaceQuiet DEF vars, Sent
<1>3. ASSUME NEW r \in Runs, StartRun(r) \/ LosePost(r)
      PROVE  PlaceInv'
  BY <1>1, <1>3, PlaceQuiet DEF StartRun, LosePost, Sent, serverVars
<1>4. ASSUME NEW r \in Runs, SpawnModel(r) \/ SpawnFails(r)
      PROVE  PlaceInv'
  <2>1. /\ handler = [run |-> r, at |-> "spawn"]
        /\ post' = [post EXCEPT ![r] = @ + 1] /\ UNCHANGED <<stage, dirs>>
    BY <1>4 DEF SpawnModel, SpawnFails, Reply
  <2>2. handler.run = r /\ handler.at = "spawn"
    BY <2>1
  <2>3. post[r] = RunJson
    BY <2>2 DEF TypeInv, HandlerOK
  <2>4. QED  BY <1>1, <2>1, <2>2, <2>3, PlaceQuiet DEF Sent
<1>5. CASE ServerStops
  <2>1. \A r \in Runs : handler = [run |-> r, at |-> "spawn"] =>
                        Serving(r) /\ post[r] = RunJson
    BY DEF TypeInv, HandlerOK, Serving
  <2>2. QED  BY <1>1, <1>5, <2>1, PlaceQuiet DEF ServerStops, Sent
<1>6. CASE ServerStarts
  BY <1>6, PlaceQuiet DEF ServerStarts, Sent, clientVars
<1>7. ASSUME NEW r \in Runs, BeginPost(r)
      PROVE  PlaceInv'
  <2>1. post[r] \in Files /\ stage' = [stage EXCEPT ![post[r]] = Cut]
    BY <1>7 DEF BeginPost, Posting
  <2>2. \A q \in Runs, f \in Files : Sent(q, f) => Sent(q, f)'
    BY <1>7 DEF BeginPost, Sent, clientVars, Idle
  <2>3. UNCHANGED dirs
    BY <1>7 DEF BeginPost
  <2>4. QED
    BY <1>1, <2>1, <2>2, <2>3 DEF PlaceInv, AtMostOnePlace, UnsentNowhere
<1>8. ASSUME NEW r \in Runs, FinishPost(r)
      PROVE  PlaceInv'
  <2>1. /\ handler = [run |-> r, at |-> "write"]
        /\ post[r] \in Files /\ stage' = [stage EXCEPT ![post[r]] = r]
        /\ UNCHANGED dirs
    BY <1>8 DEF FinishPost, TypeInv, HandlerOK, Posting
  <2>2. \A q \in Runs, f \in Files : Sent(q, f) => Sent(q, f)'
    BY <1>1, <1>8, <2>1 DEF FinishPost, Reply, Sent, clientVars
  <2>3. ~Sent(r, post[r])
    BY <1>1, <2>1 DEF Sent
  <2>4. ASSUME NEW f \in Files, f = post[r] PROVE Sent(r, f)'
    <3>1. CASE post[r] = RunJson
      BY <1>8, <2>4, <3>1 DEF FinishPost, Sent
    <3>2. CASE post[r] # RunJson
      <4>1. post'[r] = post[r] + 1
        BY <1>1, <1>8, <3>2 DEF FinishPost, Reply
      <4>2. QED  BY <1>1, <2>1, <2>4, <4>1 DEF Sent
    <3>3. QED  BY <3>1, <3>2
  <2>5. ASSUME NEW q \in Runs, NEW f \in Files
        PROVE  stage'[f] = q => stage[f] = q \/ (q = r /\ f = post[r])
    BY <1>1, <2>1
  <2>6. AtMostOnePlace'
    BY <2>1, <2>3, <2>5 DEF PlaceInv, AtMostOnePlace, UnsentNowhere
  <2>7. UnsentNowhere'
    BY <2>1, <2>2, <2>4, <2>5 DEF PlaceInv, UnsentNowhere
  <2>8. QED  BY <2>6, <2>7 DEF PlaceInv
<1>9. ASSUME NEW r \in Runs, Process(r)
      PROVE  PlaceInv'
  <2>1. \A q \in Runs, f \in Files : Sent(q, f)' <=> Sent(q, f)
    BY <1>9, ProcessEffect DEF Sent
  <2>2. \A f \in Files : Shrinks(f) \/ Moves(f)
    BY <1>9, ProcessEffect
  <2>3. AtMostOnePlace'
    BY <1>1, <2>2 DEF PlaceInv, AtMostOnePlace, Shrinks, Moves
  <2>4. ASSUME NEW q \in Runs, NEW f \in Files, ~Sent(q, f)'
        PROVE  stage'[f] # q /\ \A d \in Dirs : dirs'[d].files[f] # q
    <3>1. ~Sent(q, f)
      BY <2>1, <2>4
    <3>2. /\ stage[f] # q /\ \A d \in Dirs : dirs[d].files[f] # q
          /\ q # Cut /\ q # Absent
      BY <1>1, <3>1 DEF PlaceInv, UnsentNowhere
    <3>3. CASE Shrinks(f)
      BY <3>2, <3>3 DEF Shrinks
    <3>4. CASE Moves(f)
      BY <3>2, <3>4 DEF Moves
    <3>5. QED  BY <2>2, <3>3, <3>4
  <2>5. UnsentNowhere'
    BY <2>4 DEF UnsentNowhere
  <2>6. QED  BY <2>3, <2>5 DEF PlaceInv
<1>10. QED
  BY <1>2, <1>3, <1>4, <1>5, <1>6, <1>7, <1>8, <1>9 DEF Next, Client, Handler

\* Whatever is interleaved, a posted input lies in one place at most: no two
\* models ever hold it, and none holds it while it is still staged.
THEOREM OnePlace == Spec => []AtMostOnePlace
<1>1. Init => PlaceInv
  BY HostAssumption DEF Init, PlaceInv, AtMostOnePlace, UnsentNowhere, NoFiles, NoDir
<1>2. QED  BY <1>1, TypeInvariance, PlaceNext, PTL DEF Spec, PlaceInv

-----------------------------------------------------------------------------
(* A directory for each run.                                               *)

\* A process changes its own entry of the process table and its own directory.
LEMMA OwnOnly ==
  ASSUME TypeInv, NEW r \in Runs, Process(r)
  PROVE  /\ \A d \in Dirs : d # DirOf[r] => dirs'[d] = dirs[d]
         /\ \A q \in Runs : q # r => proc'[q] = proc[q]
<1>1. dirs = [d \in Dirs |-> dirs[d]] /\ proc = [q \in Runs |-> proc[q]]
  BY DEF TypeInv, TypeOK
<1>2. CASE RemoveDir(r)
  BY <1>1, <1>2 DEF RemoveDir, Goto
<1>3. CASE MakeDir(r) \/ CopyTemplates(r)
  BY <1>1, <1>3 DEF MakeDir, CopyTemplates, Goto
<1>4. CASE MoveInput(r) \/ CopyOpenInput(r) \/ UnlinkSource(r)
  BY <1>1, <1>4 DEF MoveInput, CopyOpenInput, UnlinkSource, NextFile, Goto
<1>5. CASE MoveFails(r) \/ Launch(r) \/ ModelEnds(r)
  BY <1>1, <1>5 DEF MoveFails, Launch, ModelEnds, Goto
<1>6. QED  BY <1>2, <1>3, <1>4, <1>5 DEF Process

\* Whoever is not a process leaves directories and processes alone, but for the
\* process it spawns.
LEMMA ServerLeavesDirs ==
  ASSUME TypeInv, NEW r \in Runs,
         \/ StartRun(r) \/ Client(r) \/ Handler(r)
         \/ ServerStops \/ ServerStarts
  PROVE  /\ UNCHANGED dirs
         /\ \/ UNCHANGED proc
            \/ proc' = [proc EXCEPT ![r] = [pc |-> "remove", file |-> 1]]
BY DEF StartRun, Client, BeginPost, LosePost, Handler, FinishPost, SpawnModel,
       SpawnFails, ServerStops, ServerStarts

\* With a directory for each run, what a running model reads is not touched by
\* the steps of any other run, nor by the server.
THEOREM Undisturbed == Spec => UndisturbedModel
<1> DEFINE Step == DistinctDirs => \A r \in Runs : Running(r) =>
                                     dirs'[DirOf[r]] = dirs[DirOf[r]]
<1>1. TypeInv /\ [Next]_vars => [Step]_vars
  <2> SUFFICES ASSUME TypeInv, Next, DistinctDirs, NEW r \in Runs, Running(r)
               PROVE  dirs'[DirOf[r]] = dirs[DirOf[r]]
    BY DEF vars
  <2>1. ASSUME NEW q \in Runs, Process(q), q # r
        PROVE  dirs'[DirOf[r]] = dirs[DirOf[r]]
    <3>1. DirOf[r] \in Dirs /\ DirOf[r] # DirOf[q]
      BY <2>1, HostAssumption DEF DistinctDirs
    <3>2. QED  BY <2>1, <3>1, OwnOnly
  <2>2. CASE Process(r)
    BY <2>2 DEF Process, Running, At, RemoveDir, MakeDir, CopyTemplates, MoveInput,
                CopyOpenInput, UnlinkSource, MoveFails, Launch, ModelEnds
  <2>3. CASE ~ \E q \in Runs : Process(q)
    BY <2>3, ServerLeavesDirs DEF Next
  <2>4. QED  BY <2>1, <2>2, <2>3
<1>2. QED  BY <1>1, TypeInvariance, PTL DEF Spec, UndisturbedModel

-----------------------------------------------------------------------------
(* Flo2dHost implements InputHandoff.                                      *)

\* What the handler has open holds a part of a body: neither a model process
\* nor another request replaces it before it is written.
OpenInv == handler.at = "write" => stage[post[handler.run]] = Cut

\* A process takes no file away that the handler has open.
LEMMA OpenStays ==
  ASSUME TypeInv, OpenInv, NEW r \in Runs, Process(r)
  PROVE  OpenInv'
<1>1. UNCHANGED <<post, handler>>
  BY ProcessEffect
<1>2. SUFFICES ASSUME handler.at = "write"
               PROVE  stage'[post[handler.run]] = stage[post[handler.run]]
  BY <1>1 DEF OpenInv
<1>3. Open(post[handler.run])
  BY <1>2 DEF Open
<1>4. stage \in [Files -> Content] /\ post[handler.run] \in Files
  BY <1>2 DEF TypeInv, TypeOK, HandlerOK, Posting
<1>5. CASE MoveInput(r) \/ UnlinkSource(r)
  BY <1>3, <1>4, <1>5 DEF MoveInput, UnlinkSource
<1>6. CASE UNCHANGED stage
  BY <1>6
<1>7. QED
  BY <1>5, <1>6 DEF Process, RemoveDir, MakeDir, CopyTemplates, CopyOpenInput,
                    MoveFails, Launch, ModelEnds

LEMMA OpenNext == TypeInv /\ OpenInv /\ [Next]_vars => OpenInv'
<1> SUFFICES ASSUME TypeInv, OpenInv, [Next]_vars PROVE OpenInv'
  OBVIOUS
<1>1. /\ stage \in [Files -> Content] /\ post \in [Runs -> 0 .. 5]
      /\ handler.at # "idle" => handler.run \in Runs /\ Posting(handler.run)
  BY DEF TypeInv, TypeOK, HandlerOK
<1>2. CASE UNCHANGED vars
  BY <1>2 DEF vars, OpenInv
<1>3. ASSUME NEW r \in Runs, StartRun(r) \/ LosePost(r)
      PROVE  OpenInv'
  <2>1. UNCHANGED <<handler, stage>>
    BY <1>3 DEF StartRun, LosePost, serverVars
  <2>2. handler.at # "idle" => post'[handler.run] = post[handler.run]
    BY <1>1, <1>3 DEF StartRun, LosePost, Posting, Files, TypeInv, HandlerOK
  <2>3. QED  BY <2>1, <2>2 DEF OpenInv
<1>4. ASSUME NEW r \in Runs, BeginPost(r)
      PROVE  OpenInv'
  BY <1>1, <1>4 DEF BeginPost, OpenInv, clientVars, Posting
<1>5. ASSUME handler'.at # "write"
      PROVE  OpenInv'
  BY <1>5 DEF OpenInv
<1>6. ASSUME NEW r \in Runs, Handler(r)
      PROVE  OpenInv'
  BY <1>5, <1>6 DEF Handler, FinishPost, SpawnModel, SpawnFails, Reply, Idle
<1>7. CASE ServerStops
  BY <1>5, <1>7 DEF ServerStops, Idle
<1>8. CASE ServerStarts
  BY <1>8 DEF ServerStarts, clientVars, OpenInv
<1>9. QED
  BY <1>2, <1>3, <1>4, <1>6, <1>7, <1>8, OpenStays DEF Next, Client

\* Everything that holds of the host whatever is interleaved.
HostInv == TypeInv /\ PlaceInv /\ OpenInv

LEMMA HostInvariance == Spec => []HostInv
<1>1. Init => PlaceInv /\ OpenInv
  BY HostAssumption DEF Init, PlaceInv, AtMostOnePlace, UnsentNowhere, NoFiles,
                        NoDir, OpenInv, Idle
<1>2. QED
  BY <1>1, TypeInvariance, PlaceNext, OpenNext, PTL DEF Spec, HostInv

-----------------------------------------------------------------------------
(* The steps of the host as steps of InputHandoff.                         *)

Status == [p \in Runs \X Files |-> StatusOf(p[1], p[2])]

LEMMA StatusTyped == Status' \in [Handoff!Inputs -> Handoff!States]
BY DEF Status, StatusOf, Handoff!Inputs, Handoff!States

\* Under the name f nothing new appears, but for what a request cuts.
Fades(f) ==
  /\ stage'[f] \in {stage[f], Absent, Cut}
  /\ \A d \in Dirs : dirs'[d].files[f] \in {dirs[d].files[f], Absent, Cut}

SentGrows == \A r \in Runs, f \in Files : Sent(r, f) => Sent(r, f)'

\* Where nothing new appears under a name, its inputs stay or are lost.
LEMMA FadingLoses ==
  ASSUME HostInv, SentGrows, NEW f \in Files, Fades(f), NEW r \in Runs
  PROVE  StatusOf(r, f)' \in {StatusOf(r, f), "gone"}
<1>1. r # Absent /\ r # Cut
  BY HostAssumption
<1>2. /\ stage[f] = r => Sent(r, f) /\ \A d \in Dirs : dirs[d].files[f] # r
      /\ \A d \in Dirs : dirs[d].files[f] = r => Sent(r, f) /\ stage[f] # r
  BY DEF HostInv, PlaceInv, AtMostOnePlace, UnsentNowhere
<1>3. Sent(r, f) => Sent(r, f)'
  BY DEF SentGrows
<1>4. QED  BY <1>1, <1>2, <1>3 DEF StatusOf, Fades

\* A step under which every input stays or is lost is a Lose.
LEMMA LoseStep ==
  ASSUME \A r \in Runs, f \in Files : StatusOf(r, f)' \in {StatusOf(r, f), "gone"}
  PROVE  Handoff!Next
<1>1. \A q \in Handoff!Inputs : q[1] \in Runs /\ q[2] \in Files
  BY DEF Handoff!Inputs
<1>2. Handoff!Lose
  BY <1>1 DEF Handoff!Lose, Handoff!Inputs
<1>3. QED  BY <1>2, StatusTyped DEF Handoff!Next, Status

\* The server writes a body: the input is staged, under a name it had cut.
LEMMA StageStep ==
  ASSUME HostInv, NEW r \in Runs, FinishPost(r), NEW f \in Files, f = post[r]
  PROVE  Handoff!Next
<1>1. /\ r # Absent /\ r # Cut /\ stage[f] = Cut
      /\ Cut \notin Runs /\ post \in [Runs -> 0 .. 5]
      /\ stage' = [stage EXCEPT ![f] = r] /\ UNCHANGED dirs
      /\ stage \in [Files -> Content] /\ Files \subseteq Nat /\ RunJson \in Files
      /\ handler.run = r /\ handler.at = "write"
  BY HostAssumption
     DEF Files, RunJson, FinishPost, HostInv, OpenInv, TypeInv, TypeOK, HandlerOK, Posting
<1>2. \A q \in Runs, g \in Files : q # r \/ g # f => (Sent(q, g)' <=> Sent(q, g))
  <2>1. CASE f = RunJson
    <3>1. handler' = [run |-> r, at |-> "spawn"] /\ UNCHANGED post
      BY <2>1 DEF FinishPost, clientVars
    <3>2. handler'.run = r
      BY <3>1
    <3>3. QED  BY <1>1, <2>1, <3>1, <3>2 DEF Sent
  <2>2. CASE f # RunJson
    <3>1. handler' = Idle /\ post' = [post EXCEPT ![r] = @ + 1]
      BY <2>2 DEF FinishPost, Reply
    <3>2. handler'.at = "idle"
      BY <3>1 DEF Idle
    <3>3. QED  BY <1>1, <3>1, <3>2 DEF Sent
  <2>3. QED  BY <2>1, <2>2
<1>3. StatusOf(r, f) = "unsent" /\ StatusOf(r, f)' = "staged"
  <2>1. ~Sent(r, f)
    BY <1>1 DEF Sent
  <2>2. \A d \in Dirs : dirs[d].files[f] # r
    BY <1>1, <2>1 DEF HostInv, PlaceInv, UnsentNowhere
  <2>3. QED  BY <1>1, <2>1, <2>2 DEF StatusOf
<1>4. \A q \in Runs, g \in Files :
        q # r \/ g # f => StatusOf(q, g)' = StatusOf(q, g)
  BY <1>1, <1>2 DEF StatusOf
<1>5. Handoff!Stage(<<r, f>>)
  <2>1. \A q \in Handoff!Inputs : Status[q] = "staged" => q[2] # f
    BY <1>1 DEF Handoff!Inputs, Status, StatusOf
  <2>2. Status' = [Status EXCEPT ![<<r, f>>] = "staged"]
    <3>1. \A q \in Runs \X Files :
            StatusOf(q[1], q[2])' = IF q = <<r, f>> THEN "staged"
                                    ELSE StatusOf(q[1], q[2])
      BY <1>3, <1>4
    <3>2. QED  BY <3>1 DEF Status
  <2>3. QED  BY <1>1, <1>3, <2>1, <2>2 DEF Handoff!Stage, Status
<1>6. QED  BY <1>1, <1>5, StatusTyped DEF Handoff!Next, Handoff!Inputs, Status

\* A process moves a staged input into its directory: a Take, which replaces
\* what was there before.
LEMMA TakeStep ==
  ASSUME HostInv, NEW r \in Runs, Process(r),
         NEW f \in Files, Moves(f), NEW p \in Runs, stage[f] = p,
         \A g \in Files \ {f} : Shrinks(g) /\ stage'[g] = stage[g]
  PROVE  Handoff!Next
<1> DEFINE Kept(q, g) == StatusOf(q, g)' \in {StatusOf(q, g)} \cup
                           {s \in {"gone"} : StatusOf(q, g) = "taken"}
<1>1. /\ \A q \in Runs, g \in Files : Sent(q, g)' <=> Sent(q, g)
      /\ \A q \in Runs : q # Absent /\ q # Cut
  BY ProcessEffect, HostAssumption DEF HostInv, Sent
<1>2. \A q \in Runs, g \in Files :
        /\ stage[g] = q => \A d \in Dirs : dirs[d].files[g] # q
        /\ \A d \in Dirs : dirs[d].files[g] = q => Sent(q, g)
  BY DEF HostInv, PlaceInv, AtMostOnePlace, UnsentNowhere
<1>3. ASSUME NEW q \in Runs, NEW g \in Files \ {f} PROVE Kept(q, g)
  <2>1. /\ stage'[g] = stage[g]
        /\ \A d \in Dirs : dirs'[d].files[g] \in {dirs[d].files[g], Absent, Cut}
    BY DEF Shrinks
  <2>2. CASE \E d \in Dirs : dirs'[d].files[g] = q
    BY <1>1, <2>1, <2>2 DEF StatusOf
  <2>3. CASE \A d \in Dirs : dirs'[d].files[g] # q
    BY <1>1, <1>2, <2>1, <2>3 DEF StatusOf
  <2>4. QED  BY <2>2, <2>3
<1>4. ASSUME NEW q \in Runs, q # p PROVE Kept(q, f)
  <2>1. PICK d \in Dirs : /\ dirs'[d].files[f] = p
                          /\ \A e \in Dirs \ {d} : dirs'[e].files[f] = dirs[e].files[f]
    BY DEF Moves
  <2>2. stage'[f] # q /\ stage[f] # q
    BY <1>1, <1>4 DEF Moves
  <2>3. CASE \E e \in Dirs : dirs'[e].files[f] = q
    BY <1>4, <2>1, <2>2, <2>3 DEF StatusOf
  <2>4. CASE \A e \in Dirs : dirs'[e].files[f] # q
    BY <1>1, <1>2, <2>2, <2>4 DEF StatusOf
  <2>5. QED  BY <2>3, <2>4
<1>5. StatusOf(p, f) = "staged" /\ StatusOf(p, f)' = "taken"
  BY <1>1 DEF StatusOf, Moves
<1>6. Handoff!Take(<<p, f>>)
  <2>1. \A q \in Handoff!Inputs \ {<<p, f>>} :
          Status'[q] \in {Status[q]} \cup {s \in {"gone"} : Status[q] = "taken"}
    <3>1. ASSUME NEW q \in Handoff!Inputs, q # <<p, f>>
          PROVE  Kept(q[1], q[2])
      BY <1>3, <1>4, <3>1 DEF Handoff!Inputs
    <3>2. QED  BY <3>1 DEF Handoff!Inputs, Status
  <2>2. Status[<<p, f>>] = "staged" /\ Status'[<<p, f>>] = "taken"
    BY <1>5 DEF Status
  <2>3. QED  BY <2>1, <2>2 DEF Handoff!Take, Status
<1>7. QED  BY <1>6, StatusTyped DEF Handoff!Next, Handoff!Inputs, Status

\* Every other step loses inputs at most.
LEMMA OtherStep ==
  ASSUME HostInv,
         \/ \E r \in Runs : \/ StartRun(r) \/ Client(r)
                            \/ SpawnModel(r) \/ SpawnFails(r)
         \/ ServerStops \/ ServerStarts
  PROVE  Handoff!Next
<1>1. /\ post \in [Runs -> 0 .. 5] /\ stage \in [Files -> Content]
      /\ RunJson \in Files /\ Files \subseteq Nat
      /\ handler.at = "spawn" => post[handler.run] = RunJson
  BY DEF HostInv, TypeInv, TypeOK, HandlerOK, RunJson, Files
<1>2. SentGrows
  <2>1. ASSUME NEW r \in Runs, StartRun(r) \/ LosePost(r) PROVE SentGrows
    BY <1>1, <2>1 DEF StartRun, LosePost, serverVars, Sent, SentGrows
  <2>2. ASSUME NEW r \in Runs, SpawnModel(r) \/ SpawnFails(r) PROVE SentGrows
    <3>1. handler = [run |-> r, at |-> "spawn"] /\ post' = [post EXCEPT ![r] = @ + 1]
      BY <2>2 DEF SpawnModel, SpawnFails, Reply
    <3>2. post[r] = RunJson
      BY <1>1, <3>1
    <3>3. QED  BY <1>1, <3>1, <3>2 DEF Sent, SentGrows
  <2>3. CASE ServerStops
    <3>1. \A q \in Runs : handler = [run |-> q, at |-> "spawn"] =>
                           Serving(q) /\ post[q] = RunJson
      BY <1>1 DEF Serving
    <3>2. QED  BY <1>1, <2>3, <3>1 DEF ServerStops, Sent, SentGrows
  <2>4. CASE ServerStarts \/ \E r \in Runs : BeginPost(r)
    BY <2>4 DEF BeginPost, ServerStarts, Sent, SentGrows, clientVars, Idle
  <2>5. QED  BY <2>1, <2>2, <2>3, <2>4 DEF Client
<1>3. UNCHANGED dirs /\ (UNCHANGED stage \/ \E r \in Runs : BeginPost(r))
  BY DEF StartRun, Client, LosePost, SpawnModel, SpawnFails, ServerStops,
         ServerStarts, BeginPost
<1>4. \A f \in Files : Fades(f)
  BY <1>1, <1>3 DEF Fades, BeginPost, Posting
<1>5. QED  BY <1>2, <1>4, FadingLoses, LoseStep

LEMMA ProcessStep ==
  ASSUME HostInv, NEW r \in Runs, Process(r)
  PROVE  Handoff!Next
<1>1. SentGrows /\ TypeInv /\ stage \in [Files -> Content]
  BY ProcessEffect DEF HostInv, SentGrows, Sent, TypeInv, TypeOK
<1>2. CASE \A f \in Files : Shrinks(f)
  <2>1. \A f \in Files : Fades(f)
    BY <1>2 DEF Shrinks, Fades
  <2>2. QED  BY <1>1, <2>1, FadingLoses, LoseStep
<1>3. ASSUME NEW f \in Files, Moves(f),
             \A g \in Files \ {f} : Shrinks(g) /\ stage'[g] = stage[g]
      PROVE  Handoff!Next
  <2>1. CASE stage[f] \in Runs
    BY <1>3, <2>1, TakeStep
  <2>2. CASE stage[f] \in {Absent, Cut}
    <3>1. \A g \in Files : Fades(g)
      BY <1>3, <2>2 DEF Moves, Shrinks, Fades
    <3>2. QED  BY <1>1, <3>1, FadingLoses, LoseStep
  <2>3. QED  BY <1>1, <2>1, <2>2 DEF Content
<1>4. QED  BY <1>1, <1>2, <1>3, ProcessEffect

\* Whatever is interleaved, lost or overwritten, the host implements
\* InputHandoff: an input is handed to one model run at most and never returns
\* to an earlier stage, and each staged name holds the input of one run.
THEOREM HandoffKept == Spec => HandoffImplemented
<1>1. Init => Handoff!Init
  BY HostAssumption DEF Init, Handoff!Init, Handoff!Inputs, StatusOf, Sent, NoFiles,
                        NoDir, Idle, Files, RunJson
<1>2. HostInv /\ [Next]_vars
        => [Handoff!Next]_[p \in Runs \X Files |-> StatusOf(p[1], p[2])]
  <2> SUFFICES ASSUME HostInv, [Next]_vars
               PROVE  [Handoff!Next]_[p \in Runs \X Files |-> StatusOf(p[1], p[2])]
    OBVIOUS
  <2>1. CASE UNCHANGED vars
    BY <2>1 DEF vars, StatusOf, Sent
  <2>2. ASSUME NEW r \in Runs, StartRun(r) \/ Client(r) \/ Handler(r) \/ Process(r)
        PROVE  Handoff!Next
    <3>1. FinishPost(r) => post[r] \in Files
      BY DEF HostInv, TypeInv, HandlerOK, FinishPost, Posting
    <3>2. QED  BY <2>2, <3>1, StageStep, OtherStep, ProcessStep DEF Handler
  <2>3. CASE ServerStops \/ ServerStarts
    BY <2>3, OtherStep
  <2>4. QED  BY <2>1, <2>2, <2>3 DEF Next
<1>3. QED
  BY <1>1, <1>2, HostInvariance, PTL DEF Spec, HandoffImplemented, Handoff!Spec
=============================================================================
