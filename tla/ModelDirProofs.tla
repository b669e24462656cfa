----------------------------- MODULE ModelDirProofs -----------------------------
(***************************************************************************)
(* What a model of Flo2dHost finds in its directory, when every run has a  *)
(* directory of its own or runs are spaced, for any number of runs and     *)
(* directories and every bound.                                            *)
(***************************************************************************)
EXTENDS Flo2dHostProofs

-----------------------------------------------------------------------------
(* One run at a time.                                                      *)

Busy(r)   == post[r] # 0 /\ ~Settled(r)
Active(r) == proc[r].pc \notin Over \cup {"none"}

\* A process belongs to a run that has posted everything, and the operator who
\* waits for the model has one run under way at most.
OrderInv ==
  /\ \A r \in Runs : proc[r].pc # "none" => Posted(r)
  /\ \A r \in Runs : post[r] = 0 => acked[r] = {}
  /\ Pacing = "spaced" => \A q, r \in Runs : Busy(q) /\ Busy(r) => q = r

\* Whoever posts or has a process at work is busy.
LEMMA BusyWhen ==
  ASSUME OrderInv, NEW r \in Runs, Posting(r) \/ Active(r)
  PROVE  Busy(r)
BY DEF OrderInv, Busy, Settled, Posted, Posting, Active, Files

\* A step after which nobody else is busy keeps the order.
LEMMA OrderKept ==
  ASSUME TypeInv, OrderInv, NEW r \in Runs,
         \A q \in Runs \ {r} : /\ post'[q] = post[q] /\ acked'[q] = acked[q]
                               /\ proc'[q] = proc[q],
         proc'[r].pc # "none" => post'[r] = 5,
         post'[r] # 0,
         Pacing = "spaced" => \A q \in Runs \ {r} : ~Busy(q)
  PROVE  OrderInv'
BY DEF OrderInv, Busy, Settled, Posted

LEMMA OrderQuiet ==
  ASSUME OrderInv, UNCHANGED <<post, acked, proc>>
  PROVE  OrderInv'
BY DEF OrderInv, Busy, Settled, Posted

\* Steps of a script and of the server, for the run r.
LEMMA OrderServer ==
  ASSUME TypeInv, OrderInv, NEW r \in Runs,
         StartRun(r) \/ Client(r) \/ Handler(r)
  PROVE  OrderInv'
<1>1. /\ post \in [Runs -> 0 .. 5] /\ acked \in [Runs -> SUBSET Files]
      /\ proc = [q \in Runs |-> proc[q]] /\ 5 \notin Files /\ 0 \notin Files
      /\ Files \subseteq Nat /\ RunJson = 4
  BY DEF TypeInv, TypeOK, Files, RunJson
<1>2. CASE StartRun(r)
  <2>1. post[r] = 0 /\ proc[r].pc = "none"
    BY <1>2 DEF StartRun, OrderInv, Posted
  <2>2. Pacing = "spaced" => \A q \in Runs \ {r} : ~Busy(q)
    BY <1>2 DEF StartRun, MayStart, Busy
  <2>3. QED  BY <1>1, <1>2, <2>1, <2>2, OrderKept DEF StartRun
\* The run is busy already.
<1>3. ASSUME Posting(r),
             \A q \in Runs \ {r} : /\ post'[q] = post[q] /\ acked'[q] = acked[q]
                                   /\ proc'[q] = proc[q],
             proc'[r].pc # "none" => post'[r] = 5,
             post'[r] # 0
      PROVE  OrderInv'
  <2>1. Busy(r)
    BY <1>3, BusyWhen
  <2>2. QED  BY <1>3, <2>1, OrderKept DEF OrderInv
<1>4. Posting(r) => proc[r].pc = "none"
  BY <1>1 DEF OrderInv, Posting, Posted
<1>5. CASE LosePost(r)
  BY <1>1, <1>3, <1>4, <1>5 DEF LosePost, Posting
<1>6. CASE BeginPost(r)
  BY <1>6, OrderQuiet DEF BeginPost, clientVars
<1>7. CASE Handler(r)
  <2>1. Posting(r) /\ (handler.at = "spawn" => post[r] = 4)
    <3>1. CASE handler = [run |-> r, at |-> "write"]
      <4>1. handler.run = r /\ handler.at = "write"
        BY <3>1
      <4>2. QED  BY <1>1, <4>1 DEF TypeInv, HandlerOK
    <3>2. CASE handler = [run |-> r, at |-> "spawn"]
      <4>1. handler.run = r /\ handler.at = "spawn"
        BY <3>2
      <4>2. QED  BY <1>1, <4>1 DEF TypeInv, HandlerOK
    <3>3. QED  BY <1>7, <3>1, <3>2 DEF Handler, FinishPost, SpawnModel, SpawnFails
  <2>2. /\ \A q \in Runs \ {r} : /\ post'[q] = post[q] /\ acked'[q] = acked[q]
                                 /\ proc'[q] = proc[q]
        /\ post'[r] \in {post[r], post[r] + 1}
    BY <1>1, <1>7, <2>1 DEF Handler, FinishPost, SpawnModel, SpawnFails, Reply, clientVars
  <2>3. proc'[r].pc # "none" => post'[r] = 5
    BY <1>1, <1>4, <1>7, <2>1 DEF Handler, FinishPost, SpawnModel, SpawnFails, Reply
  <2>4. post'[r] # 0
    BY <1>1, <2>1, <2>2 DEF Posting
  <2>5. QED  BY <1>3, <2>1, <2>2, <2>3, <2>4
<1>8. QED  BY <1>2, <1>5, <1>6, <1>7 DEF Client

LEMMA OrderUpDown ==
  ASSUME TypeInv, OrderInv, ServerStops \/ ServerStarts
  PROVE  OrderInv'
<1>1. CASE ServerStarts
  BY <1>1, OrderQuiet DEF ServerStarts, clientVars
<1>2. CASE ServerStops /\ handler.at = "idle"
  <2>1. UNCHANGED <<post, acked, proc>>
    BY <1>2 DEF ServerStops, Serving, TypeInv, TypeOK
  <2>2. QED  BY <2>1, OrderQuiet
<1>3. CASE ServerStops /\ handler.at # "idle"
  <2> DEFINE r == handler.run
  <2>1. r \in Runs /\ Posting(r) /\ post \in [Runs -> 0 .. 5]
    BY <1>3 DEF TypeInv, TypeOK, HandlerOK
  <2>2. Busy(r)
    BY <2>1, BusyWhen
  <2>3. /\ post'[r] = post[r] + 1 /\ UNCHANGED <<acked, proc>>
        /\ \A q \in Runs \ {r} : post'[q] = post[q]
    BY <1>3, <2>1 DEF ServerStops, Serving
  <2>4. QED
    BY <2>1, <2>2, <2>3 DEF OrderInv, Busy, Settled, Posted, Posting, Files
<1>4. QED  BY <1>1, <1>2, <1>3

LEMMA OrderProcess ==
  ASSUME TypeInv, OrderInv, NEW r \in Runs, UNCHANGED <<post, acked>>,
         Active(r), \A q \in Runs \ {r} : proc'[q] = proc[q]
  PROVE  OrderInv'
<1>1. Busy(r) /\ Posted(r)
  BY BusyWhen DEF OrderInv, Active
<1>2. QED  BY <1>1, OrderKept DEF OrderInv, Posted

\* A process that takes a step is at work.
LEMMA ProcessActive ==
  ASSUME NEW r \in Runs, Process(r)
  PROVE  Active(r)
BY DEF Process, RemoveDir, MakeDir, CopyTemplates, MoveInput, CopyOpenInput,
       UnlinkSource, MoveFails, Launch, ModelEnds, At, Active, Over

LEMMA OrderNext == TypeInv /\ OrderInv /\ [Next]_vars => OrderInv'
<1> SUFFICES ASSUME TypeInv, OrderInv, [Next]_vars PROVE OrderInv'
  OBVIOUS
<1>1. CASE UNCHANGED vars
  BY <1>1, OrderQuiet DEF vars
<1>2. ASSUME NEW r \in Runs, Process(r) PROVE OrderInv'
  BY <1>2, ProcessEffect, OwnOnly, ProcessActive, OrderProcess
<1>3. QED  BY <1>1, <1>2, OrderServer, OrderUpDown DEF Next

LEMMA OrderInvariance == Spec => [](TypeInv /\ OrderInv)
<1>1. Init => OrderInv
  BY DEF Init, OrderInv, Busy
<1>2. QED  BY <1>1, TypeInvariance, OrderNext, PTL DEF Spec

-----------------------------------------------------------------------------
(* What is in a model directory.                                           *)

\* The inputs process r has put into its directory so far.
Filled(r, f) ==
  \/ proc[r].pc \in {"move", "unlink"} /\ f < proc[r].file
  \/ proc[r].pc = "unlink" /\ f = proc[r].file
  \/ proc[r].pc \in {"launch", "running"}

\* A process past its templates has a directory, and in it what it moved.
Ready(r) ==
  /\ proc[r].pc \in {"move", "unlink", "launch", "running"} =>
       dirs[DirOf[r]].kind = "dir"
  /\ \A f \in Files : Filled(r, f) => dirs[DirOf[r]].files[f] # Absent

\* Into a directory, an input is put beside the others.
LEMMA PutBeside ==
  ASSUME NEW entry \in DirEntry, NEW f \in Files, NEW c \in Content,
         entry.kind = "dir"
  PROVE  /\ Put(entry, f, c).kind = "dir"
         /\ Put(entry, f, c).files[f] = c
         /\ \A g \in Files \ {f} : Put(entry, f, c).files[g] = entry.files[g]
BY DEF Put, DirEntry

\* A step of r leaves its directory in order.
LEMMA ReadyNext ==
  ASSUME TypeInv, NEW r \in Runs, Process(r),
         dirs[DirOf[r]].kind # "file", Ready(r)
  PROVE  dirs'[DirOf[r]].kind # "file" /\ Ready(r)'
<1> DEFINE d == DirOf[r]
           f == proc[r].file
<1>1. /\ d \in Dirs /\ f \in Files /\ dirs[d] \in DirEntry
      /\ dirs \in [Dirs -> DirEntry] /\ stage \in [Files -> Content]
  BY HostAssumption DEF TypeInv, TypeOK, DirEntry
<1>2. /\ proc \in [Runs -> [pc : {"none", "remove", "make", "copy", "move",
                                  "unlink", "launch", "running"} \cup Over,
                            file : Files]]
      /\ DirOf' = DirOf
  BY DEF TypeInv, TypeOK
<1>3. ASSUME NEW pc, Goto(r, pc)
      PROVE  proc'[r].pc = pc /\ proc'[r].file = f
  BY <1>2, <1>3 DEF Goto
\* Before the templates are there, and after a failure, nothing is asked.
<1>4. ASSUME NEW pc \in {"make", "copy", "failed", "ended"}, Goto(r, pc)
      PROVE  Ready(r)'
  BY <1>2, <1>3, <1>4 DEF Ready, Filled
<1>5. CASE RemoveDir(r)
  <2>1. dirs'[d].kind # "file"
    <3>1. NoDir.kind = "absent"
      BY DEF NoDir
    <3>2. \A kept \in SUBSET Files : KeepOnly(dirs[d], kept).kind = dirs[d].kind
      BY <1>1 DEF KeepOnly, DirEntry
    <3>3. \/ UNCHANGED dirs
          \/ dirs' = [dirs EXCEPT ![d] = NoDir]
          \/ \E kept \in SUBSET Files :
               dirs' = [dirs EXCEPT ![d] = KeepOnly(dirs[d], kept)]
      BY <1>5 DEF RemoveDir
    <3>4. QED  BY <1>1, <3>1, <3>2, <3>3
  <2>2. Ready(r)'
    BY <1>4, <1>5 DEF RemoveDir
  <2>3. QED  BY <2>1, <2>2
<1>6. CASE MakeDir(r)
  <2>1. dirs'[d].kind # "file"
    BY <1>1, <1>6 DEF MakeDir, DirEntry
  <2>2. QED  BY <1>4, <1>6, <2>1 DEF MakeDir
<1>7. CASE CopyTemplates(r)
  <2>1. CASE Goto(r, "failed") /\ UNCHANGED dirs
    BY <1>4, <2>1
  <2>2. CASE /\ proc' = [proc EXCEPT ![r] = [pc |-> "move", file |-> 1]]
             /\ dirs' = [dirs EXCEPT ![d] = [kind |-> "dir", templates |-> TRUE,
                                             files |-> dirs[d].files]]
    <3>1. proc'[r].pc = "move" /\ proc'[r].file = 1 /\ dirs'[d].kind = "dir"
      BY <1>1, <1>2, <2>2
    <3>2. \A g \in Files : ~Filled(r, g)'
      BY <3>1 DEF Filled, Files
    <3>3. QED  BY <1>2, <3>1, <3>2 DEF Ready
  <2>3. QED  BY <1>7, <2>1, <2>2 DEF CopyTemplates
\* A moved input is there, and the ones before it still are.
<1>8. ASSUME NextFile(r), dirs'[d].kind = "dir",
             \A g \in Files : g <= f => dirs'[d].files[g] # Absent
      PROVE  Ready(r)'
  <2>1. CASE f = RunJson
    <3>1. proc'[r].pc = "launch"
      BY <1>2, <1>8, <2>1 DEF NextFile
    <3>2. QED  BY <1>2, <1>8, <2>1, <3>1 DEF Ready, Filled, Files, RunJson
  <2>2. CASE f # RunJson
    <3>1. proc'[r].pc = "move" /\ proc'[r].file = f + 1
      BY <1>2, <1>8, <2>2 DEF NextFile
    <3>2. \A g \in Files : Filled(r, g)' => g <= f
      BY <1>1, <3>1 DEF Filled, Files
    <3>3. QED  BY <1>2, <1>8, <3>1, <3>2 DEF Ready
  <2>3. QED  BY <2>1, <2>2
<1>9. ASSUME At(r, "move"), NEW c \in Content, c # Absent,
             dirs' = [dirs EXCEPT ![d] = Put(dirs[d], f, c)]
      PROVE  /\ dirs'[d].kind = "dir"
             /\ \A g \in Files : g <= f => dirs'[d].files[g] # Absent
  <2>1. dirs[d].kind = "dir" /\ dirs'[d] = Put(dirs[d], f, c)
    BY <1>1, <1>9 DEF At, Ready
  <2>2. \A g \in Files : g < f => dirs[d].files[g] # Absent
    BY <1>9 DEF At, Ready, Filled
  <2>3. /\ Put(dirs[d], f, c).kind = "dir" /\ Put(dirs[d], f, c).files[f] = c
        /\ \A g \in Files \ {f} : Put(dirs[d], f, c).files[g] = dirs[d].files[g]
    BY <1>1, <2>1, PutBeside
  <2>4. \A g \in Files : g <= f => g = f \/ g < f
    BY <1>1 DEF Files
  <2> HIDE DEF d, f
  <2>5. QED  BY <1>9, <2>1, <2>2, <2>3, <2>4
<1>10. CASE MoveInput(r)
  BY <1>1, <1>8, <1>9, <1>10 DEF MoveInput, Movable
<1>11. CASE CopyOpenInput(r)
  <2>1. /\ dirs'[d].kind = "dir"
        /\ \A g \in Files : g <= f => dirs'[d].files[g] # Absent
    BY <1>9, <1>11, HostAssumption DEF CopyOpenInput, Content
  <2>2. proc'[r].pc = "unlink" /\ proc'[r].file = f
    BY <1>3, <1>11 DEF CopyOpenInput
  <2>3. \A g \in Files : Filled(r, g)' => g <= f
    BY <1>1, <2>2 DEF Filled, Files
  <2>4. QED  BY <1>2, <2>1, <2>2, <2>3 DEF Ready
<1>12. CASE UnlinkSource(r)
  <2>1. /\ dirs'[d].kind = "dir"
        /\ \A g \in Files : g <= f => dirs'[d].files[g] # Absent
    BY <1>1, <1>12 DEF UnlinkSource, At, Ready, Filled, Files
  <2>2. QED  BY <1>8, <1>12, <2>1 DEF UnlinkSource
<1>13. CASE MoveFails(r) \/ ModelEnds(r)
  BY <1>4, <1>13 DEF MoveFails, ModelEnds
<1>14. CASE Launch(r)
  <2>1. /\ UNCHANGED dirs
        /\ proc'[r].pc \in {"running", "failed"}
    BY <1>3, <1>14 DEF Launch
  <2>2. /\ dirs[d].kind = "dir"
        /\ \A g \in Files : dirs[d].files[g] # Absent
    BY <1>14 DEF Launch, At, Ready, Filled
  <2>3. QED  BY <1>2, <2>1, <2>2 DEF Ready
<1>15. QED
  BY <1>5, <1>6, <1>7, <1>10, <1>11, <1>12, <1>13, <1>14 DEF Process

\* No two processes work in one directory.
Apart == DistinctDirs \/ Pacing = "spaced"

\* Then a process finds in its directory what it put there.
DirsInv ==
  Apart => /\ \A d \in Dirs : dirs[d].kind # "file"
           /\ \A r \in Runs : Ready(r)

\* Nothing is asked of a process that is not at work.
LEMMA ReadyIdle ==
  ASSUME NEW r \in Runs, ~Active(r)
  PROVE  Ready(r)
BY DEF Active, Ready, Filled, Over

\* While one process of a directory takes a step, the others are not at work.
LEMMA OthersIdle ==
  ASSUME OrderInv, Apart, NEW r \in Runs, Active(r),
         NEW q \in Runs \ {r}, DirOf[q] = DirOf[r]
  PROVE  ~Active(q)
<1>1. CASE DistinctDirs
  BY <1>1 DEF DistinctDirs
<1>2. CASE Pacing = "spaced"
  BY <1>2, BusyWhen DEF OrderInv
<1>3. QED  BY <1>1, <1>2 DEF Apart

LEMMA DirsNext == TypeInv /\ OrderInv /\ DirsInv /\ [Next]_vars => DirsInv'
<1> SUFFICES ASSUME TypeInv, OrderInv, DirsInv, [Next]_vars, Apart
             PROVE  /\ \A d \in Dirs : dirs'[d].kind # "file"
                    /\ \A r \in Runs : Ready(r)'
  BY DEF DirsInv, Apart, DistinctDirs
<1>1. (\A d \in Dirs : dirs[d].kind # "file") /\ \A r \in Runs : Ready(r)
  BY DEF DirsInv
<1>2. CASE UNCHANGED <<dirs, proc>>
  BY <1>1, <1>2 DEF Ready, Filled
<1>3. ASSUME NEW q \in Runs, UNCHANGED dirs,
             proc' = [proc EXCEPT ![q] = [pc |-> "remove", file |-> 1]]
      PROVE  \A r \in Runs : Ready(r)'
  <2>1. proc = [r \in Runs |-> proc[r]]
    BY DEF TypeInv, TypeOK
  <2>2. ASSUME NEW r \in Runs, r # q PROVE Ready(r)'
    BY <1>1, <1>3, <2>1, <2>2 DEF Ready, Filled
  <2>3. Ready(q)'
    <3>1. proc'[q].pc = "remove"
      BY <1>3, <2>1
    <3>2. QED  BY <3>1 DEF Ready, Filled
  <2>4. QED  BY <2>2, <2>3
<1>4. ASSUME NEW q \in Runs, Process(q)
      PROVE  /\ \A d \in Dirs : dirs'[d].kind # "file"
             /\ \A r \in Runs : Ready(r)'
  <2>1. dirs'[DirOf[q]].kind # "file" /\ Ready(q)'
    BY <1>1, <1>4, ReadyNext, HostAssumption
  <2>2. \A d \in Dirs : d # DirOf[q] => dirs'[d] = dirs[d]
    BY <1>4, OwnOnly
  <2>3. ASSUME NEW r \in Runs, r # q PROVE Ready(r)'
    <3>1. proc'[r] = proc[r] /\ DirOf[r] \in Dirs
      BY <1>4, <2>3, OwnOnly, HostAssumption
    <3>2. CASE DirOf[r] # DirOf[q]
      BY <1>1, <2>2, <3>1, <3>2 DEF Ready, Filled
    <3>3. CASE DirOf[r] = DirOf[q]
      <4>1. ~Active(r)
        BY <1>4, <2>3, <3>3, OthersIdle, ProcessActive
      <4>2. QED  BY <3>1, <4>1 DEF Active, Ready, Filled, Over
    <3>4. QED  BY <3>2, <3>3
  <2>4. QED  BY <1>1, <2>1, <2>2, <2>3
<1>5. CASE UNCHANGED vars
  BY <1>2, <1>5 DEF vars
<1>6. ASSUME NEW r \in Runs, StartRun(r) \/ Client(r) \/ Handler(r)
      PROVE  /\ \A d \in Dirs : dirs'[d].kind # "file"
             /\ \A q \in Runs : Ready(q)'
  BY <1>1, <1>2, <1>3, <1>6, ServerLeavesDirs
<1>7. CASE ServerStops \/ ServerStarts
  BY <1>2, <1>7 DEF ServerStops, ServerStarts
<1>8. QED  BY <1>4, <1>5, <1>6, <1>7 DEF Next

LEMMA DirsInvariance == Spec => [](TypeInv /\ OrderInv /\ DirsInv)
<1>1. Init => DirsInv
  BY HostAssumption DEF Init, DirsInv, Ready, Filled, NoDir
<1>2. QED  BY <1>1, OrderInvariance, DirsNext, PTL DEF Spec

\* With a directory for each run, or with spaced runs, no sequence of moves
\* turns the path of a model directory into a plain file, which would block
\* that path for good.
THEOREM DirsStayDirs == Spec => []NeverBlocked
<1>1. DirsInv => NeverBlocked
  BY DEF DirsInv, NeverBlocked, Apart
<1>2. QED  BY <1>1, DirsInvariance, PTL

\* With a directory for each run, no model is started without one of its four
\* inputs, whoever took the staged one.
THEOREM LaunchComplete == Spec => []CompleteLaunch
<1>1. DirsInv => CompleteLaunch
  BY DEF DirsInv, Apart, CompleteLaunch, Ready, Filled, Running, At, Inputs
<1>2. QED  BY <1>1, DirsInvariance, PTL

-----------------------------------------------------------------------------
(* Spaced runs compute on what was acknowledged.                           *)

\* Where the acknowledged input f of the run under way is: staged, and from the
\* move on in the directory of the run.
AckedAt(r, f) ==
  /\ f < post[r]
  /\ IF Filled(r, f) THEN Inputs(r)[f] = r ELSE stage[f] = r

\* The server is never in the middle of a post while a process moves files, and
\* what it has just written stays until the process is there.
AckInv ==
  Pacing = "spaced" =>
    \A r \in Runs :
      /\ proc[r].pc # "unlink"
      /\ handler = [run |-> r, at |-> "spawn"] => stage[RunJson] = r
      /\ Busy(r) => \A f \in acked[r] : AckedAt(r, f)

\* A step of the one busy run has to look after its own inputs only.
LEMMA AckKept ==
  ASSUME TypeInv, OrderInv, AckInv, Pacing = "spaced", NEW r \in Runs,
         \A q \in Runs \ {r} : /\ ~Busy(q) /\ post'[q] = post[q]
                               /\ proc'[q] = proc[q]
                               /\ handler' # [run |-> q, at |-> "spawn"],
         proc'[r].pc # "unlink",
         handler' = [run |-> r, at |-> "spawn"] => stage'[RunJson] = r,
         Busy(r)' => \A f \in acked'[r] : AckedAt(r, f)'
  PROVE  AckInv'
<1>1. ASSUME NEW q \in Runs, q # r
      PROVE  /\ proc'[q].pc # "unlink" /\ ~Busy(q)'
             /\ handler' # [run |-> q, at |-> "spawn"]
  BY <1>1 DEF AckInv, Busy, Settled, Posted
<1>2. QED  BY <1>1 DEF AckInv

\* Scripts and server.
LEMMA AckServer ==
  ASSUME TypeInv, OrderInv, AckInv, Pacing = "spaced", NEW r \in Runs,
         StartRun(r) \/ Client(r) \/ Handler(r)
  PROVE  AckInv'
<1>1. /\ post \in [Runs -> 0 .. 5] /\ acked \in [Runs -> SUBSET Files]
      /\ proc = [q \in Runs |-> proc[q]] /\ stage \in [Files -> Content]
      /\ Files \subseteq Nat /\ RunJson = 4 /\ 4 \in Files /\ 5 \notin Files
      /\ proc[r].pc # "unlink"
  BY DEF TypeInv, TypeOK, Files, RunJson, AckInv
<1>2. handler.at = "spawn" => handler.run \in Runs /\ Busy(handler.run)
  BY BusyWhen DEF TypeInv, TypeOK, HandlerOK
<1>3. CASE StartRun(r)
  <2>1. \A q \in Runs \ {r} : ~Busy(q) /\ post'[q] = post[q]
    BY <1>1, <1>3 DEF StartRun, MayStart, Busy
  <2>2. acked'[r] = {} /\ UNCHANGED <<handler, stage, proc>>
    BY <1>3 DEF StartRun, OrderInv, serverVars
  <2>3. handler.at # "spawn"
    <3>1. ~Busy(r)
      BY <1>3 DEF StartRun, Busy
    <3>2. QED  BY <1>2, <2>1, <3>1
  <2>4. QED  BY <1>1, <2>1, <2>2, <2>3, AckKept
\* A run that posts is the busy one, and has no process yet.
<1>4. ASSUME Posting(r)
      PROVE  /\ \A q \in Runs \ {r} : ~Busy(q)
             /\ \A f \in acked[r] : f < post[r] /\ stage[f] = r
             /\ proc[r].pc = "none"
  <2>1. Busy(r) /\ proc[r].pc = "none"
    BY <1>1, <1>4, BusyWhen DEF OrderInv, Posted, Posting
  <2>2. \A q \in Runs \ {r} : ~Busy(q)
    BY <2>1 DEF OrderInv
  <2>3. QED  BY <2>1, <2>2 DEF AckInv, AckedAt, Filled
<1>5. CASE LosePost(r)
  <2>1. Posting(r) /\ handler.at # "spawn" /\ UNCHANGED <<acked, handler, stage, proc>>
    BY <1>5 DEF LosePost, TypeInv, HandlerOK, serverVars
  <2>2. post' = [post EXCEPT ![r] = @ + 1]
    BY <1>5 DEF LosePost
  <2>3. \A f \in acked'[r] : AckedAt(r, f)'
    BY <1>1, <1>4, <2>1, <2>2 DEF AckedAt, Filled
  <2>4. QED  BY <1>1, <1>4, <2>1, <2>2, <2>3, AckKept
<1>6. CASE BeginPost(r)
  <2>1. /\ Posting(r) /\ UNCHANGED <<post, acked, proc>> /\ handler'.at # "spawn"
        /\ stage' = [stage EXCEPT ![post[r]] = Cut]
    BY <1>6 DEF BeginPost, clientVars
  <2>2. \A f \in acked'[r] : AckedAt(r, f)'
    BY <1>1, <1>4, <2>1 DEF AckedAt, Filled
  <2>3. QED  BY <1>1, <1>4, <2>1, <2>2, AckKept
<1>7. CASE FinishPost(r)
  <2>1. /\ Posting(r) /\ UNCHANGED proc
        /\ stage' = [stage EXCEPT ![post[r]] = r]
    <3>1. handler.run = r /\ handler.at = "write"
      BY <1>7 DEF FinishPost
    <3>2. QED  BY <1>7, <3>1 DEF FinishPost, TypeInv, HandlerOK
  <2>2. CASE post[r] = RunJson
    <3>1. handler' = [run |-> r, at |-> "spawn"] /\ UNCHANGED <<post, acked>>
      BY <1>7, <2>2 DEF FinishPost, clientVars
    <3>2. handler'.run = r
      BY <3>1
    <3>3. \A f \in acked'[r] : AckedAt(r, f)'
      BY <1>1, <1>4, <2>1, <3>1 DEF AckedAt, Filled, Posting
    <3>4. QED  BY <1>1, <1>4, <2>1, <2>2, <3>1, <3>2, <3>3, AckKept
  <2>3. CASE post[r] # RunJson
    <3>1. Reply(r, TRUE)
      BY <1>7, <2>3 DEF FinishPost
    <3>2. /\ handler'.at = "idle" /\ post' = [post EXCEPT ![r] = @ + 1]
          /\ acked'[r] = acked[r] \cup {post[r]}
      BY <1>1, <3>1 DEF Reply, Idle
    <3>3. \A f \in acked'[r] : AckedAt(r, f)'
      BY <1>1, <1>4, <2>1, <3>2 DEF AckedAt, Filled, Posting
    <3>4. QED  BY <1>1, <1>4, <2>1, <3>2, <3>3, AckKept
  <2>4. QED  BY <2>2, <2>3
<1>8. CASE SpawnModel(r) \/ SpawnFails(r)
  <2>1. /\ Posting(r) /\ post[r] = 4 /\ stage[4] = r /\ UNCHANGED stage
    <3>1. handler = [run |-> r, at |-> "spawn"]
      BY <1>8 DEF SpawnModel, SpawnFails
    <3>2. handler.run = r /\ handler.at = "spawn"
      BY <3>1
    <3>3. QED
      BY <1>1, <1>8, <3>1, <3>2 DEF SpawnModel, SpawnFails, TypeInv, HandlerOK, AckInv
  <2>2. /\ handler'.at = "idle" /\ post' = [post EXCEPT ![r] = @ + 1]
        /\ acked'[r] \in {acked[r], acked[r] \cup {4}}
    BY <1>1, <1>8, <2>1 DEF SpawnModel, SpawnFails, Reply, Idle
  <2>3. /\ proc'[r].pc \in {"none", "remove"}
        /\ \A q \in Runs \ {r} : proc'[q] = proc[q]
    <3>1. CASE SpawnModel(r)
      BY <1>1, <3>1 DEF SpawnModel
    <3>2. CASE SpawnFails(r)
      BY <1>4, <2>1, <3>2 DEF SpawnFails
    <3>3. QED  BY <1>8, <3>1, <3>2
  <2>4. \A f \in acked'[r] : AckedAt(r, f)'
    BY <1>1, <1>4, <2>1, <2>2, <2>3 DEF AckedAt, Filled
  <2>5. QED  BY <1>1, <1>4, <2>1, <2>2, <2>3, <2>4, AckKept
<1>9. QED  BY <1>3, <1>5, <1>6, <1>7, <1>8 DEF Client, Handler
LEMMA AckUpDown ==
  ASSUME TypeInv, OrderInv, AckInv, Pacing = "spaced", ServerStops \/ ServerStarts
  PROVE  AckInv'
<1>1. UNCHANGED <<acked, stage, dirs, proc>>
  BY DEF ServerStops, ServerStarts, clientVars
<1>2. \A r \in Runs : handler' = [run |-> r, at |-> "spawn"] =>
                      handler = [run |-> r, at |-> "spawn"]
  BY DEF ServerStops, ServerStarts, Idle
<1>3. \A r \in Runs : post'[r] = post[r] \/ (Posting(r) /\ post'[r] = post[r] + 1)
  <2>1. \A r \in Runs : Serving(r) => Posting(r)
    BY DEF Serving, TypeInv, HandlerOK
  <2>2. QED  BY <2>1 DEF ServerStops, ServerStarts, clientVars
<1>4. ASSUME NEW r \in Runs, Busy(r)', NEW f \in acked'[r]
      PROVE  AckedAt(r, f)'
  <2>1. Busy(r)
    BY <1>1, <1>3, <1>4, BusyWhen DEF Busy, Settled, Posted
  <2>2. f \in Nat /\ post[r] \in Nat /\ AckedAt(r, f)
    BY <1>1, <1>4, <2>1 DEF AckInv, TypeInv, TypeOK, Files
  <2>3. QED  BY <1>1, <1>3, <2>2 DEF AckedAt, Filled, Inputs
<1>5. QED  BY <1>1, <1>2, <1>4 DEF AckInv

\* The process of the one busy run.
LEMMA AckProcess ==
  ASSUME TypeInv, OrderInv, DirsInv, AckInv, Pacing = "spaced",
         NEW r \in Runs, Process(r)
  PROVE  AckInv'
<1> DEFINE d == DirOf[r]
           f == proc[r].file
<1>0. proc \in [Runs -> [pc : {"none", "remove", "make", "copy", "move",
                                  "unlink", "launch", "running"} \cup Over,
                            file : Files]]
  BY DEF TypeInv, TypeOK
<1>1. /\ d \in Dirs /\ f \in Files /\ dirs \in [Dirs -> DirEntry]
      /\ stage \in [Files -> Content] /\ Files \subseteq Nat
      /\ acked[r] \subseteq Files
  BY HostAssumption DEF TypeInv, TypeOK, DirEntry, Files
<1>2. /\ UNCHANGED <<post, acked, handler>>
      /\ \A q \in Runs \ {r} : proc'[q] = proc[q]
  BY ProcessEffect, OwnOnly
<1>3. /\ Busy(r) /\ Posted(r) /\ \A q \in Runs \ {r} : ~Busy(q)
      /\ \A g \in acked[r] : AckedAt(r, g)
      /\ proc[r].pc # "unlink"
  BY ProcessActive, BusyWhen DEF OrderInv, AckInv, Active
<1>4. handler.at = "idle"
  BY <1>3, BusyWhen DEF TypeInv, TypeOK, HandlerOK, Posting, Posted, Files
\* What remains is where the inputs of r are.
<1>5. ASSUME proc'[r].pc # "unlink",
             proc'[r].pc \in Over \/ \A g \in acked[r] : AckedAt(r, g)'
      PROVE  AckInv'
  <2>1. \A q \in Runs : handler' # [run |-> q, at |-> "spawn"]
    BY <1>2, <1>4
  <2>2. Busy(r)' => proc'[r].pc \notin Over
    BY <1>2, <1>3 DEF Busy, Settled, Posted
  <2>3. QED  BY <1>2, <1>3, <1>5, <2>1, <2>2, AckKept
<1>6. ASSUME NEW pc, Goto(r, pc)
      PROVE  proc'[r].pc = pc /\ proc'[r].file = f
  BY <1>0, <1>6 DEF Goto
<1>7. CASE RemoveDir(r) \/ MakeDir(r) \/ CopyTemplates(r)
  <2>1. UNCHANGED stage /\ \A g \in Files : ~Filled(r, g)
    BY <1>7 DEF RemoveDir, MakeDir, CopyTemplates, At, Filled
  <2>2. proc'[r].pc \in {"make", "copy", "failed"} \/
        (proc'[r].pc = "move" /\ proc'[r].file = 1)
    BY <1>0, <1>6, <1>7 DEF RemoveDir, MakeDir, CopyTemplates
  <2>3. \A g \in Files : ~Filled(r, g)'
    BY <2>2 DEF Filled, Files
  <2>4. QED  BY <1>1, <1>2, <1>3, <1>5, <2>1, <2>2, <2>3 DEF AckedAt, Over
<1>8. CASE MoveInput(r)
  <2>1. /\ dirs[d].kind = "dir" /\ proc[r].pc = "move"
        /\ dirs' = [dirs EXCEPT ![d] = Put(dirs[d], f, stage[f])]
        /\ stage' = [stage EXCEPT ![f] = Absent]
    BY <1>8 DEF MoveInput, At, DirsInv, Apart, Ready
  <2>2. /\ dirs'[d].files[f] = stage[f]
        /\ \A g \in Files \ {f} : dirs'[d].files[g] = dirs[d].files[g]
    <3>1. dirs[d] \in DirEntry /\ stage[f] \in Content /\ dirs'[d] = Put(dirs[d], f, stage[f])
      BY <1>1, <2>1
    <3>2. f \in Files /\ dirs[d].kind = "dir"
      BY <1>1, <2>1
    <3> HIDE DEF d, f
    <3>3. /\ Put(dirs[d], f, stage[f]).files[f] = stage[f]
          /\ \A g \in Files \ {f} : Put(dirs[d], f, stage[f]).files[g] = dirs[d].files[g]
      BY <3>1, <3>2, PutBeside
    <3>4. QED  BY <3>1, <3>3
  <2>3. /\ proc'[r].pc \in {"move", "launch"}
        /\ \A g \in Files : Filled(r, g)' <=> g <= f
    <3>1. CASE f = RunJson
      <4>1. proc'[r].pc = "launch"
        BY <1>0, <1>1, <1>8, <3>1 DEF MoveInput, NextFile
      <4>2. \A g \in Files : g <= f
        BY <3>1 DEF Files, RunJson
      <4>3. QED  BY <4>1, <4>2 DEF Filled
    <3>2. CASE f # RunJson
      <4>1. proc'[r].pc = "move" /\ proc'[r].file = f + 1
        BY <1>0, <1>1, <1>8, <3>2 DEF MoveInput, NextFile
      <4>2. \A g \in Files : Filled(r, g)' <=> g < f + 1
        BY <4>1 DEF Filled
      <4>3. QED  BY <1>1, <4>1, <4>2 DEF Files
    <3>3. QED  BY <3>1, <3>2
  <2>4. ASSUME NEW g \in acked[r] PROVE AckedAt(r, g)'
    <3>1. /\ g \in Files /\ g \in Nat /\ f \in Nat /\ g < post[r]
          /\ (Filled(r, g) <=> g < f)
          /\ IF Filled(r, g) THEN dirs[d].files[g] = r ELSE stage[g] = r
      BY <1>1, <1>3, <2>1 DEF AckedAt, Filled, Inputs
    <3>2. CASE g < f
      BY <1>1, <1>2, <2>2, <2>3, <3>1, <3>2 DEF AckedAt, Inputs
    <3>3. CASE g = f
      BY <1>1, <1>2, <2>2, <2>3, <3>1, <3>3 DEF AckedAt, Inputs
    <3>4. CASE g > f
      BY <1>1, <1>2, <2>1, <2>3, <3>1, <3>4 DEF AckedAt, Inputs
    <3>5. QED  BY <3>1, <3>2, <3>3, <3>4
  <2>5. QED  BY <1>5, <2>3, <2>4
<1>9. CASE CopyOpenInput(r) \/ UnlinkSource(r)
  BY <1>3, <1>4, <1>9 DEF CopyOpenInput, UnlinkSource, Open, At
<1>10. CASE MoveFails(r) \/ ModelEnds(r)
  BY <1>5, <1>6, <1>10 DEF MoveFails, ModelEnds, Over
<1>11. CASE Launch(r)
  <2>1. /\ UNCHANGED <<stage, dirs>> /\ proc[r].pc = "launch"
        /\ proc'[r].pc \in {"running", "failed"}
    BY <1>6, <1>11 DEF Launch, At
  <2>2. proc'[r].pc = "running" => \A g \in acked[r] : AckedAt(r, g)'
    BY <1>1, <1>2, <1>3, <2>1 DEF AckedAt, Filled, Inputs
  <2>3. QED  BY <1>5, <2>1, <2>2 DEF Over
<1>12. QED
  BY <1>7, <1>8, <1>9, <1>10, <1>11 DEF Process

LEMMA AckNext == TypeInv /\ OrderInv /\ DirsInv /\ AckInv /\ [Next]_vars => AckInv'
<1> SUFFICES ASSUME TypeInv, OrderInv, DirsInv, AckInv, [Next]_vars, Pacing = "spaced"
             PROVE  AckInv'
  BY DEF AckInv
<1>1. CASE UNCHANGED vars
  BY <1>1 DEF vars, AckInv, AckedAt, Filled, Inputs, Busy, Settled, Posted
<1>2. QED  BY <1>1, AckServer, AckUpDown, AckProcess DEF Next

\* When runs are spaced, the model of a run computes on every input of that run
\* that the server acknowledged, whatever other posts were lost or cut short
\* and whatever earlier runs left staged.
THEOREM AckedKept == Spec => []AckedInputsUsed
<1>1. Init => AckInv
  <2> SUFFICES ASSUME Init PROVE AckInv
    OBVIOUS
  <2>1. handler.at = "idle"
    BY DEF Init, Idle
  <2>2. \A r \in Runs : proc[r].pc # "unlink" /\ ~Busy(r)
    BY DEF Init, Busy
  <2>3. \A r \in Runs : handler # [run |-> r, at |-> "spawn"]
    BY <2>1
  <2>4. QED  BY <2>2, <2>3 DEF AckInv
<1>2. OrderInv /\ AckInv => AckedInputsUsed
  BY BusyWhen DEF AckInv, AckedInputsUsed, AckedAt, Filled, Running, At, Active, Over
<1>3. QED  BY <1>1, <1>2, DirsInvariance, AckNext, PTL DEF Spec
=============================================================================
