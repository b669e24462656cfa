----------------------------- MODULE InputHandoff -----------------------------
(***************************************************************************)
(* What the staging directory promises, without the server and the         *)
(* process: an input that a run posts goes forward only.  It is unsent,    *)
(* then staged, then taken by one model, and gone from wherever it was at  *)
(* any time; it is never handed over twice and never comes back.  For each *)
(* file name at most one input is staged.                                  *)
(***************************************************************************)
CONSTANTS
  Runs,   \* forecast runs
  Files   \* the inputs each run posts

VARIABLE status   \* <<run, file>> -> where that input is

Inputs == Runs \X Files
States == {"unsent", "staged", "taken", "gone"}

Init == status = [p \in Inputs |-> "unsent"]

\* An input is staged under a free name.
Stage(p) ==
  /\ status[p] = "unsent"
  /\ \A q \in Inputs : status[q] = "staged" => q[2] # p[2]
  /\ status' = [status EXCEPT ![p] = "staged"]

\* A model takes a staged input, which may replace inputs taken before.
Take(p) ==
  /\ status[p] = "staged"
  /\ status'[p] = "taken"
  /\ \A q \in Inputs \ {p} :
       status'[q] \in {status[q]} \cup {s \in {"gone"} : status[q] = "taken"}

\* A post fails, a staged input is overwritten or deleted, a model directory
\* is emptied: any inputs may get lost in one step, and none moves otherwise.
Lose == \A q \in Inputs : status'[q] \in {status[q], "gone"}

Next ==
  /\ status' \in [Inputs -> States]
  /\ \/ \E p \in Inputs : Stage(p) \/ Take(p)
     \/ Lose

Spec == Init /\ [][Next]_status
=============================================================================
