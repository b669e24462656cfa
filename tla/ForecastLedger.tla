---------------------------- MODULE ForecastLedger ----------------------------
(***************************************************************************)
(* What the forecast script promises its operator: a ledger of the dates   *)
(* that are done.  A date enters it only together with a run of that date, *)
(* and a run is turned away only because of it.                            *)
(***************************************************************************)
CONSTANTS
  Runs,    \* invocations of the script
  DateOf,  \* run -> its date
  Forced   \* the runs that ask to run again

VARIABLES
  outcome,  \* run -> "open", or how it ended
  recorded  \* the dates that are done

Init ==
  /\ outcome = [r \in Runs |-> "open"]
  /\ recorded = {}

Barred(r) == DateOf[r] \in recorded /\ r \notin Forced

Finish(r) ==
  /\ outcome[r] = "open"
  /\ ~Barred(r)
  /\ outcome' = [outcome EXCEPT ![r] = "done"]
  /\ recorded' = recorded \cup {DateOf[r]}

Refuse(r) ==
  /\ outcome[r] = "open"
  /\ Barred(r)
  /\ outcome' = [outcome EXCEPT ![r] = "refused"]
  /\ UNCHANGED recorded

Abort(r) ==
  /\ outcome[r] = "open"
  /\ ~Barred(r)
  /\ outcome' = [outcome EXCEPT ![r] = "aborted"]
  /\ UNCHANGED recorded

Next == \E r \in Runs : Finish(r) \/ Refuse(r) \/ Abort(r)

Spec == Init /\ [][Next]_<<outcome, recorded>>
=============================================================================
