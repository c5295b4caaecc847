---------------------------- MODULE RunLifecycle ----------------------------
(***************************************************************************)
(* What the trigger promises a reader of pipeline_runs, without            *)
(* transactions, locks or snapshots: the jobs of a run are inserted, run   *)
(* one after the other in the order of their steps and end, and in the     *)
(* same instant the run shows it.  This lasts until the run is disturbed;  *)
(* then nothing is promised.                                               *)
(***************************************************************************)

CONSTANTS
  Jobs,
  Order    \* the pairs of jobs of which the first comes before the second

VARIABLES
  state,     \* "absent", "pending", "running", "success" or "failed"
  run,       \* the row of the run
  disturbed

vars == <<state, run, disturbed>>

Ended == {"success", "failed"}

Init ==
  /\ state = [j \in Jobs |-> "absent"]
  /\ run = [status |-> "pending", started |-> FALSE, completed |-> FALSE]
  /\ disturbed = FALSE

\* No job is added once one has started.
Insert(j) ==
  /\ state[j] = "absent"
  /\ \A k \in Jobs : state[k] \in {"absent", "pending"}
  /\ state' = [state EXCEPT ![j] = "pending"]
  /\ UNCHANGED run

Start(j) ==
  /\ state[j] = "pending"
  /\ \A i \in Jobs : <<i, j>> \in Order => state[i] \in Ended \cup {"absent"}
  /\ state' = [state EXCEPT ![j] = "running"]
  /\ run' = [status |-> "running", started |-> TRUE, completed |-> FALSE]

\* The job failed or lost its worker and is given back: the run goes on.
Retry(j) ==
  /\ state[j] = "running"
  /\ state' = [state EXCEPT ![j] = "pending"]
  /\ UNCHANGED run

Outcome(states) == IF \E k \in Jobs : states[k] = "failed" THEN "failed" ELSE "success"

\* With the last job the run ends.
End(j, end) ==
  /\ state[j] = "running"
  /\ state' = [state EXCEPT ![j] = end]
  /\ run' = IF \A k \in Jobs : state'[k] \in Ended \cup {"absent"}
              THEN [status |-> Outcome(state'), started |-> TRUE, completed |-> TRUE]
              ELSE run

Serial(j) == Insert(j) \/ Start(j) \/ Retry(j) \/ \E end \in Ended : End(j, end)

Disturb == disturbed' = TRUE /\ UNCHANGED <<state, run>>

Next ==
  \/ disturbed /\ disturbed'
  \/ Disturb
  \/ (\E j \in Jobs : Serial(j)) /\ UNCHANGED disturbed

Spec == Init /\ [][Next]_vars
=============================================================================
