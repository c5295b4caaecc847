---------------------------- MODULE JobLifecycle ----------------------------
(***************************************************************************)
(* What the job queue promises while heartbeats arrive in time, without    *)
(* row locks, statements or heartbeats: a job is given to one worker at a  *)
(* time, it ends for good when that worker succeeds or the retries are     *)
(* used up, and only a job its worker has abandoned is given away again.   *)
(***************************************************************************)
EXTENDS Integers

CONSTANTS Jobs, Workers, MaxRetries, Nobody

VARIABLES
  state,   \* "absent", "pending", "running", "success" or "failed"
  runner,  \* the worker that executes the job, or Nobody
  tries    \* failures and requeues so far

vars == <<state, runner, tries>>

Init ==
  /\ state = [j \in Jobs |-> "absent"]
  /\ runner = [j \in Jobs |-> Nobody]
  /\ tries = [j \in Jobs |-> 0]

Enqueue(j) ==
  /\ state[j] = "absent"
  /\ state' = [state EXCEPT ![j] = "pending"]
  /\ UNCHANGED <<runner, tries>>

\* w may be Nobody: a worker may be gone before it learns what it was given.
Start(j, w) ==
  /\ state[j] = "pending"
  /\ \A k \in Jobs : w # Nobody => runner[k] # w
  /\ state' = [state EXCEPT ![j] = "running"]
  /\ runner' = [runner EXCEPT ![j] = w]
  /\ UNCHANGED tries

Abandon(j) ==
  /\ runner[j] # Nobody
  /\ runner' = [runner EXCEPT ![j] = Nobody]
  /\ UNCHANGED <<state, tries>>

Succeed(j) ==
  /\ state[j] = "running" /\ runner[j] # Nobody
  /\ state' = [state EXCEPT ![j] = "success"]
  /\ runner' = [runner EXCEPT ![j] = Nobody]
  /\ UNCHANGED tries

Fail(j) ==
  /\ state[j] = "running" /\ runner[j] # Nobody
  /\ state' = [state EXCEPT ![j] = IF tries[j] + 1 >= MaxRetries THEN "failed" ELSE "pending"]
  /\ runner' = [runner EXCEPT ![j] = Nobody]
  /\ tries' = [tries EXCEPT ![j] = @ + 1]

\* The jobs S are given back to the queue together.
Requeue(S) ==
  /\ \A j \in S : state[j] = "running" /\ runner[j] = Nobody /\ tries[j] < MaxRetries
  /\ state' = [j \in Jobs |-> IF j \in S THEN "pending" ELSE state[j]]
  /\ tries' = [j \in Jobs |-> IF j \in S THEN tries[j] + 1 ELSE tries[j]]
  /\ UNCHANGED runner

Next ==
  \/ \E j \in Jobs : Enqueue(j) \/ Abandon(j) \/ Succeed(j) \/ Fail(j)
  \/ \E j \in Jobs, w \in Workers \cup {Nobody} : Start(j, w)
  \/ \E S \in SUBSET Jobs : Requeue(S)

Spec == Init /\ [][Next]_vars
=============================================================================
