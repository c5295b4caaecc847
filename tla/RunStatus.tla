----------------------------- MODULE RunStatus ------------------------------
(***************************************************************************)
(* The trigger sync_pipeline_run_status_from_jobs                          *)
(* (src/src/database/database-seed.service.ts): every INSERT of a job and  *)
(* every UPDATE of its status recomputes the row of its pipeline run, in   *)
(* the same transaction and under READ COMMITTED.  Each query of the       *)
(* trigger takes a snapshot of its own: it sees what others have committed *)
(* by then and what its own transaction has written.                       *)
(*                                                                         *)
(* One run.  A transaction is identified by the job whose row it has       *)
(* locked.  It changes the run with its last statement only, so that       *)
(* UPDATE and the commit are one step: no other transaction can change the *)
(* run in between.  An UPDATE of the run that matches no row locks nothing *)
(* and is a step of its own.  A reclaim of several jobs of the run is      *)
(* taken as one transaction for each of them.  Heartbeats may be late, so  *)
(* that several workers execute a job and each of them marks it.           *)
(***************************************************************************)
EXTENDS JobTable

\* The jobs are those of one run, and no two of them are the same step.
ASSUME StepsAssumption == \A i, j \in Jobs : i # j => Earlier(i, j) \/ Earlier(j, i)

VARIABLES
  rows,     \* table jobs, as committed
  run,      \* the row of pipeline_runs, as committed
  txn,      \* the open transaction on each job
  inserting,\* triggerRun is still issuing inserts
  holders,  \* how many workers have the job in hand
  raced,    \* history: a job was claimed before the inserts had settled
  late      \* history: a job was taken from a worker that still executed it

vars == <<rows, run, txn, inserting, holders, raced, late>>

\* started_at and completed_at: whether they are set.
RunRow == [status : {"pending", "running"} \cup Terminal, started : BOOLEAN, completed : BOOLEAN]

\* at: "none", or the next statement of the transaction; row: the row it has
\* written; verdict: what it has decided about the run.
Txn == [at : {"none", "check", "touch", "judge", "settle", "commit"},
        row : Row, verdict : Terminal \cup {"none"}]

NoTxn == [at |-> "none", row |-> NoRow, verdict |-> "none"]

Init ==
  /\ rows = [j \in Jobs |-> NoRow]
  /\ run = [status |-> "pending", started |-> FALSE, completed |-> FALSE]
  /\ txn = [j \in Jobs |-> NoTxn]
  /\ inserting = TRUE
  /\ holders = [j \in Jobs |-> 0]
  /\ raced = FALSE /\ late = FALSE

Open(j) == txn[j].at # "none"

\* What a query in the transaction of j sees of table jobs.
Seen(j) == [rows EXCEPT ![j] = txn[j].row]

-----------------------------------------------------------------------------
(* The statements of JobQueueService *)

Write(j, row) ==
  /\ ~Open(j)
  /\ txn' = [txn EXCEPT ![j] = [at |-> "check", row |-> row, verdict |-> "none"]]
  /\ UNCHANGED <<rows, run>>

InsertNewJob(j) ==
  /\ inserting /\ ~Present(rows, j)
  /\ Write(j, InsertedRow)
  /\ UNCHANGED <<inserting, holders, raced, late>>

\* All inserts are issued, or one was rejected, or the API died.
InsertsEnd ==
  /\ inserting
  /\ inserting' = FALSE
  /\ UNCHANGED <<rows, run, txn, holders, raced, late>>

InsertsSettled == ~inserting /\ \A j \in Jobs : Open(j) => Present(rows, j)

\* claimNextJob by any worker.
Claim(j) ==
  /\ j \in FirstOf({k \in Jobs : Claimable(rows, k) /\ ~Open(k)})
  /\ \E w \in Workers : Write(j, ClaimedRow(rows[j], w))
  /\ raced' = (raced \/ ~InsertsSettled)
  /\ UNCHANGED <<inserting, holders, late>>

\* markCompleted or markFailed by a worker that has the job, whatever became of
\* the row meanwhile.  The worker forgets the job, also when its statement fails.
Mark(j) ==
  /\ holders[j] > 0
  /\ holders' = [holders EXCEPT ![j] = @ - 1]
  /\ \E row \in {CompletedRow(rows[j]), FailedRow(rows[j])} : Write(j, row)
  /\ UNCHANGED <<inserting, raced, late>>

\* A worker that has the job dies, or loses the reply of its claim or the connection.
Forget(j) ==
  /\ holders[j] > 0
  /\ holders' = [holders EXCEPT ![j] = @ - 1]
  /\ UNCHANGED <<rows, run, txn, inserting, raced, late>>

\* reclaimStuckJobs, when the worker has died or its heartbeats are late.
Reclaim(j) ==
  /\ Reclaimable([rows[j] EXCEPT !.heartbeat_at = "stale"])
  /\ Write(j, ReclaimedRow(rows[j]))
  /\ late' = (late \/ holders[j] > 0)
  /\ UNCHANGED <<inserting, holders, raced>>

-----------------------------------------------------------------------------
(* The trigger, in the transaction of job j *)

\* The SELECT of has_running.
CheckRunning(j) ==
  /\ txn[j].at = "check"
  /\ txn' = [txn EXCEPT ![j].at =
               IF \E k \in Jobs : Seen(j)[k].status = "running" THEN "touch" ELSE "judge"]
  /\ UNCHANGED <<rows, run, inserting, holders, raced, late>>

\* Once a claim has committed its worker has the job.
Commit(j) ==
  /\ rows' = Seen(j)
  /\ txn' = [txn EXCEPT ![j] = NoTxn]
  /\ holders' = IF txn[j].row.status = "running" THEN [holders EXCEPT ![j] = @ + 1] ELSE holders
  /\ UNCHANGED <<inserting, raced, late>>

\* Mutant: started_at is forgotten.
TouchedRunUnstarted(r) == [r EXCEPT !.status = "running"]

TouchedRun(r) == [r EXCEPT !.status = "running", !.started = TRUE]

\* has_running: the UPDATE matches the run, waits for its lock and commits ...
TouchRun(j) ==
  /\ txn[j].at = "touch"
  /\ run.status # "running" \/ ~run.started
  /\ run' = TouchedRun(run)
  /\ Commit(j)

\* ... or does not match it.
LeaveRun(j) ==
  /\ txn[j].at = "touch"
  /\ run.status = "running" /\ run.started
  /\ txn' = [txn EXCEPT ![j].at = "commit"]
  /\ UNCHANGED <<rows, run, inserting, holders, raced, late>>

\* Mutant: a job that has not started does not count.
AllTerminalPastPending(seen) ==
  \A k \in Jobs : Present(seen, k) => seen[k].status \in Terminal \cup {"pending"}

AllTerminal(seen) == \A k \in Jobs : Present(seen, k) => seen[k].status \in Terminal

\* Mutants: the branches of the CASE swapped; a status the schema does not know.
VerdictSwapped(seen) ==
  IF \E k \in Jobs : seen[k].status = "failed" THEN "success" ELSE "failed"

VerdictMisspelt(seen) ==
  IF \E k \in Jobs : seen[k].status = "failed" THEN "failed" ELSE "succeeded"

Verdict(seen) == IF \E k \in Jobs : seen[k].status = "failed" THEN "failed" ELSE "success"

\* The SELECT of all_terminal and has_failed.
Judge(j) ==
  /\ txn[j].at = "judge"
  /\ txn' = [txn EXCEPT ![j] =
               IF AllTerminal(Seen(j))
                 THEN [@ EXCEPT !.at = "settle", !.verdict = Verdict(Seen(j))]
                 ELSE [@ EXCEPT !.at = "commit"]]
  /\ UNCHANGED <<rows, run, inserting, holders, raced, late>>

\* all_terminal: the UPDATE waits for the lock of the run, whatever became of
\* it since the SELECT, and commits.
SettleRun(j) ==
  /\ txn[j].at = "settle"
  /\ run' = [run EXCEPT !.status = txn[j].verdict, !.completed = TRUE]
  /\ Commit(j)

\* The transaction ends without a change of the run.
CommitJob(j) ==
  /\ txn[j].at = "commit"
  /\ UNCHANGED run
  /\ Commit(j)

\* The statement fails or its process dies.
Abort(j) ==
  /\ Open(j)
  /\ txn' = [txn EXCEPT ![j] = NoTxn]
  /\ UNCHANGED <<rows, run, inserting, holders, raced, late>>

-----------------------------------------------------------------------------
Statement(j) == InsertNewJob(j) \/ Claim(j) \/ Mark(j) \/ Reclaim(j)

Trigger(j) ==
  CheckRunning(j) \/ TouchRun(j) \/ LeaveRun(j) \/ Judge(j) \/ SettleRun(j) \/ CommitJob(j)

Next == InsertsEnd \/ \E j \in Jobs : Statement(j) \/ Forget(j) \/ Trigger(j) \/ Abort(j)

Spec == Init /\ [][Next]_vars

-----------------------------------------------------------------------------
(* Properties *)

TypeOK ==
  /\ rows \in [Jobs -> Row]
  /\ run \in RunRow
  /\ txn \in [Jobs -> Txn]
  /\ \A j \in Jobs : txn[j].at = "settle" => txn[j].verdict \in Terminal
  /\ inserting \in BOOLEAN /\ raced \in BOOLEAN /\ late \in BOOLEAN
  /\ holders \in [Jobs -> Nat]

Quiet == \A j \in Jobs : ~Open(j)

SomeRunning == \E j \in Jobs : rows[j].status = "running"

AllEnded == InsertsSettled /\ AllTerminal(rows) /\ \E j \in Jobs : Present(rows, j)

\* Unless a job of the run was claimed before the inserts had settled, or taken
\* from a worker that still executed it, the run follows its jobs: 'running'
\* and without an end as long as a job runs, the right verdict with an end once
\* all have ended.
RunFollowsJobs ==
  ~raced /\ ~late =>
    /\ SomeRunning => run = [status |-> "running", started |-> TRUE, completed |-> FALSE]
    /\ AllEnded => run = [status |-> Verdict(rows), started |-> TRUE, completed |-> TRUE]

\* Then also, a run that is 'success' or 'failed' never changes again.
VerdictFinal == [][~raced /\ ~late /\ run.status \in Terminal => run' = run]_vars

\* However the transactions of a run interleave and whoever marks its jobs,
\* started_at is set once a job has started: the no-op UPDATE of the trigger
\* loses no start.
StartNoted == \A j \in Jobs : rows[j].status \in {"running"} \cup Terminal => run.started

\* However they interleave, a run is reported 'failed' only if a job failed, as
\* long as no job was taken from a worker that still executed it.
FailureIsReal == ~late /\ run.status = "failed" => \E j \in Jobs : rows[j].status = "failed"

\* What a reader of the two tables sees of the run.
SeenState == [j \in Jobs |-> rows[j].status]
StepPairs == {p \in Jobs \X Jobs : Earlier(p[1], p[2])}

Lifecycle == INSTANCE RunLifecycle
               WITH state <- SeenState, Order <- StepPairs, disturbed <- raced \/ late

\* The transactions of workers and API interleave statement by statement, each
\* statement with a snapshot of its own; yet until a claim has raced the inserts
\* or a job was taken from a worker that still executed it, it is as if jobs
\* started and ended one after the other and the run followed at once.
ImplementsRunLifecycle == Lifecycle!Spec

-----------------------------------------------------------------------------
(* What the comments of the trigger say and it does not keep *)

\* "All jobs terminal (success/failed/cancelled) -> run is success or failed"
\* (database-seed.service.ts:67): no run is a success that has a failed job.
SuccessIsReal == ~late /\ Quiet /\ AllEnded /\ run.status = "success" => Verdict(rows) = "success"
=============================================================================
