------------------------------ MODULE JobTable ------------------------------
(***************************************************************************)
(* The table jobs and the SQL statements of JobQueueService                *)
(* (src/src/queue/job-queue.service.ts), each given by what it does to the *)
(* rows it matches.  A statement is one autocommitted transaction; the     *)
(* modules that EXTEND this one decide how statements interleave.          *)
(*                                                                         *)
(* Left out of a row, because no statement reads it back: command, stage   *)
(* name, exit code and the claimed_at / started_at / completed_at stamps.  *)
(***************************************************************************)
EXTENDS Integers

CONSTANTS
  Jobs,        \* ids of the job rows the API may insert
  Workers,     \* worker processes (WORKER_ID / HOSTNAME)
  Runs,        \* ids of pipeline runs
  RunOf,       \* RunOf[j]: jobs.pipeline_run_id
  StageOrder,  \* StageOrder[j]: index of the stage in the pipeline config
  StepOrder,   \* StepOrder[j]: index of the step in its stage
  Priority,    \* Priority[j]: step.priority ?? 5
  MaxRetries,  \* jobs.max_retries (insertNewJob writes 3)
  Nobody       \* claimed_by IS NULL

ASSUME JobsAssumption ==
  /\ RunOf \in [Jobs -> Runs]
  /\ StageOrder \in [Jobs -> Nat]
  /\ StepOrder \in [Jobs -> Nat]
  /\ Priority \in [Jobs -> Int]
  /\ MaxRetries \in Nat \ {0}
  /\ Nobody \notin Workers

(***************************************************************************)
(* Rows.  "absent" stands for a row that is not in the table; no statement *)
(* writes 'cancelled'.  heartbeat_at is reduced to what reclaimStuckJobs   *)
(* asks of it: NULL, at most timeoutSeconds old, or older.                 *)
(***************************************************************************)
Terminal == {"success", "failed"}
Status == {"absent", "pending", "running"} \cup Terminal
Heartbeat == {"null", "fresh", "stale"}

Row == [status : Status, claimed_by : Workers \cup {Nobody},
        heartbeat_at : Heartbeat, retry_count : Nat]

NoRow == [status |-> "absent", claimed_by |-> Nobody,
          heartbeat_at |-> "null", retry_count |-> 0]

Present(rows, j) == rows[j].status # "absent"

\* INSERT INTO jobs ... VALUES (..., 'pending', ..., 0, 3)
InsertedRow == [NoRow EXCEPT !.status = "pending"]

-----------------------------------------------------------------------------
\* Mutant: the steps of a stage are not told apart.
EarlierByStage(i, j) == RunOf[i] = RunOf[j] /\ i # j /\ StageOrder[i] <= StageOrder[j]

\* (prev.stage_order, prev.step_order) < (j.stage_order, j.step_order), same run
Earlier(i, j) ==
  /\ RunOf[i] = RunOf[j]
  /\ \/ StageOrder[i] < StageOrder[j]
     \/ StageOrder[i] = StageOrder[j] /\ StepOrder[i] < StepOrder[j]

\* Mutants: a step waits only for running ones; a failed job is taken again.
ClaimablePastPending(rows, j) ==
  /\ rows[j].status = "pending"
  /\ \A i \in Jobs : Earlier(i, j) /\ Present(rows, i) => rows[i].status # "running"

ClaimableAgain(rows, j) ==
  /\ rows[j].status \in {"pending", "failed"}
  /\ \A i \in Jobs : Earlier(i, j) /\ Present(rows, i) => rows[i].status \in Terminal

\* The WHERE clause of the sub-select of claimNextJob.
Claimable(rows, j) ==
  /\ rows[j].status = "pending"
  /\ \A i \in Jobs : Earlier(i, j) /\ Present(rows, i) => rows[i].status \in Terminal

\* Its ORDER BY, up to created_at: rows that tie here may be picked in either order.
RanksBefore(i, j) ==
  \/ StageOrder[i] < StageOrder[j]
  \/ /\ StageOrder[i] = StageOrder[j]
     /\ \/ StepOrder[i] < StepOrder[j]
        \/ StepOrder[i] = StepOrder[j] /\ Priority[i] > Priority[j]

\* The row LIMIT 1 may return among the claimable rows S that are not locked.
FirstOf(S) == {j \in S : \A i \in S : ~RanksBefore(i, j)}

\* UPDATE jobs SET claimed_by = $1, heartbeat_at = NOW(), status = 'running'
ClaimedRow(row, w) ==
  [row EXCEPT !.status = "running", !.claimed_by = w, !.heartbeat_at = "fresh"]

-----------------------------------------------------------------------------
\* updateHeartbeat: WHERE id = $1 and nothing else.
BeatenRow(row) == [row EXCEPT !.heartbeat_at = "fresh"]

\* Mutant: a status the schema does not know.
CompletedRowMisspelt(row) == [row EXCEPT !.status = "completed"]

\* markCompleted: WHERE id = $1 and nothing else; claimed_by stays.
CompletedRow(row) == [row EXCEPT !.status = "success"]

\* Mutants: the last failure is not counted; one attempt too many.
FailedRowLastUncounted(row) ==
  [row EXCEPT !.status = IF row.retry_count + 1 >= MaxRetries THEN "failed" ELSE "pending",
              !.retry_count = IF @ + 1 >= MaxRetries THEN @ ELSE @ + 1,
              !.claimed_by = Nobody]

FailedRowTooMany(row) ==
  [row EXCEPT !.status = IF row.retry_count > MaxRetries THEN "failed" ELSE "pending",
              !.retry_count = @ + 1,
              !.claimed_by = Nobody]

\* markFailed: WHERE id = $1 and nothing else.
FailedRow(row) ==
  [row EXCEPT !.status = IF row.retry_count + 1 >= MaxRetries THEN "failed" ELSE "pending",
              !.retry_count = @ + 1,
              !.claimed_by = Nobody]

\* Mutant: the last retry is never used.
ReclaimableOneLess(row) ==
  row.status = "running" /\ row.heartbeat_at = "stale" /\ row.retry_count + 1 < MaxRetries

\* reclaimStuckJobs: its WHERE clause and its SET list.
Reclaimable(row) ==
  row.status = "running" /\ row.heartbeat_at = "stale" /\ row.retry_count < MaxRetries

\* Mutant: the reclaim is not counted as a retry.
ReclaimedRowUncounted(row) == [row EXCEPT !.status = "pending", !.claimed_by = Nobody]

ReclaimedRow(row) ==
  [row EXCEPT !.status = "pending", !.claimed_by = Nobody, !.retry_count = @ + 1]
=============================================================================
