------------------------------ MODULE JobQueue ------------------------------
(***************************************************************************)
(* The job queue at work: the API enqueues the jobs of a run               *)
(* (RunsService.triggerRun), worker processes claim, execute and mark them *)
(* (WorkerService.runLoop), every process of the deployment reclaims the   *)
(* jobs whose heartbeat is old (HeartbeatService), and workers crash, lose *)
(* replies of the database and stall.                                      *)
(*                                                                         *)
(* A claim is two steps, because its sub-select reads the table and locks  *)
(* a row (FOR UPDATE SKIP LOCKED) before its UPDATE commits; every other   *)
(* statement is one step, and waits for the row lock of a claim.           *)
(***************************************************************************)
EXTENDS JobTable

CONSTANTS
  NoJob,      \* job.id is undefined
  Timely,     \* TRUE: no heartbeat of a job in hand gets older than the timeout
  RowResult   \* TRUE: the driver answers UPDATE ... RETURNING with the rows

ASSUME QueueAssumption ==
  /\ NoJob \notin Jobs
  /\ Timely \in BOOLEAN
  /\ RowResult \in BOOLEAN

VARIABLES
  jobs,      \* table jobs: [Jobs -> Row]
  enqueue,   \* progress of triggerRun, per run
  phase,     \* where each worker is in runLoop
  task,      \* the job of the current iteration of runLoop
  beats,     \* jobs with an updateHeartbeat under way
  attempts,  \* history: committed claims of each job
  late       \* history: jobs inserted after a later job of the run had started

vars == <<jobs, enqueue, phase, task, beats, attempts, late>>

\* Between the reply to the claim and the statement that marks the job.
InHand == {"executing", "succeeded", "failed"}

Phase == {"idle", "claiming", "down"} \cup InHand

\* Worker w acts for job j: it executes the command or is about to mark the job.
Works(w, j) == phase[w] \in InHand /\ task[w] = j

\* The claim of some worker holds the row lock of j.
Locked(j) == \E w \in Workers : phase[w] = "claiming" /\ task[w] = j

Started(j) == Locked(j) \/ jobs[j].status \in {"running"} \cup Terminal

Init ==
  /\ jobs = [j \in Jobs |-> NoRow]
  /\ enqueue = [r \in Runs |-> "none"]
  /\ phase = [w \in Workers |-> "idle"]
  /\ task = [w \in Workers |-> NoJob]
  /\ beats = {}
  /\ attempts = [j \in Jobs |-> 0]
  /\ late = {}

-----------------------------------------------------------------------------
(* The API: triggerRun *)

\* createPipelineRun has committed and the inserts of its jobs are issued.
TriggerRun(r) ==
  /\ enqueue[r] = "none"
  /\ enqueue' = [enqueue EXCEPT ![r] = "inserting"]
  /\ UNCHANGED <<jobs, phase, task, beats, attempts, late>>

\* Promise.all over insertNewJob: each insert has its own connection of the
\* pool and its own transaction, so they commit in any order.
InsertNewJob(j) ==
  /\ enqueue[RunOf[j]] = "inserting"
  /\ ~Present(jobs, j)
  /\ jobs' = [jobs EXCEPT ![j] = InsertedRow]
  /\ late' = IF \E k \in Jobs : Earlier(j, k) /\ Started(k) THEN late \cup {j} ELSE late
  /\ UNCHANGED <<enqueue, phase, task, beats, attempts>>

\* All inserts settled, or one was rejected, or the API died: whatever was not
\* inserted by now never is, and what was inserted stays.
EnqueueEnds(r) ==
  /\ enqueue[r] = "inserting"
  /\ enqueue' = [enqueue EXCEPT ![r] = "done"]
  /\ UNCHANGED <<jobs, phase, task, beats, attempts, late>>

-----------------------------------------------------------------------------
(* A worker: one iteration of runLoop *)

\* Mutant: the sub-select without FOR UPDATE SKIP LOCKED.
CandidatesUnlocked == {j \in Jobs : Claimable(jobs, j)}

\* Rows the sub-select sees as claimable and SKIP LOCKED does not skip.
Candidates == {j \in Jobs : Claimable(jobs, j) /\ ~Locked(j)}

\* claimNextJob, its sub-select: the snapshot is read and one row is locked.
ClaimLock(w) ==
  /\ phase[w] = "idle"
  /\ \E j \in FirstOf(Candidates) : task' = [task EXCEPT ![w] = j]
  /\ phase' = [phase EXCEPT ![w] = "claiming"]
  /\ UNCHANGED <<jobs, enqueue, beats, attempts, late>>

ClaimApplied(w) ==
  /\ jobs' = [jobs EXCEPT ![task[w]] = ClaimedRow(@, w)]
  /\ attempts' = [attempts EXCEPT ![task[w]] = @ + 1]

\* claimNextJob, its UPDATE: the claim commits and the worker gets result[0].
\* That is the row if the driver returns rows; otherwise normalizeJobRow makes
\* a job without id of it.
ClaimCommit(w) ==
  /\ phase[w] = "claiming"
  /\ ClaimApplied(w)
  /\ phase' = [phase EXCEPT ![w] = "executing"]
  /\ task' = IF RowResult THEN task ELSE [task EXCEPT ![w] = NoJob]
  /\ UNCHANGED <<enqueue, beats, late>>

\* The claim commits but its reply is lost: runLoop catches, sleeps and polls.
ClaimReplyLost(w) ==
  /\ phase[w] = "claiming"
  /\ ClaimApplied(w)
  /\ phase' = [phase EXCEPT ![w] = "idle"]
  /\ task' = [task EXCEPT ![w] = NoJob]
  /\ UNCHANGED <<enqueue, beats, late>>

\* The claim fails and is rolled back.
ClaimAbort(w) ==
  /\ phase[w] = "claiming"
  /\ phase' = [phase EXCEPT ![w] = "idle"]
  /\ task' = [task EXCEPT ![w] = NoJob]
  /\ UNCHANGED <<jobs, enqueue, beats, attempts, late>>

\* No row to claim: result[0] is undefined and the loop sleeps, unless the
\* driver answers with a pair, whose empty first part passes for a job.
ClaimNothing(w) ==
  /\ phase[w] = "idle"
  /\ Candidates = {}
  /\ phase' = IF RowResult THEN phase ELSE [phase EXCEPT ![w] = "executing"]
  /\ UNCHANGED <<jobs, enqueue, task, beats, attempts, late>>

\* execute: the exit code of the command; 1 if it throws or the job has no id.
Execute(w) ==
  /\ phase[w] = "executing"
  /\ \E outcome \in {"succeeded", "failed"} :
       /\ task[w] = NoJob => outcome = "failed"
       /\ phase' = [phase EXCEPT ![w] = outcome]
  /\ UNCHANGED <<jobs, enqueue, task, beats, attempts, late>>

\* The heartbeat timer of execute fires; nobody waits for its UPDATE.
Tick(w) ==
  /\ phase[w] = "executing"
  /\ task[w] \in Jobs
  /\ beats' = beats \cup {task[w]}
  /\ UNCHANGED <<jobs, enqueue, phase, task, attempts, late>>

\* The UPDATE of a heartbeat ends, maybe after the mark of the job or the death
\* of its worker, or it fails.  Two of one job are not told apart.
BeatLands(j) ==
  /\ j \in beats /\ ~Locked(j)
  /\ \/ jobs' = [jobs EXCEPT ![j] = BeatenRow(@)]
     \/ UNCHANGED jobs
  /\ beats' = beats \ {j}
  /\ UNCHANGED <<enqueue, phase, task, attempts, late>>

LoopAgain(w) ==
  /\ phase' = [phase EXCEPT ![w] = "idle"]
  /\ task' = [task EXCEPT ![w] = NoJob]
  /\ UNCHANGED <<enqueue, beats, attempts, late>>

\* An exit code of 0 is marked, whatever became of the row since the claim.
MarkCompleted(w) ==
  /\ phase[w] = "succeeded"
  /\ ~Locked(task[w])
  /\ jobs' = [jobs EXCEPT ![task[w]] = CompletedRow(@)]
  /\ LoopAgain(w)

\* Any other exit code; WHERE id = NULL matches no row.
MarkFailed(w) ==
  /\ phase[w] = "failed"
  /\ ~Locked(task[w])
  /\ jobs' = IF task[w] = NoJob THEN jobs ELSE [jobs EXCEPT ![task[w]] = FailedRow(@)]
  /\ LoopAgain(w)

\* The mark fails in the database: runLoop catches, sleeps and polls again.
MarkLost(w) ==
  /\ phase[w] \in {"succeeded", "failed"}
  /\ UNCHANGED jobs
  /\ LoopAgain(w)

\* The process dies; its open transaction, if any, is rolled back.
Crash(w) ==
  /\ phase[w] # "down"
  /\ phase' = [phase EXCEPT ![w] = "down"]
  /\ task' = [task EXCEPT ![w] = NoJob]
  /\ UNCHANGED <<jobs, enqueue, beats, attempts, late>>

Restart(w) ==
  /\ phase[w] = "down"
  /\ phase' = [phase EXCEPT ![w] = "idle"]
  /\ UNCHANGED <<jobs, enqueue, task, beats, attempts, late>>

-----------------------------------------------------------------------------
(* Time and the reclaim loop *)

\* DEFAULT_TIMEOUT_SECONDS pass without a heartbeat of j reaching the table.
\* Only the age of a running job is ever read.
HeartbeatExpires(j) ==
  /\ jobs[j].status = "running"
  /\ Timely => \A w \in Workers : ~Works(w, j)
  /\ jobs' = [jobs EXCEPT ![j].heartbeat_at = "stale"]
  /\ UNCHANGED <<enqueue, phase, task, beats, attempts, late>>

\* runReclaimOnce, by any process: reclaimStuckJobs is one UPDATE.
ReclaimStuckJobs ==
  /\ \E j \in Jobs : Reclaimable(jobs[j])
  /\ jobs' = [j \in Jobs |-> IF Reclaimable(jobs[j]) THEN ReclaimedRow(jobs[j]) ELSE jobs[j]]
  /\ UNCHANGED <<enqueue, phase, task, beats, attempts, late>>

-----------------------------------------------------------------------------
WorkerStep(w) ==
  \/ ClaimLock(w) \/ ClaimCommit(w) \/ ClaimReplyLost(w) \/ ClaimAbort(w) \/ ClaimNothing(w)
  \/ Execute(w) \/ Tick(w) \/ MarkCompleted(w) \/ MarkFailed(w) \/ MarkLost(w)
  \/ Crash(w) \/ Restart(w)

Next ==
  \/ \E r \in Runs : TriggerRun(r) \/ EnqueueEnds(r)
  \/ \E j \in Jobs : InsertNewJob(j) \/ HeartbeatExpires(j) \/ BeatLands(j)
  \/ \E w \in Workers : WorkerStep(w)
  \/ ReclaimStuckJobs

Spec == Init /\ [][Next]_vars

-----------------------------------------------------------------------------
(* Fairness.  A worker that is up keeps polling, commands terminate, a     *)
(* statement that is retried for ever eventually commits, the age of an    *)
(* orphaned heartbeat grows, and the reclaim timer of some process fires.  *)
(* Nothing makes a crashed worker come back, and nothing makes a mark that *)
(* is sent succeed.                                                        *)

OrphanExpires(j) == HeartbeatExpires(j) /\ \A w \in Workers : ~Works(w, j)

Fairness ==
  /\ \A w \in Workers :
       /\ WF_vars(ClaimLock(w))
       /\ SF_vars(ClaimCommit(w) \/ ClaimReplyLost(w))
       /\ WF_vars(Execute(w))
       /\ WF_vars(MarkCompleted(w) \/ MarkFailed(w) \/ MarkLost(w))
  /\ \A j \in Jobs : WF_vars(OrphanExpires(j))
  /\ WF_vars(ReclaimStuckJobs)

FairSpec == Spec /\ Fairness

-----------------------------------------------------------------------------
(* Properties *)

TypeOK ==
  /\ jobs \in [Jobs -> Row]
  /\ enqueue \in [Runs -> {"none", "inserting", "done"}]
  /\ phase \in [Workers -> Phase]
  /\ task \in [Workers -> Jobs \cup {NoJob}]
  /\ beats \subseteq Jobs
  /\ attempts \in [Jobs -> Nat]
  /\ late \subseteq Jobs

\* However workers crash, stall, lose replies and mark rows that are no longer
\* theirs, no job is handed out more than max_retries + 1 times: every way back
\* to 'pending' (markFailed, reclaimStuckJobs) counts a retry, and a row whose
\* retries are used up does not come back.
BoundedAttempts == \A j \in Jobs : attempts[j] <= MaxRetries + 1

\* While every heartbeat of a job in hand arrives in time, a job is in the
\* hands of at most one worker, and of one that holds the claim on the row:
\* neither SKIP LOCKED nor the reclaim gives it away twice.
ExclusiveExecution ==
  \A j \in Jobs : \A w \in Workers :
    Works(w, j) =>
      /\ jobs[j].status = "running" /\ jobs[j].claimed_by = w
      /\ \A v \in Workers : Works(v, j) => v = w

\* While heartbeats are in time, each hand-out of a job is paid for by exactly
\* one retry, whether it ends in markFailed or in the reclaim: none is lost and
\* none is counted twice.
RetryAccounting ==
  \A j \in Jobs :
    attempts[j] = jobs[j].retry_count + (IF jobs[j].status \in {"running", "success"} THEN 1 ELSE 0)

\* While heartbeats are in time, a step starts only when the earlier steps of
\* its run have ended and none of them starts again, except for steps whose
\* insert was overtaken by the start of a later one.
StepOrderKept ==
  \A i, j \in Jobs :
    Earlier(i, j) /\ Present(jobs, i) /\ i \notin late /\ Started(j) => jobs[i].status \in Terminal

\* While heartbeats are in time, a job that succeeded or failed is never
\* changed again, by no worker and by no reclaim, but for a heartbeat that was
\* sent before its end.
TerminalFinal ==
  [][\A j \in Jobs : jobs[j].status \in Terminal =>
       jobs'[j] \in {jobs[j], BeatenRow(jobs[j])}]_vars

\* A job nobody can free: the reclaim passes over it because its retries are
\* used up, and no worker is left that would mark it.
Stuck(j) ==
  /\ jobs[j].status = "running" /\ jobs[j].retry_count >= MaxRetries
  /\ \A w \in Workers : ~Works(w, j)

Settled(j) ==
  \/ ~Present(jobs, j)
  \/ jobs[j].status \in Terminal
  \/ Stuck(j)
  \/ jobs[j].status = "pending" /\ \E i \in Jobs : Earlier(i, j) /\ Stuck(i)

\* Somebody has something to do: a claim or a job in hand, a row the next poll
\* locks, or a running job the reclaim takes once its heartbeat is old.
WorkLeft ==
  \/ \E w \in Workers : phase[w] \in {"claiming"} \cup InHand
  \/ FirstOf(Candidates) # {}
  \/ \E j \in Jobs : Reclaimable([jobs[j] EXCEPT !.heartbeat_at = "stale"])

\* Steps never wait for each other: the order the claim asks for (stages, then
\* steps), the ranking it picks by and the limit of the reclaim leave something
\* to do as long as a job has not settled, be heartbeats in time or not.
NoStall == (\A j \in Jobs : Settled(j)) \/ WorkLeft

\* If some worker stays up, the queue drains: every job inserted ends in
\* 'success' or 'failed', or is stuck with no retry left, or waits behind a job
\* of its run that is.
QueueDrains ==
  (\E w \in Workers : <>[](phase[w] # "down")) => <>[](\A j \in Jobs : Settled(j))

\* What a client of the queue sees of it: the status, who works on the job and
\* how many retries it has used.
LifeState == [j \in Jobs |-> jobs[j].status]
LifeRunner == [j \in Jobs |-> IF \E w \in Workers : Works(w, j) THEN jobs[j].claimed_by ELSE Nobody]
LifeTries == [j \in Jobs |-> jobs[j].retry_count]

Lifecycle == INSTANCE JobLifecycle WITH state <- LifeState, runner <- LifeRunner, tries <- LifeTries

\* While heartbeats are in time, the two-step claims, the unconditional marks
\* and the reclaim of all stale rows at once behave as a queue that gives each
\* job to one worker at a time and takes it back only when it was abandoned.
ImplementsLifecycle == Lifecycle!Spec

-----------------------------------------------------------------------------
(* What the documentation says and the code does not keep *)

\* "returns a job or null if none pending" (job-claimer.service.ts:18): what
\* claimNext hands to the executor is a job.
ClaimsAreJobs == \A w \in Workers : phase[w] \in InHand => task[w] \in Jobs

\* "heartbeats let other workers pick up where a crashed one left off"
\* (README.md:23): a running job nobody works on does not stay so for ever.
OrphansRecovered ==
  \A j \in Jobs :
    (jobs[j].status = "running" /\ \A w \in Workers : ~Works(w, j)) ~>
      (jobs[j].status # "running" \/ \E w \in Workers : Works(w, j))
=============================================================================
