-------------------------- MODULE JobQueue_proofs ---------------------------
(***************************************************************************)
(* Theorems about JobQueue for every set of jobs, workers and runs, every  *)
(* order of steps and every value of max_retries.                          *)
(***************************************************************************)
EXTENDS JobQueue, JobTable_proofs

-----------------------------------------------------------------------------
(* Type correctness *)

LEMMA TypeInit == Init => TypeOK
  BY NewRows, QueueAssumption DEF Init, TypeOK, Phase, InHand

LEMMA TypeStep == TypeOK /\ [Next]_vars => TypeOK'
<1> SUFFICES ASSUME TypeOK, [Next]_vars PROVE TypeOK'
  OBVIOUS
<1> USE DEF TypeOK, Phase, InHand
<1>1. ASSUME NEW r \in Runs, TriggerRun(r) PROVE TypeOK'
  BY <1>1 DEF TriggerRun
<1>2. ASSUME NEW r \in Runs, EnqueueEnds(r) PROVE TypeOK'
  BY <1>2 DEF EnqueueEnds
<1>3. ASSUME NEW j \in Jobs, InsertNewJob(j) PROVE TypeOK'
  BY <1>3, NewRows DEF InsertNewJob
<1>4. ASSUME NEW j \in Jobs, HeartbeatExpires(j) PROVE TypeOK'
  BY <1>4, StaleRowIs DEF HeartbeatExpires
<1>5. ASSUME NEW j \in Jobs, BeatLands(j) PROVE TypeOK'
  BY <1>5, BeatenRowIs DEF BeatLands
<1>6. ASSUME NEW w \in Workers, WorkerStep(w) PROVE TypeOK'
  <2>1. CASE ClaimLock(w)
    BY <2>1 DEF ClaimLock, FirstOf, Candidates
  <2>2. ASSUME ClaimApplied(w) PROVE jobs' \in [Jobs -> Row] /\ attempts' \in [Jobs -> Nat]
    <3>1. CASE task[w] \in Jobs
      BY <2>2, <3>1, ClaimedRowIs DEF ClaimApplied
    <3>2. CASE task[w] \notin Jobs
      BY <2>2, <3>2 DEF ClaimApplied
    <3> QED
      BY <3>1, <3>2
  <2>3. CASE ClaimCommit(w)
    BY <2>2, <2>3 DEF ClaimCommit
  <2>4. CASE ClaimReplyLost(w)
    BY <2>2, <2>4 DEF ClaimReplyLost
  <2>5. CASE ClaimAbort(w)
    BY <2>5 DEF ClaimAbort
  <2>6. CASE ClaimNothing(w)
    BY <2>6 DEF ClaimNothing
  <2>7. CASE Execute(w)
    BY <2>7 DEF Execute
  <2>8. CASE Tick(w)
    BY <2>8 DEF Tick
  <2>9. CASE MarkCompleted(w)
    BY <2>9, CompletedRowIs DEF MarkCompleted, LoopAgain
  <2>10. CASE MarkFailed(w)
    BY <2>10, FailedRowIs DEF MarkFailed, LoopAgain
  <2>11. CASE MarkLost(w)
    BY <2>11 DEF MarkLost, LoopAgain
  <2>12. CASE Crash(w)
    BY <2>12 DEF Crash
  <2>13. CASE Restart(w)
    BY <2>13 DEF Restart
  <2> QED
    BY <1>6, <2>1, <2>3, <2>4, <2>5, <2>6, <2>7, <2>8, <2>9, <2>10, <2>11, <2>12, <2>13
       DEF WorkerStep
<1>7. CASE ReclaimStuckJobs
  BY <1>7, ReclaimedRowIs DEF ReclaimStuckJobs
<1>8. CASE UNCHANGED vars
  BY <1>8 DEF vars
<1> QED
  BY <1>1, <1>2, <1>3, <1>4, <1>5, <1>6, <1>7, <1>8 DEF Next

\* Every column and every local of runLoop keeps its type; in particular
\* retry_count never leaves the naturals and no statement writes a status the
\* claim does not know.
THEOREM TypeCorrect == Spec => []TypeOK
  BY TypeInit, TypeStep, PTL DEF Spec

-----------------------------------------------------------------------------
(* Row locks: what holds from the sub-select of a claim to its commit, and *)
(* the job variable of runLoop                                             *)

\* A claim in progress holds, alone, the lock of a pending row; a worker acts
\* only for rows that are in the table.
RowLocks ==
  \A w \in Workers :
    /\ task[w] \in Jobs => Present(jobs, task[w])
    /\ phase[w] \in {"idle", "down"} => task[w] = NoJob
    /\ phase[w] = "succeeded" => task[w] \in Jobs
    /\ phase[w] = "claiming" => task[w] \in Jobs /\ jobs[task[w]].status = "pending"
    /\ phase[w] = "claiming" =>
         \A v \in Workers : phase[v] = "claiming" /\ task[v] = task[w] => v = w

LEMMA RowLocksInit == Init => RowLocks
  BY QueueAssumption DEF Init, RowLocks

\* A step that leaves phase and task alone, keeps the locked rows pending and
\* removes no row keeps RowLocks.
LEMMA RowLocksFrame ==
  ASSUME TypeOK, RowLocks, UNCHANGED <<phase, task>>,
         \A j \in Jobs : Present(jobs, j) => Present(jobs', j),
         \A j \in Jobs : Locked(j) => jobs'[j].status = jobs[j].status
  PROVE  RowLocks'
  BY DEF TypeOK, RowLocks, Locked

LEMMA RowLocksStep == TypeOK /\ RowLocks /\ [Next]_vars => RowLocks'
<1> SUFFICES ASSUME TypeOK, RowLocks, [Next]_vars PROVE RowLocks'
  OBVIOUS
<1>p. \A j \in Jobs : Locked(j) => jobs[j].status = "pending"
  BY DEF RowLocks, Locked
<1>1. ASSUME NEW r \in Runs, TriggerRun(r) PROVE RowLocks'
  BY <1>1, RowLocksFrame DEF TriggerRun
<1>2. ASSUME NEW r \in Runs, EnqueueEnds(r) PROVE RowLocks'
  BY <1>2, RowLocksFrame DEF EnqueueEnds
<1>3. ASSUME NEW j \in Jobs, InsertNewJob(j) PROVE RowLocks'
  <2>1. \A i \in Jobs : i # j => jobs'[i] = jobs[i]
    BY <1>3 DEF InsertNewJob, TypeOK
  <2>2. jobs'[j].status = "pending" /\ jobs[j].status = "absent"
    BY <1>3, NewRows DEF InsertNewJob, TypeOK, Present
  <2> QED
    BY <1>3, <1>p, <2>1, <2>2, RowLocksFrame DEF InsertNewJob, Present
<1>4. ASSUME NEW j \in Jobs, HeartbeatExpires(j) PROVE RowLocks'
  <2>1. \A i \in Jobs : jobs'[i].status = jobs[i].status
    BY <1>4, StaleRowIs DEF HeartbeatExpires, TypeOK
  <2> QED
    BY <1>4, <2>1, RowLocksFrame DEF HeartbeatExpires, Present
<1>5. ASSUME NEW j \in Jobs, BeatLands(j) PROVE RowLocks'
  <2>1. \A i \in Jobs : jobs'[i].status = jobs[i].status
    BY <1>5, BeatenRowIs DEF BeatLands, TypeOK
  <2> QED
    BY <1>5, <2>1, RowLocksFrame DEF BeatLands, Present
<1>6. ASSUME NEW w \in Workers, WorkerStep(w) PROVE RowLocks'
  <2>1. CASE ClaimLock(w)
    <3>1. PICK j \in FirstOf(Candidates) : task' = [task EXCEPT ![w] = j]
      BY <2>1 DEF ClaimLock
    <3>2. j \in Jobs /\ jobs[j].status = "pending" /\ ~Locked(j)
      BY <3>1 DEF FirstOf, Candidates, Claimable
    <3> QED
      BY <2>1, <3>1, <3>2 DEF ClaimLock, RowLocks, TypeOK, Locked, Present
  <2>2. ASSUME ClaimApplied(w), phase[w] = "claiming"
        PROVE  /\ task[w] \in Jobs
               /\ jobs'[task[w]].status = "running"
               /\ \A i \in Jobs : i # task[w] => jobs'[i] = jobs[i]
    BY <2>2, ClaimedRowIs DEF ClaimApplied, RowLocks, TypeOK
  <2>3. CASE ClaimCommit(w)
    BY <2>2, <2>3, QueueAssumption DEF ClaimCommit, RowLocks, TypeOK, Present
  <2>4. CASE ClaimReplyLost(w)
    BY <2>2, <2>4, QueueAssumption DEF ClaimReplyLost, RowLocks, TypeOK, Present
  <2>5. CASE ClaimAbort(w)
    BY <2>5, QueueAssumption DEF ClaimAbort, RowLocks, TypeOK
  <2>6. CASE ClaimNothing(w)
    BY <2>6 DEF ClaimNothing, RowLocks, TypeOK
  <2>7. CASE Execute(w)
    BY <2>7 DEF Execute, RowLocks, TypeOK
  <2>8. CASE Tick(w)
    BY <2>8, RowLocksFrame DEF Tick
  <2>9. CASE MarkCompleted(w)
    <3>1. /\ task[w] \in Jobs /\ ~Locked(task[w])
          /\ jobs'[task[w]].status = "success"
          /\ \A i \in Jobs : i # task[w] => jobs'[i] = jobs[i]
      BY <2>9, CompletedRowIs DEF MarkCompleted, RowLocks, TypeOK
    <3> QED
      BY <2>9, <3>1, QueueAssumption
         DEF MarkCompleted, LoopAgain, RowLocks, TypeOK, Locked, Present
  <2>10. CASE MarkFailed(w)
    <3>1. CASE task[w] = NoJob
      BY <2>10, <3>1, QueueAssumption DEF MarkFailed, LoopAgain, RowLocks, TypeOK
    <3>2. CASE task[w] # NoJob
      <4>1. /\ task[w] \in Jobs /\ ~Locked(task[w])
            /\ jobs'[task[w]].status \in {"failed", "pending"}
            /\ \A i \in Jobs : i # task[w] => jobs'[i] = jobs[i]
        BY <2>10, <3>2, FailedRowIs DEF MarkFailed, TypeOK
      <4> QED
        BY <2>10, <4>1, QueueAssumption
           DEF MarkFailed, LoopAgain, RowLocks, TypeOK, Locked, Present
    <3> QED
      BY <3>1, <3>2
  <2>11. CASE MarkLost(w)
    BY <2>11, QueueAssumption DEF MarkLost, LoopAgain, RowLocks, TypeOK
  <2>12. CASE Crash(w)
    BY <2>12, QueueAssumption DEF Crash, RowLocks, TypeOK
  <2>13. CASE Restart(w)
    BY <2>13 DEF Restart, RowLocks, TypeOK
  <2> QED
    BY <1>6, <2>1, <2>3, <2>4, <2>5, <2>6, <2>7, <2>8, <2>9, <2>10, <2>11, <2>12, <2>13
       DEF WorkerStep
<1>7. CASE ReclaimStuckJobs
  <2>1. \A i \in Jobs : \/ jobs'[i] = jobs[i]
                        \/ jobs[i].status = "running" /\ jobs'[i].status = "pending"
    BY <1>7, ReclaimedRowIs DEF ReclaimStuckJobs, Reclaimable, TypeOK
  <2> QED
    BY <1>7, <1>p, <2>1, RowLocksFrame DEF ReclaimStuckJobs, Present
<1>8. CASE UNCHANGED vars
  BY <1>8 DEF vars, RowLocks
<1> QED
  BY <1>1, <1>2, <1>3, <1>4, <1>5, <1>6, <1>7, <1>8 DEF Next

-----------------------------------------------------------------------------
(* The bound on hand-outs *)

\* A job that waits has paid a retry for each hand-out, and still has one to
\* spend on the next.
Budget ==
  \A j \in Jobs :
    /\ attempts[j] <= jobs[j].retry_count + 1
    /\ attempts[j] <= MaxRetries + 1
    /\ ~Present(jobs, j) => attempts[j] = 0
    /\ jobs[j].status = "pending" =>
         attempts[j] <= jobs[j].retry_count /\ jobs[j].retry_count <= MaxRetries

\* What a step may do to a row, as far as the budget goes.
BudgetKept(j) ==
  \/ /\ jobs'[j].retry_count = jobs[j].retry_count /\ attempts'[j] = attempts[j]
     /\ \/ jobs'[j].status = jobs[j].status
        \/ Present(jobs, j) /\ Present(jobs', j) /\ jobs'[j].status # "pending"
  \/ ~Present(jobs, j) /\ jobs'[j].retry_count = 0 /\ attempts'[j] = attempts[j]
  \/ /\ jobs[j].status = "pending" /\ jobs'[j].status = "running"
     /\ jobs'[j].retry_count = jobs[j].retry_count /\ attempts'[j] = attempts[j] + 1
  \/ /\ Present(jobs, j) /\ Present(jobs', j)
     /\ jobs'[j].retry_count = jobs[j].retry_count + 1 /\ attempts'[j] = attempts[j]
     /\ jobs'[j].status = "pending" => jobs[j].retry_count < MaxRetries

LEMMA BudgetInit == Init => Budget
<1> SUFFICES ASSUME Init PROVE Budget
  OBVIOUS
<1>1. \A j \in Jobs : attempts[j] = 0 /\ jobs[j].retry_count = 0 /\ jobs[j].status = "absent"
  BY NewRows DEF Init
<1>2. 0 <= 0 + 1 /\ 0 <= MaxRetries + 1
  BY JobsAssumption
<1> QED
  BY <1>1, <1>2 DEF Budget

LEMMA BudgetFrame ==
  ASSUME TypeOK, TypeOK', Budget, \A j \in Jobs : BudgetKept(j)
  PROVE  Budget'
<1> SUFFICES ASSUME NEW j \in Jobs
    PROVE  /\ attempts'[j] <= jobs'[j].retry_count + 1
           /\ attempts'[j] <= MaxRetries + 1
           /\ ~Present(jobs', j) => attempts'[j] = 0
           /\ jobs'[j].status = "pending" =>
                attempts'[j] <= jobs'[j].retry_count /\ jobs'[j].retry_count <= MaxRetries
  BY DEF Budget
<1>1. /\ jobs[j].retry_count \in Nat /\ jobs'[j].retry_count \in Nat
      /\ attempts[j] \in Nat /\ attempts'[j] \in Nat /\ MaxRetries \in Nat
  BY JobsAssumption DEF TypeOK, Row
<1> QED
  BY <1>1 DEF BudgetKept, Budget, Present

LEMMA BudgetStep == TypeOK /\ TypeOK' /\ RowLocks /\ Budget /\ [Next]_vars => Budget'
<1> SUFFICES ASSUME TypeOK, TypeOK', RowLocks, Budget, [Next]_vars
    PROVE  \A j \in Jobs : BudgetKept(j)
  BY BudgetFrame
<1>1. ASSUME UNCHANGED <<jobs, attempts>> PROVE \A j \in Jobs : BudgetKept(j)
  BY <1>1 DEF BudgetKept
<1>2. ASSUME NEW r \in Runs, TriggerRun(r) \/ EnqueueEnds(r) PROVE \A j \in Jobs : BudgetKept(j)
  BY <1>1, <1>2 DEF TriggerRun, EnqueueEnds
<1>3. ASSUME NEW k \in Jobs, InsertNewJob(k) PROVE \A j \in Jobs : BudgetKept(j)
  BY <1>3, NewRows DEF InsertNewJob, BudgetKept, TypeOK, Present
<1>4. ASSUME NEW k \in Jobs, HeartbeatExpires(k) PROVE \A j \in Jobs : BudgetKept(j)
  BY <1>4, StaleRowIs DEF HeartbeatExpires, BudgetKept, TypeOK
<1>5. ASSUME NEW k \in Jobs, BeatLands(k) PROVE \A j \in Jobs : BudgetKept(j)
  BY <1>5, BeatenRowIs DEF BeatLands, BudgetKept, TypeOK
<1>6. ASSUME NEW w \in Workers, WorkerStep(w) PROVE \A j \in Jobs : BudgetKept(j)
  <2>1. ASSUME ClaimApplied(w), phase[w] = "claiming" PROVE \A j \in Jobs : BudgetKept(j)
    <3>1. task[w] \in Jobs /\ jobs[task[w]].status = "pending"
      BY <2>1 DEF RowLocks
    <3> QED
      BY <2>1, <3>1, ClaimedRowIs DEF ClaimApplied, BudgetKept, TypeOK
  <2>3. CASE MarkCompleted(w)
    BY <2>3, CompletedRowIs DEF MarkCompleted, LoopAgain, RowLocks, BudgetKept, TypeOK, Present
  <2>4. CASE MarkFailed(w)
    <3>1. CASE task[w] = NoJob
      BY <1>1, <2>4, <3>1 DEF MarkFailed, LoopAgain
    <3>2. CASE task[w] # NoJob
      <4>1. task[w] \in Jobs /\ Present(jobs, task[w])
        BY <3>2 DEF TypeOK, RowLocks
      <4>2. jobs' = [jobs EXCEPT ![task[w]] = FailedRow(jobs[task[w]])] /\ attempts' = attempts
        BY <2>4, <3>2 DEF MarkFailed, LoopAgain
      <4>3. jobs[task[w]].retry_count \in Nat /\ MaxRetries \in Nat
        BY <4>1, JobsAssumption DEF TypeOK, Row
      <4>4. ASSUME NEW j \in Jobs, j # task[w] PROVE BudgetKept(j)
        BY <4>2, <4>4 DEF BudgetKept, TypeOK
      <4>5. jobs'[task[w]] = FailedRow(jobs[task[w]]) /\ jobs[task[w]] \in Row
        BY <4>1, <4>2 DEF TypeOK
      <4>6. BudgetKept(task[w])
        BY <4>1, <4>2, <4>3, <4>5, FailedRowIs DEF BudgetKept, Present
      <4> QED
        BY <4>4, <4>6
    <3> QED
      BY <3>1, <3>2
  <2>5. CASE ClaimCommit(w) \/ ClaimReplyLost(w)
    BY <2>1, <2>5 DEF ClaimCommit, ClaimReplyLost
  <2>6. CASE \/ ClaimLock(w) \/ ClaimAbort(w) \/ ClaimNothing(w) \/ Execute(w) \/ Tick(w)
             \/ MarkLost(w) \/ Crash(w) \/ Restart(w)
    BY <1>1, <2>6
       DEF ClaimLock, ClaimAbort, ClaimNothing, Execute, Tick, MarkLost, LoopAgain, Crash, Restart
  <2> QED
    BY <1>6, <2>3, <2>4, <2>5, <2>6 DEF WorkerStep
<1>7. CASE ReclaimStuckJobs
  <2> SUFFICES ASSUME NEW j \in Jobs PROVE BudgetKept(j)
    OBVIOUS
  <2>1. jobs[j] \in Row /\ attempts' = attempts
    BY <1>7 DEF TypeOK, ReclaimStuckJobs
  <2>2. CASE Reclaimable(jobs[j])
    BY <1>7, <2>1, <2>2, ReclaimedRowIs DEF ReclaimStuckJobs, Reclaimable, BudgetKept, Present
  <2>3. CASE ~Reclaimable(jobs[j])
    BY <1>7, <2>1, <2>3 DEF ReclaimStuckJobs, BudgetKept
  <2> QED
    BY <2>2, <2>3
<1>8. CASE UNCHANGED vars
  BY <1>1, <1>8 DEF vars
<1> QED
  BY <1>2, <1>3, <1>4, <1>5, <1>6, <1>7, <1>8 DEF Next

\* Whatever crashes, stalls and lost replies do, and whether or not heartbeats
\* are in time, no job is handed out more than max_retries + 1 times.
THEOREM AttemptsBounded == Spec => []BoundedAttempts
<1>1. Init => TypeOK /\ RowLocks /\ Budget
  BY TypeInit, RowLocksInit, BudgetInit
<1>2. TypeOK /\ RowLocks /\ Budget /\ [Next]_vars => (TypeOK /\ RowLocks /\ Budget)'
  BY TypeStep, RowLocksStep, BudgetStep
<1>3. Budget => BoundedAttempts
  BY DEF Budget, BoundedAttempts
<1> QED
  BY <1>1, <1>2, <1>3, PTL DEF Spec

-----------------------------------------------------------------------------
(* Heartbeats in time: the claim on the row protects the worker that holds *)
(* it.  Exclusion alone is not inductive; what keeps the reclaim away is   *)
(* that the heartbeat of a job in hand is fresh, and what keeps the claims *)
(* away is that its row is not pending.                                    *)

Leased ==
  \A j \in Jobs : \A w \in Workers :
    Works(w, j) =>
      /\ jobs[j].status = "running" /\ jobs[j].claimed_by = w
      /\ jobs[j].heartbeat_at = "fresh"

LEMMA LeasedInit == Init => Leased
  BY DEF Init, Leased, Works, InHand

\* A step that gives nobody a job and keeps the rows in hand as they are, but
\* for a heartbeat, keeps Leased.
LEMMA LeasedFrame ==
  ASSUME Leased,
         \A j \in Jobs : \A v \in Workers : Works(v, j)' => Works(v, j),
         \A j \in Jobs : \A v \in Workers : Works(v, j)' =>
           /\ jobs'[j].status = jobs[j].status /\ jobs'[j].claimed_by = jobs[j].claimed_by
           /\ jobs'[j].heartbeat_at = "fresh"
  PROVE  Leased'
  BY DEF Leased

LEMMA LeasedStep == Timely /\ TypeOK /\ RowLocks /\ Leased /\ [Next]_vars => Leased'
<1> SUFFICES ASSUME Timely, TypeOK, RowLocks, Leased, [Next]_vars PROVE Leased'
  OBVIOUS
<1>1. ASSUME jobs' = jobs, \A j \in Jobs : \A v \in Workers : Works(v, j)' => Works(v, j)
      PROVE  Leased'
  BY <1>1, LeasedFrame DEF Leased
<1>2. ASSUME NEW r \in Runs, TriggerRun(r) \/ EnqueueEnds(r) PROVE Leased'
  BY <1>1, <1>2 DEF TriggerRun, EnqueueEnds, Works
<1>3. ASSUME NEW k \in Jobs, InsertNewJob(k) PROVE Leased'
  <2>1. \A j \in Jobs : \A v \in Workers : Works(v, j)' => Works(v, j) /\ j # k
    BY <1>3 DEF InsertNewJob, Works, Leased, Present
  <2>2. \A j \in Jobs : j # k => jobs'[j] = jobs[j]
    BY <1>3 DEF InsertNewJob, TypeOK
  <2> QED
    BY <2>1, <2>2, LeasedFrame DEF Leased
<1>4. ASSUME NEW k \in Jobs, HeartbeatExpires(k) PROVE Leased'
  <2>1. \A j \in Jobs : \A v \in Workers : Works(v, j)' => Works(v, j) /\ j # k
    BY <1>4 DEF HeartbeatExpires, Works
  <2>2. \A j \in Jobs : j # k => jobs'[j] = jobs[j]
    BY <1>4 DEF HeartbeatExpires, TypeOK
  <2> QED
    BY <2>1, <2>2, LeasedFrame DEF Leased
<1>5. ASSUME NEW k \in Jobs, BeatLands(k) PROVE Leased'
  <2>1. \A j \in Jobs : \A v \in Workers : Works(v, j)' => Works(v, j)
    BY <1>5 DEF BeatLands, Works
  <2>2. \A j \in Jobs : \/ jobs'[j] = jobs[j]
                        \/ jobs'[j] = BeatenRow(jobs[j]) /\ jobs[j] \in Row
    BY <1>5 DEF BeatLands, TypeOK
  <2> QED
    BY <2>1, <2>2, BeatenRowIs, LeasedFrame DEF Leased
<1>6. ASSUME NEW w \in Workers, WorkerStep(w) PROVE Leased'
  <2>1. CASE ClaimLock(w)
    BY <1>1, <2>1 DEF ClaimLock, Works, InHand, TypeOK
  <2>2. ASSUME ClaimApplied(w), phase[w] = "claiming"
        PROVE  /\ task[w] \in Jobs
               /\ jobs'[task[w]] = ClaimedRow(jobs[task[w]], w) /\ jobs[task[w]] \in Row
               /\ \A v \in Workers : ~Works(v, task[w])
               /\ \A j \in Jobs : j # task[w] => jobs'[j] = jobs[j]
    <3>1. task[w] \in Jobs /\ jobs[task[w]].status = "pending"
      BY <2>2 DEF RowLocks
    <3>2. \A v \in Workers : ~Works(v, task[w])
      BY <3>1 DEF Leased
    <3> QED
      BY <2>2, <3>1, <3>2 DEF ClaimApplied, TypeOK
  <2>3. CASE ClaimCommit(w)
    <3>1. \A j \in Jobs : j # task[w] => \A v \in Workers : Works(v, j)' => Works(v, j)
      BY <2>3, QueueAssumption DEF ClaimCommit, Works, InHand, TypeOK
    <3>2. phase[w] = "claiming" /\ ClaimApplied(w)
      BY <2>3 DEF ClaimCommit
    <3>3. \A j \in Jobs : j = task[w] => \A v \in Workers : Works(v, j)' => v = w
      <4> SUFFICES ASSUME NEW j \in Jobs, j = task[w], NEW v \in Workers, Works(v, j)', v # w
          PROVE  FALSE
        OBVIOUS
      <4>1. task'[v] = task[v] /\ phase'[v] = phase[v]
        BY <2>3 DEF ClaimCommit, TypeOK
      <4> QED
        BY <2>2, <3>2, <4>1 DEF Works
    <3>4. /\ jobs'[task[w]].status = "running" /\ jobs'[task[w]].claimed_by = w
          /\ jobs'[task[w]].heartbeat_at = "fresh"
      BY <2>2, <3>2, ClaimedRowIs
    <3> SUFFICES ASSUME NEW j \in Jobs, NEW v \in Workers, Works(v, j)'
        PROVE  /\ jobs'[j].status = "running" /\ jobs'[j].claimed_by = v
               /\ jobs'[j].heartbeat_at = "fresh"
      BY DEF Leased
    <3>5. CASE j = task[w]
      BY <3>3, <3>4, <3>5
    <3>6. CASE j # task[w]
      BY <2>2, <3>1, <3>2, <3>6 DEF Leased
    <3> QED
      BY <3>5, <3>6
  <2>4. CASE ClaimReplyLost(w)
    <3>1. \A j \in Jobs : \A v \in Workers : Works(v, j)' => Works(v, j)
      BY <2>4, QueueAssumption DEF ClaimReplyLost, Works, InHand, TypeOK
    <3>2. phase[w] = "claiming" /\ ClaimApplied(w)
      BY <2>4 DEF ClaimReplyLost
    <3> QED
      BY <2>2, <3>1, <3>2, LeasedFrame DEF Leased
  <2>5. CASE ClaimAbort(w)
    BY <1>1, <2>5 DEF ClaimAbort, Works, InHand, TypeOK
  <2>6. CASE ClaimNothing(w)
    BY <1>1, <2>6, QueueAssumption DEF ClaimNothing, Works, InHand, TypeOK, RowLocks
  <2>7. CASE Execute(w)
    BY <1>1, <2>7 DEF Execute, Works, InHand, TypeOK
  <2>8. CASE Tick(w)
    BY <1>1, <2>8 DEF Tick, Works
  <2>9. ASSUME phase[w] \in InHand, LoopAgain(w),
               \A j \in Jobs : ~Works(w, j) => jobs'[j] = jobs[j]
        PROVE  Leased'
    <3>1. \A j \in Jobs : \A v \in Workers : Works(v, j)' => Works(v, j) /\ v # w
      BY <2>9 DEF LoopAgain, Works, InHand, TypeOK
    <3>2. \A j \in Jobs : \A v \in Workers : Works(v, j) /\ v # w => ~Works(w, j)
      BY DEF Leased
    <3> QED
      BY <2>9, <3>1, <3>2, LeasedFrame DEF Leased
  <2>10. CASE MarkCompleted(w)
    BY <2>9, <2>10 DEF MarkCompleted, InHand, Works, TypeOK
  <2>11. CASE MarkFailed(w)
    BY <2>9, <2>11 DEF MarkFailed, InHand, Works, TypeOK
  <2>12. CASE MarkLost(w)
    BY <2>9, <2>12 DEF MarkLost, InHand
  <2>13. CASE Crash(w)
    BY <1>1, <2>13 DEF Crash, Works, InHand, TypeOK
  <2>14. CASE Restart(w)
    BY <1>1, <2>14 DEF Restart, Works, InHand, TypeOK
  <2> QED
    BY <1>6, <2>1, <2>3, <2>4, <2>5, <2>6, <2>7, <2>8, <2>10, <2>11, <2>12, <2>13, <2>14
       DEF WorkerStep
<1>7. CASE ReclaimStuckJobs
  <2>1. \A j \in Jobs : \A v \in Workers : Works(v, j)' => Works(v, j)
    BY <1>7 DEF ReclaimStuckJobs, Works
  <2>2. \A j \in Jobs : \A v \in Workers : Works(v, j) => jobs'[j] = jobs[j]
    BY <1>7 DEF ReclaimStuckJobs, Reclaimable, Leased
  <2> QED
    BY <2>1, <2>2, LeasedFrame DEF Leased
<1>8. CASE UNCHANGED vars
  BY <1>1, <1>8 DEF vars, Works
<1> QED
  BY <1>2, <1>3, <1>4, <1>5, <1>6, <1>7, <1>8 DEF Next

LEMMA LeasedAlways == Timely => (Spec => [](TypeOK /\ RowLocks /\ Leased))
<1>1. Init => TypeOK /\ RowLocks /\ Leased
  BY TypeInit, RowLocksInit, LeasedInit
<1> SUFFICES ASSUME Timely PROVE Spec => [](TypeOK /\ RowLocks /\ Leased)
  OBVIOUS
<1>2. TypeOK /\ RowLocks /\ Leased /\ [Next]_vars => (TypeOK /\ RowLocks /\ Leased)'
  BY TypeStep, RowLocksStep, LeasedStep
<1> QED
  BY <1>1, <1>2, PTL DEF Spec

\* While heartbeats are in time, SKIP LOCKED and the reclaim together give a
\* job to one worker at a time, the one its row names.
THEOREM ExecutionExclusive == Timely => (Spec => []ExclusiveExecution)
<1>1. Leased => ExclusiveExecution
  BY DEF Leased, ExclusiveExecution
<1> QED
  BY <1>1, LeasedAlways, PTL

-----------------------------------------------------------------------------
(* What a step does to the row of a job, heartbeats in time.  The changes  *)
(* are those of the abstract queue: every one of them starts from a row    *)
(* that is absent, pending and locked, or running.                         *)

RowStep(j) ==
  \/ jobs'[j].status = jobs[j].status /\ jobs'[j].retry_count = jobs[j].retry_count
     /\ attempts'[j] = attempts[j]
     /\ (jobs[j].status \in Terminal => jobs'[j] \in {jobs[j], BeatenRow(jobs[j])})
  \/ InsertNewJob(j) /\ jobs'[j].status = "pending" /\ jobs'[j].retry_count = 0
     /\ attempts'[j] = attempts[j]
  \/ jobs[j].status = "pending" /\ Locked(j) /\ jobs'[j].status = "running"
     /\ jobs'[j].retry_count = jobs[j].retry_count /\ attempts'[j] = attempts[j] + 1
  \/ jobs[j].status = "running" /\ jobs'[j].status = "success"
     /\ jobs'[j].retry_count = jobs[j].retry_count /\ attempts'[j] = attempts[j]
  \/ jobs[j].status = "running" /\ jobs'[j].status \in {"pending", "failed"}
     /\ jobs'[j].retry_count = jobs[j].retry_count + 1 /\ attempts'[j] = attempts[j]

LEMMA RowSteps == Timely /\ TypeOK /\ RowLocks /\ Leased /\ [Next]_vars => \A j \in Jobs : RowStep(j)
<1> SUFFICES ASSUME Timely, TypeOK, RowLocks, Leased, [Next]_vars, NEW j \in Jobs PROVE RowStep(j)
  OBVIOUS
<1>1. ASSUME jobs'[j] = jobs[j], attempts'[j] = attempts[j] PROVE RowStep(j)
  BY <1>1 DEF RowStep
<1>t. jobs[j] \in Row
  BY DEF TypeOK
<1>2. ASSUME NEW r \in Runs, TriggerRun(r) \/ EnqueueEnds(r) PROVE RowStep(j)
  BY <1>1, <1>2 DEF TriggerRun, EnqueueEnds
<1>3. ASSUME NEW k \in Jobs, InsertNewJob(k) PROVE RowStep(j)
  <2>1. CASE k = j
    <3>1. jobs'[j] = InsertedRow /\ attempts' = attempts
      BY <1>3, <2>1 DEF InsertNewJob, TypeOK
    <3> QED
      BY <1>3, <2>1, <3>1, NewRows DEF RowStep
  <2>2. CASE k # j
    BY <1>1, <1>3, <2>2 DEF InsertNewJob, TypeOK
  <2> QED
    BY <2>1, <2>2
<1>4. ASSUME NEW k \in Jobs, HeartbeatExpires(k) PROVE RowStep(j)
  <2>1. CASE k = j
    <3>1. jobs'[j] = [jobs[j] EXCEPT !.heartbeat_at = "stale"] /\ attempts' = attempts
      BY <1>4, <2>1 DEF HeartbeatExpires, TypeOK
    <3>2. jobs[j].status = "running"
      BY <1>4, <2>1 DEF HeartbeatExpires
    <3> QED
      BY <1>t, <3>1, <3>2, StaleRowIs DEF RowStep, Terminal
  <2>2. CASE k # j
    BY <1>1, <1>4, <2>2 DEF HeartbeatExpires, TypeOK
  <2> QED
    BY <2>1, <2>2
<1>5. ASSUME NEW k \in Jobs, BeatLands(k) PROVE RowStep(j)
  <2>1. attempts' = attempts /\ jobs'[j] \in {jobs[j], BeatenRow(jobs[j])}
    BY <1>5 DEF BeatLands, TypeOK
  <2> QED
    BY <1>t, <2>1, BeatenRowIs DEF RowStep
<1>6. ASSUME NEW w \in Workers, WorkerStep(w) PROVE RowStep(j)
  <2>1. CASE task[w] # j
    BY <1>1, <1>6, <2>1
       DEF WorkerStep, ClaimLock, ClaimCommit, ClaimReplyLost, ClaimApplied, ClaimAbort,
           ClaimNothing, Execute, Tick, MarkCompleted, MarkFailed, MarkLost, LoopAgain, Crash,
           Restart, TypeOK
  <2>2. CASE task[w] = j
    <3>1. ASSUME ClaimApplied(w), phase[w] = "claiming" PROVE RowStep(j)
      <4>1. jobs'[j] = ClaimedRow(jobs[j], w) /\ attempts'[j] = attempts[j] + 1
        BY <2>2, <3>1 DEF ClaimApplied, TypeOK
      <4>2. jobs[j].status = "pending" /\ Locked(j)
        BY <2>2, <3>1 DEF RowLocks, Locked
      <4> QED
        BY <1>t, <4>1, <4>2, ClaimedRowIs DEF RowStep
    <3>3. CASE MarkCompleted(w)
      <4>1. jobs'[j] = CompletedRow(jobs[j]) /\ attempts' = attempts
        BY <2>2, <3>3 DEF MarkCompleted, LoopAgain, TypeOK
      <4>2. jobs[j].status = "running"
        BY <2>2, <3>3 DEF MarkCompleted, Leased, Works, InHand
      <4> QED
        BY <1>t, <4>1, <4>2, CompletedRowIs DEF RowStep
    <3>4. CASE MarkFailed(w)
      <4>1. jobs'[j] = FailedRow(jobs[j]) /\ attempts' = attempts
        BY <2>2, <3>4, QueueAssumption DEF MarkFailed, LoopAgain, TypeOK
      <4>2. jobs[j].status = "running"
        BY <2>2, <3>4 DEF MarkFailed, Leased, Works, InHand
      <4> QED
        BY <1>t, <4>1, <4>2, FailedRowIs DEF RowStep
    <3> QED
      BY <1>1, <1>6, <3>1, <3>3, <3>4
         DEF WorkerStep, ClaimLock, ClaimCommit, ClaimReplyLost, ClaimAbort, ClaimNothing,
             Execute, Tick, MarkLost, LoopAgain, Crash, Restart
  <2> QED
    BY <2>1, <2>2
<1>7. CASE ReclaimStuckJobs
  <2>1. CASE Reclaimable(jobs[j])
    <3>1. jobs'[j] = ReclaimedRow(jobs[j]) /\ attempts' = attempts
      BY <1>7, <2>1 DEF ReclaimStuckJobs
    <3> QED
      BY <1>t, <2>1, <3>1, ReclaimedRowIs DEF RowStep, Reclaimable
  <2>2. CASE ~Reclaimable(jobs[j])
    BY <1>1, <1>7, <2>2 DEF ReclaimStuckJobs
  <2> QED
    BY <2>1, <2>2
<1>8. CASE UNCHANGED vars
  BY <1>1, <1>8 DEF vars
<1> QED
  BY <1>2, <1>3, <1>4, <1>5, <1>6, <1>7, <1>8 DEF Next

LEMMA TerminalStep ==
  ASSUME NEW j \in Jobs, RowStep(j), jobs[j].status \in Terminal
  PROVE  /\ jobs'[j] \in {jobs[j], BeatenRow(jobs[j])}
         /\ jobs'[j].status = jobs[j].status
  BY DEF RowStep, InsertNewJob, Present, Terminal

\* While heartbeats are in time, the unconditional UPDATEs of markCompleted and
\* markFailed never reach a job that has ended; that of updateHeartbeat may, and
\* changes nothing but the heartbeat.
THEOREM TerminalIsFinal == Timely => (Spec => TerminalFinal)
<1> SUFFICES ASSUME Timely PROVE Spec => TerminalFinal
  OBVIOUS
<1>1. TypeOK /\ RowLocks /\ Leased /\ [Next]_vars
        => [\A j \in Jobs : jobs[j].status \in Terminal =>
              jobs'[j] \in {jobs[j], BeatenRow(jobs[j])}]_vars
  BY RowSteps, TerminalStep
<1> QED
  BY <1>1, LeasedAlways, PTL DEF Spec, TerminalFinal

-----------------------------------------------------------------------------
(* The accounting of retries *)

LEMMA RetryInit == Init => RetryAccounting
<1> SUFFICES ASSUME Init PROVE RetryAccounting
  OBVIOUS
<1>1. \A j \in Jobs : attempts[j] = 0 /\ jobs[j].retry_count = 0 /\ jobs[j].status = "absent"
  BY NewRows DEF Init
<1>2. \A j \in Jobs : jobs[j].status \notin {"running", "success"}
  BY <1>1
<1>3. 0 = 0 + 0
  OBVIOUS
<1> QED
  BY <1>1, <1>2, <1>3 DEF RetryAccounting

LEMMA RetryStep ==
  ASSUME TypeOK, TypeOK', Budget, RetryAccounting, \A j \in Jobs : RowStep(j)
  PROVE  RetryAccounting'
<1> SUFFICES ASSUME NEW j \in Jobs
    PROVE  attempts'[j] = jobs'[j].retry_count
                          + (IF jobs'[j].status \in {"running", "success"} THEN 1 ELSE 0)
  BY DEF RetryAccounting
<1>1. /\ jobs[j].retry_count \in Nat /\ jobs'[j].retry_count \in Nat
      /\ attempts[j] \in Nat /\ attempts'[j] \in Nat
  BY DEF TypeOK, Row
<1>2. attempts[j] = jobs[j].retry_count + (IF jobs[j].status \in {"running", "success"} THEN 1 ELSE 0)
  BY DEF RetryAccounting
<1>3. InsertNewJob(j) => attempts[j] = 0
  BY DEF InsertNewJob, Budget
<1> QED
  BY <1>1, <1>2, <1>3 DEF RowStep

\* While heartbeats are in time, the retry counter tells exactly how often the
\* job was handed out: neither markFailed nor the reclaim loses or doubles one.
THEOREM RetriesAccounted == Timely => (Spec => []RetryAccounting)
<1> SUFFICES ASSUME Timely PROVE Spec => []RetryAccounting
  OBVIOUS
<1> DEFINE Inv == TypeOK /\ RowLocks /\ Leased /\ Budget /\ RetryAccounting
<1>1. Init => Inv
  BY TypeInit, RowLocksInit, LeasedInit, BudgetInit, RetryInit
<1>2. Inv /\ [Next]_vars => Inv'
  BY TypeStep, RowLocksStep, LeasedStep, BudgetStep, RetryStep, RowSteps
<1>3. Inv => RetryAccounting
  OBVIOUS
<1> QED
  BY <1>1, <1>2, <1>3, PTL DEF Spec

-----------------------------------------------------------------------------
(* The order of the steps of a run *)

\* The row locks after a step: only ClaimLock takes one, and only of a
\* claimable job.
LEMMA NewLocks ==
  ASSUME TypeOK, RowLocks, [Next]_vars, NEW j \in Jobs, Locked(j)', ~Locked(j)
  PROVE  Claimable(jobs, j) /\ UNCHANGED <<jobs, late>>
<1>1. PICK v \in Workers : phase'[v] = "claiming" /\ task'[v] = j
  BY DEF Locked
<1>2. ~(phase[v] = "claiming" /\ task[v] = j)
  BY DEF Locked
<1>3. ASSUME NEW w \in Workers, ClaimLock(w) PROVE Claimable(jobs, j) /\ UNCHANGED <<jobs, late>>
  BY <1>1, <1>2, <1>3 DEF ClaimLock, FirstOf, Candidates, TypeOK
<1>4. ASSUME NEW w \in Workers, WorkerStep(w), ~ClaimLock(w) PROVE FALSE
  BY <1>1, <1>2, <1>4
     DEF WorkerStep, ClaimCommit, ClaimReplyLost, ClaimAbort, ClaimNothing, Execute, Tick,
         MarkCompleted, MarkFailed, MarkLost, LoopAgain, Crash, Restart, TypeOK, InHand
<1>5. phase' # phase \/ task' # task
  BY <1>1, <1>2
<1> QED
  BY <1>3, <1>4, <1>5
     DEF Next, TriggerRun, EnqueueEnds, InsertNewJob, HeartbeatExpires, BeatLands,
         ReclaimStuckJobs, vars

LEMMA NewStarts ==
  ASSUME TypeOK, RowLocks, [Next]_vars, NEW j \in Jobs, RowStep(j), Started(j)', ~Started(j)
  PROVE  Claimable(jobs, j) /\ UNCHANGED <<jobs, late>>
<1>1. jobs'[j].status \notin {"running"} \cup Terminal
  BY DEF RowStep, Started, Terminal
<1>2. Locked(j)' /\ ~Locked(j)
  BY <1>1 DEF Started
<1> QED
  BY <1>2, NewLocks

\* history late only grows, and records every insert behind a started step.
LEMMA LateStep ==
  ASSUME TypeOK, [Next]_vars
  PROVE  /\ late \subseteq late'
         /\ \A i, j \in Jobs : InsertNewJob(i) /\ Earlier(i, j) /\ Started(j) => i \in late'
<1>1. \A k \in Jobs : InsertNewJob(k) => late \subseteq late'
  BY DEF InsertNewJob
<1>2. \A i, j \in Jobs : InsertNewJob(i) /\ Earlier(i, j) /\ Started(j) => i \in late'
  BY DEF InsertNewJob
<1>3. (\A k \in Jobs : ~InsertNewJob(k)) => late' = late
  BY DEF Next, TriggerRun, EnqueueEnds, HeartbeatExpires, BeatLands, ReclaimStuckJobs, WorkerStep,
         ClaimLock, ClaimCommit, ClaimReplyLost, ClaimAbort, ClaimNothing, Execute, Tick,
         MarkCompleted, MarkFailed, MarkLost, LoopAgain, Crash, Restart, vars
<1> QED
  BY <1>1, <1>2, <1>3

LEMMA StepOrderStep ==
  ASSUME TypeOK, RowLocks, [Next]_vars, StepOrderKept, \A j \in Jobs : RowStep(j)
  PROVE  StepOrderKept'
<1> SUFFICES ASSUME NEW i \in Jobs, NEW j \in Jobs,
                    Earlier(i, j), Present(jobs', i), i \notin late', Started(j)'
    PROVE  jobs'[i].status \in Terminal
  BY DEF StepOrderKept, Earlier
<1>1. i \notin late
  BY LateStep
<1>2. CASE ~Started(j)
  BY <1>2, NewStarts DEF Claimable
<1>3. CASE Started(j) /\ Present(jobs, i)
  <2>1. jobs[i].status \in Terminal
    BY <1>1, <1>3 DEF StepOrderKept
  <2> QED
    BY <2>1, TerminalStep
<1>4. CASE Started(j) /\ ~Present(jobs, i)
  <2>1. InsertNewJob(i)
    BY <1>4 DEF RowStep, Present
  <2> QED
    BY <1>4, <2>1, LateStep
<1> QED
  BY <1>2, <1>3, <1>4

\* While heartbeats are in time, the NOT EXISTS of the claim keeps the steps of
\* a run in order, and no earlier step comes back to life behind a later one;
\* the only steps out of order are those inserted late.
THEOREM StepsInOrder == Timely => (Spec => []StepOrderKept)
<1> SUFFICES ASSUME Timely PROVE Spec => []StepOrderKept
  OBVIOUS
<1>1. Init => StepOrderKept
  BY NewRows DEF Init, StepOrderKept, Present
<1>2. TypeOK /\ RowLocks /\ Leased /\ StepOrderKept /\ [Next]_vars => StepOrderKept'
  BY StepOrderStep, RowSteps
<1> QED
  BY <1>1, <1>2, LeasedAlways, PTL DEF Spec

-----------------------------------------------------------------------------
(* The queue implements JobLifecycle *)

\* The runner of a job is the worker that has it in hand.
LEMMA RunnerOf ==
  ASSUME Leased, NEW j \in Jobs
  PROVE  /\ \A w \in Workers : Works(w, j) => LifeRunner[j] = w
         /\ (\A w \in Workers : ~Works(w, j)) => LifeRunner[j] = Nobody
  BY DEF Leased, LifeRunner

LEMMA LifeInit == Init => Lifecycle!Init
<1> SUFFICES ASSUME Init PROVE Lifecycle!Init
  OBVIOUS
<1>1. \A j \in Jobs : /\ jobs[j].status = "absent" /\ jobs[j].retry_count = 0
                      /\ \A w \in Workers : ~Works(w, j)
  BY NewRows DEF Init, Works, InHand
<1> QED
  BY <1>1 DEF Lifecycle!Init, LifeState, LifeRunner, LifeTries

\* A step that changes, as far as a client sees, nothing.
LEMMA LifeStutter ==
  ASSUME \A j \in Jobs : /\ jobs'[j].status = jobs[j].status
                         /\ jobs'[j].claimed_by = jobs[j].claimed_by
                         /\ jobs'[j].retry_count = jobs[j].retry_count,
         \A j \in Jobs : \A v \in Workers : Works(v, j)' <=> Works(v, j)
  PROVE  UNCHANGED Lifecycle!vars
  BY DEF Lifecycle!vars, LifeState, LifeRunner, LifeTries

\* A function that differs from another in the value of at most one argument.
LEMMA OneChange ==
  ASSUME NEW S, NEW f, NEW g, f = [k \in S |-> f[k]], g = [k \in S |-> g[k]],
         NEW j \in S, \A k \in S : k # j => g[k] = f[k]
  PROVE  g = [f EXCEPT ![j] = g[j]]
  OBVIOUS

\* Worker w stops working on j, and nobody else starts or stops.
LEMMA LifeRelease ==
  ASSUME Leased, Leased', NEW j \in Jobs, NEW w \in Workers, Works(w, j),
         \A v \in Workers : \A k \in Jobs : Works(v, k)' <=> (Works(v, k) /\ v # w)
  PROVE  /\ LifeRunner[j] = w /\ w # Nobody
         /\ LifeRunner' = [LifeRunner EXCEPT ![j] = Nobody]
<1>1. LifeRunner[j] = w
  BY RunnerOf
<1>2. \A v \in Workers : ~Works(v, j)'
  BY DEF Leased
<1>3. \A k \in Jobs : k # j => \A v \in Workers : Works(v, k)' <=> Works(v, k)
  BY DEF Works
<1>4. LifeRunner'[j] = Nobody
  BY <1>2 DEF LifeRunner
<1>5. \A k \in Jobs : k # j => LifeRunner'[k] = LifeRunner[k]
  <2> SUFFICES ASSUME NEW k \in Jobs, k # j PROVE LifeRunner'[k] = LifeRunner[k]
    OBVIOUS
  <2>1. CASE \E v \in Workers : Works(v, k)
    <3>1. PICK v \in Workers : Works(v, k)
      BY <2>1
    <3>2. Works(v, k)'
      BY <1>3, <3>1
    <3> QED
      BY <3>1, <3>2 DEF Leased, LifeRunner
  <2>2. CASE \A v \in Workers : ~Works(v, k)
    BY <1>3, <2>2 DEF LifeRunner
  <2> QED
    BY <2>1, <2>2
<1>6. LifeRunner = [k \in Jobs |-> LifeRunner[k]] /\ LifeRunner' = [k \in Jobs |-> LifeRunner'[k]]
  BY DEF LifeRunner
<1>7. LifeRunner' = [LifeRunner EXCEPT ![j] = LifeRunner'[j]]
  BY <1>5, <1>6, OneChange
<1> QED
  BY <1>1, <1>4, <1>7, JobsAssumption

\* The claim of j by w commits; x is w if w learns of it, else Nobody.
LEMMA LifeStart ==
  ASSUME TypeOK, RowLocks, Leased, Leased', NEW w \in Workers, NEW j \in Jobs,
         phase[w] = "claiming", task[w] = j, ClaimApplied(w),
         NEW x \in {w, Nobody},
         \A v \in Workers : \A k \in Jobs :
           Works(v, k)' <=> (Works(v, k) \/ (v = w /\ k = j /\ x = w))
  PROVE  Lifecycle!Start(j, x)
<1>1. jobs' = [jobs EXCEPT ![j] = ClaimedRow(jobs[j], w)] /\ jobs[j] \in Row
  BY DEF ClaimApplied, TypeOK
<1>2. jobs'[j].status = "running" /\ jobs'[j].retry_count = jobs[j].retry_count
  BY <1>1, ClaimedRowIs DEF TypeOK
<1>3. \A k \in Jobs : k # j => jobs'[k] = jobs[k]
  BY <1>1 DEF TypeOK
<1>4. jobs[j].status = "pending"
  BY DEF RowLocks
<1>5. LifeState[j] = "pending" /\ LifeState' = [LifeState EXCEPT ![j] = "running"]
  BY <1>2, <1>3, <1>4 DEF LifeState
<1>6. LifeTries' = LifeTries
  BY <1>2, <1>3 DEF LifeTries
<1>7. \A k \in Jobs : x # Nobody => LifeRunner[k] # x
  <2> SUFFICES ASSUME NEW k \in Jobs, x = w, LifeRunner[k] = w PROVE FALSE
    OBVIOUS
  <2>1. w # Nobody
    BY JobsAssumption
  <2>2. PICK v \in Workers : Works(v, k)
    BY <2>1 DEF LifeRunner
  <2> QED
    BY <2>2, RunnerOf DEF Works, InHand
<1>8. LifeRunner'[j] = x
  <2>1. CASE x = w
    BY <2>1 DEF Leased, LifeRunner
  <2>2. CASE x # w
    <3>1. \A v \in Workers : ~Works(v, j)'
      BY <1>4, <2>2 DEF Leased
    <3> QED
      BY <2>2, <3>1 DEF LifeRunner
  <2> QED
    BY <2>1, <2>2
<1>9. \A k \in Jobs : k # j => LifeRunner'[k] = LifeRunner[k]
  BY <1>3 DEF LifeRunner
<1>10. LifeRunner' = [LifeRunner EXCEPT ![j] = x]
  BY <1>8, <1>9 DEF LifeRunner
<1> QED
  BY <1>5, <1>6, <1>7, <1>10 DEF Lifecycle!Start

\* Worker w marks job j, or loses it.
LEMMA LifeEnd ==
  ASSUME TypeOK, RowLocks, Leased, Leased', NEW w \in Workers, NEW j \in Jobs, Works(w, j),
         MarkCompleted(w) \/ MarkFailed(w) \/ MarkLost(w) \/ Crash(w)
  PROVE  Lifecycle!Succeed(j) \/ Lifecycle!Fail(j) \/ Lifecycle!Abandon(j)
<1>1. \A v \in Workers : \A k \in Jobs : Works(v, k)' <=> (Works(v, k) /\ v # w)
  BY QueueAssumption DEF MarkCompleted, MarkFailed, MarkLost, LoopAgain, Crash, Works, InHand, TypeOK
<1>2. /\ LifeRunner[j] = w /\ w # Nobody
      /\ LifeRunner' = [LifeRunner EXCEPT ![j] = Nobody]
  BY <1>1, LifeRelease, JobsAssumption
<1>3. task[w] = j /\ jobs[j] \in Row /\ jobs[j].status = "running" /\ j # NoJob
  BY QueueAssumption DEF Works, TypeOK, Leased
<1>4. CASE MarkCompleted(w)
  <2>1. /\ jobs' = [jobs EXCEPT ![j] = CompletedRow(jobs[j])]
        /\ jobs'[j].status = "success" /\ jobs'[j].retry_count = jobs[j].retry_count
    BY <1>3, <1>4, CompletedRowIs DEF MarkCompleted, TypeOK
  <2>2. \A k \in Jobs : k # j => jobs'[k] = jobs[k]
    BY <2>1 DEF TypeOK
  <2>3. LifeState[j] = "running" /\ LifeState' = [LifeState EXCEPT ![j] = "success"]
    <3>1. LifeState[j] = "running" /\ LifeState'[j] = "success"
      BY <1>3, <2>1 DEF LifeState
    <3>2. \A k \in Jobs : k # j => LifeState'[k] = LifeState[k]
      BY <2>2 DEF LifeState
    <3> QED
      BY <3>1, <3>2 DEF LifeState
  <2>4. LifeTries' = LifeTries
    BY <2>1, <2>2 DEF LifeTries
  <2> QED
    BY <1>2, <2>3, <2>4 DEF Lifecycle!Succeed
<1>5. CASE MarkFailed(w)
  <2>1. /\ jobs' = [jobs EXCEPT ![j] = FailedRow(jobs[j])]
        /\ jobs'[j] = FailedRow(jobs[j])
    BY <1>3, <1>5 DEF MarkFailed, TypeOK
  <2>2. \A k \in Jobs : k # j => jobs'[k] = jobs[k]
    BY <2>1 DEF TypeOK
  <2>3. LifeState[j] = "running" /\ LifeTries[j] = jobs[j].retry_count
    BY <1>3 DEF LifeState, LifeTries
  <2>4. jobs'[j].status = IF LifeTries[j] + 1 >= MaxRetries THEN "failed" ELSE "pending"
    <3>1. jobs[j].retry_count \in Nat /\ MaxRetries \in Nat
      BY <1>3, JobsAssumption DEF Row
    <3> QED
      BY <1>3, <2>1, <2>3, <3>1, FailedRowIs
  <2>5. LifeState' = [LifeState EXCEPT ![j] = IF LifeTries[j] + 1 >= MaxRetries THEN "failed" ELSE "pending"]
    BY <2>2, <2>4 DEF LifeState
  <2>6. jobs'[j].retry_count = jobs[j].retry_count + 1
    BY <1>3, <2>1, FailedRowIs
  <2>7. LifeTries' = [LifeTries EXCEPT ![j] = LifeTries[j] + 1]
    BY <2>2, <2>6 DEF LifeTries
  <2> QED
    BY <1>2, <2>3, <2>5, <2>7 DEF Lifecycle!Fail
<1>6. CASE MarkLost(w) \/ Crash(w)
  <2>1. jobs' = jobs
    BY <1>6 DEF MarkLost, Crash
  <2> QED
    BY <1>2, <2>1 DEF Lifecycle!Abandon, LifeState, LifeTries
<1> QED
  BY <1>4, <1>5, <1>6

\* A row that is not in the table has used no retries.
AbsentRows == \A j \in Jobs : ~Present(jobs, j) => jobs[j].retry_count = 0

LEMMA AbsentStep ==
  ASSUME AbsentRows, \A j \in Jobs : RowStep(j)
  PROVE  AbsentRows'
  BY DEF AbsentRows, RowStep, Present

LEMMA LifeStep ==
  Timely /\ TypeOK /\ RowLocks /\ Leased /\ Leased' /\ AbsentRows /\ [Next]_vars
    => [Lifecycle!Next]_(Lifecycle!vars)
<1> SUFFICES ASSUME Timely, TypeOK, RowLocks, Leased, Leased', AbsentRows, [Next]_vars
    PROVE  Lifecycle!Next \/ UNCHANGED Lifecycle!vars
  OBVIOUS
<1>1. ASSUME jobs' = jobs, \A j \in Jobs : \A v \in Workers : Works(v, j)' <=> Works(v, j)
      PROVE  UNCHANGED Lifecycle!vars
  BY <1>1, LifeStutter
<1>2. ASSUME NEW r \in Runs, TriggerRun(r) \/ EnqueueEnds(r) PROVE UNCHANGED Lifecycle!vars
  BY <1>1, <1>2 DEF TriggerRun, EnqueueEnds, Works
<1>3. ASSUME NEW j \in Jobs, InsertNewJob(j) PROVE Lifecycle!Enqueue(j)
  <2>1. jobs[j].status = "absent" /\ jobs'[j] = InsertedRow
    BY <1>3 DEF InsertNewJob, Present, TypeOK
  <2>2. \A k \in Jobs : k # j => jobs'[k] = jobs[k]
    BY <1>3 DEF InsertNewJob, TypeOK
  <2>3. \A k \in Jobs : \A v \in Workers : Works(v, k)' <=> Works(v, k)
    BY <1>3 DEF InsertNewJob, Works
  <2>4. \A v \in Workers : ~Works(v, j)
    BY <2>1 DEF Leased
  <2>5. LifeState[j] = "absent" /\ LifeState'[j] = "pending"
    BY <2>1, NewRows DEF LifeState
  <2>6. LifeState' = [LifeState EXCEPT ![j] = "pending"]
    BY <2>2, <2>5 DEF LifeState
  <2>7. LifeRunner' = LifeRunner
    BY <2>2, <2>3, <2>4 DEF LifeRunner
  <2>8. LifeTries' = LifeTries
    <3>1. jobs'[j].retry_count = jobs[j].retry_count
      BY <2>1, NewRows DEF AbsentRows, Present
    <3> QED
      BY <2>2, <3>1 DEF LifeTries
  <2> QED
    BY <2>5, <2>6, <2>7, <2>8 DEF Lifecycle!Enqueue
<1>4. ASSUME NEW k \in Jobs, HeartbeatExpires(k) PROVE UNCHANGED Lifecycle!vars
  <2>1. \A j \in Jobs : \A v \in Workers : Works(v, j)' <=> Works(v, j)
    BY <1>4 DEF HeartbeatExpires, Works
  <2>2. \A j \in Jobs : \/ jobs'[j] = jobs[j]
                        \/ jobs'[j] = [jobs[j] EXCEPT !.heartbeat_at = "stale"] /\ jobs[j] \in Row
    BY <1>4 DEF HeartbeatExpires, TypeOK
  <2> QED
    BY <2>1, <2>2, StaleRowIs, LifeStutter
<1>5. ASSUME NEW k \in Jobs, BeatLands(k) PROVE UNCHANGED Lifecycle!vars
  <2>1. \A j \in Jobs : \A v \in Workers : Works(v, j)' <=> Works(v, j)
    BY <1>5 DEF BeatLands, Works
  <2>2. \A j \in Jobs : \/ jobs'[j] = jobs[j]
                        \/ jobs'[j] = BeatenRow(jobs[j]) /\ jobs[j] \in Row
    BY <1>5 DEF BeatLands, TypeOK
  <2> QED
    BY <2>1, <2>2, BeatenRowIs, LifeStutter
<1>6. ASSUME NEW w \in Workers, WorkerStep(w) PROVE Lifecycle!Next \/ UNCHANGED Lifecycle!vars
  <2>1. CASE ClaimCommit(w) \/ ClaimReplyLost(w)
    <3>1. phase[w] = "claiming" /\ task[w] \in Jobs /\ ClaimApplied(w)
      BY <2>1 DEF ClaimCommit, ClaimReplyLost, RowLocks
    <3>2. CASE ClaimCommit(w) /\ RowResult
      <4>1. \A v \in Workers : \A k \in Jobs :
              Works(v, k)' <=> (Works(v, k) \/ (v = w /\ k = task[w] /\ w = w))
        BY <3>1, <3>2 DEF ClaimCommit, Works, InHand, TypeOK
      <4>2. Lifecycle!Start(task[w], w)
        BY <3>1, <4>1, LifeStart
      <4> QED
        BY <3>1, <4>2 DEF Lifecycle!Next
    <3>3. CASE ~(ClaimCommit(w) /\ RowResult)
      <4>1. \A v \in Workers : \A k \in Jobs :
              Works(v, k)' <=> (Works(v, k) \/ (v = w /\ k = task[w] /\ Nobody = w))
        BY <2>1, <3>1, <3>3, QueueAssumption, JobsAssumption
           DEF ClaimCommit, ClaimReplyLost, Works, InHand, TypeOK
      <4>2. Lifecycle!Start(task[w], Nobody)
        BY <3>1, <4>1, LifeStart
      <4> QED
        BY <3>1, <4>2 DEF Lifecycle!Next
    <3> QED
      BY <3>2, <3>3
  <2>3. CASE MarkCompleted(w) \/ MarkFailed(w) \/ MarkLost(w) \/ Crash(w)
    <3>1. CASE \E j \in Jobs : Works(w, j)
      BY <2>3, <3>1, LifeEnd DEF Lifecycle!Next
    <3>2. CASE \A j \in Jobs : ~Works(w, j)
      <4>1. jobs' = jobs
        BY <2>3, <3>2
           DEF MarkCompleted, MarkFailed, MarkLost, Crash, Works, InHand, RowLocks, TypeOK
      <4>2. \A j \in Jobs : \A v \in Workers : Works(v, j)' <=> Works(v, j)
        BY <2>3, <3>2, QueueAssumption
           DEF MarkCompleted, MarkFailed, MarkLost, LoopAgain, Crash, Works, InHand, TypeOK
      <4> QED
        BY <1>1, <4>1, <4>2
    <3> QED
      BY <3>1, <3>2
  <2>4. CASE \/ ClaimLock(w) \/ ClaimAbort(w) \/ ClaimNothing(w) \/ Execute(w) \/ Tick(w)
             \/ Restart(w)
    <3>1. jobs' = jobs
      BY <2>4 DEF ClaimLock, ClaimAbort, ClaimNothing, Execute, Tick, Restart
    <3>2. \A j \in Jobs : \A v \in Workers : Works(v, j)' <=> Works(v, j)
      BY <2>4, QueueAssumption
         DEF ClaimLock, ClaimAbort, ClaimNothing, Execute, Tick, Restart, Works, InHand, RowLocks, TypeOK
    <3> QED
      BY <1>1, <3>1, <3>2
  <2> QED
    BY <1>6, <2>1, <2>3, <2>4 DEF WorkerStep
<1>7. CASE ReclaimStuckJobs
  <2> DEFINE S == {j \in Jobs : Reclaimable(jobs[j])}
  <2>1. \A j \in Jobs : \A v \in Workers : Works(v, j)' <=> Works(v, j)
    BY <1>7 DEF ReclaimStuckJobs, Works
  <2>2. \A j \in S : \A v \in Workers : ~Works(v, j)
    BY DEF Reclaimable, Leased
  <2>3. \A j \in Jobs : j \notin S => jobs'[j] = jobs[j]
    BY <1>7 DEF ReclaimStuckJobs
  <2>4. \A j \in S : jobs'[j].status = "pending" /\ jobs'[j].retry_count = jobs[j].retry_count + 1
    BY <1>7, ReclaimedRowIs DEF ReclaimStuckJobs, TypeOK
  <2>5. \A j \in S : LifeState[j] = "running" /\ LifeRunner[j] = Nobody /\ LifeTries[j] < MaxRetries
    BY <2>2 DEF Reclaimable, LifeState, LifeRunner, LifeTries
  <2>6. LifeState' = [j \in Jobs |-> IF j \in S THEN "pending" ELSE LifeState[j]]
    BY <2>3, <2>4 DEF LifeState
  <2>7. LifeTries' = [j \in Jobs |-> IF j \in S THEN LifeTries[j] + 1 ELSE LifeTries[j]]
    BY <2>3, <2>4 DEF LifeTries
  <2>8. LifeRunner' = LifeRunner
    BY <2>1, <2>2, <2>3 DEF LifeRunner
  <2> HIDE DEF S
  <2>9. Lifecycle!Requeue(S)
    BY <2>5, <2>6, <2>7, <2>8 DEF Lifecycle!Requeue
  <2>10. S \in SUBSET Jobs
    BY DEF S
  <2> QED
    BY <2>9, <2>10 DEF Lifecycle!Next
<1>8. CASE UNCHANGED vars
  BY <1>1, <1>8 DEF vars, Works
<1> QED
  BY <1>2, <1>3, <1>4, <1>5, <1>6, <1>7, <1>8 DEF Next, Lifecycle!Next

\* While heartbeats are in time, the queue in Postgres is, to its clients, the
\* abstract queue: one runner per job, final ends, and only abandoned jobs are
\* given away again.
THEOREM QueueImplementsLifecycle == Timely => (Spec => ImplementsLifecycle)
<1> SUFFICES ASSUME Timely PROVE Spec => Lifecycle!Spec
  BY DEF ImplementsLifecycle
<1>1. Init => Lifecycle!Init /\ AbsentRows
  BY LifeInit, NewRows DEF Init, AbsentRows
<1>2. TypeOK /\ RowLocks /\ Leased /\ AbsentRows /\ [Next]_vars => AbsentRows'
  BY AbsentStep, RowSteps
<1>3. TypeOK /\ RowLocks /\ Leased /\ Leased' /\ AbsentRows /\ [Next]_vars
        => [Lifecycle!Next]_(Lifecycle!vars)
  BY LifeStep
<1> QED
  BY <1>1, <1>2, <1>3, LeasedAlways, PTL DEF Spec, Lifecycle!Spec

-----------------------------------------------------------------------------
(* Nothing stalls *)

\* Every job that has not settled either moves itself or waits, over however
\* many steps of its run, for one that does: no two steps wait for each other, and
\* whatever is free is found by a poll or by the reclaim.
THEOREM NothingStalls == IsFiniteSet(Jobs) => (Spec => []NoStall)
<1> SUFFICES ASSUME IsFiniteSet(Jobs) PROVE Spec => []NoStall
  OBVIOUS
<1>1. Init => TypeOK
  BY TypeInit
<1>2. TypeOK /\ [Next]_vars => TypeOK'
  BY TypeStep
<1>3. TypeOK => NoStall
  <2> SUFFICES ASSUME TypeOK, ~WorkLeft, NEW j \in Jobs PROVE Settled(j)
    BY DEF NoStall
  <2>1. \A w \in Workers : \A k \in Jobs : ~Works(w, k)
    BY DEF WorkLeft, Works
  <2>2. \A k \in Jobs : ~Locked(k)
    BY DEF WorkLeft, Locked
  <2>3. \A k \in Jobs : jobs[k].status = "running" => Stuck(k)
    <3> SUFFICES ASSUME NEW k \in Jobs, jobs[k].status = "running" PROVE Stuck(k)
      OBVIOUS
    <3>1. jobs[k] \in Row /\ jobs[k].retry_count \in Nat /\ MaxRetries \in Nat
      BY JobsAssumption DEF TypeOK, Row
    <3>2. ~Reclaimable([jobs[k] EXCEPT !.heartbeat_at = "stale"])
      BY DEF WorkLeft
    <3>3. [jobs[k] EXCEPT !.heartbeat_at = "stale"].heartbeat_at = "stale"
      BY <3>1 DEF Row
    <3>4. ~(jobs[k].retry_count < MaxRetries)
      BY <3>1, <3>2, <3>3, StaleRowIs DEF Reclaimable
    <3> QED
      BY <2>1, <3>1, <3>4 DEF Stuck
  <2>4. \A k \in Jobs : ~Claimable(jobs, k)
    <3>1. Candidates \in SUBSET Jobs /\ IsFiniteSet(Candidates)
      BY FS_Subset DEF Candidates
    <3>2. Candidates = {}
      BY <3>1, FirstOfFinds DEF WorkLeft
    <3> QED
      BY <2>2, <3>2 DEF Candidates
  <2>5. CASE jobs[j].status = "pending"
    <3> DEFINE Ahead == {i \in Jobs : Earlier(i, j) /\ Present(jobs, i) /\ jobs[i].status \notin Terminal}
    <3>1. Ahead \in SUBSET Jobs /\ IsFiniteSet(Ahead)
      BY FS_Subset
    <3>2. Ahead # {}
      BY <2>4, <2>5 DEF Claimable
    <3>3. PICK m \in Ahead : \A i \in Ahead : ~Earlier(i, m)
      BY <3>1, <3>2, FrontOfLine
    <3>4. jobs[m].status # "pending"
      <4>1. ASSUME NEW i \in Jobs, Earlier(i, m) PROVE Earlier(i, j)
        BY <3>3, <4>1, EarlierTransitive
      <4> QED
        BY <2>4, <3>3, <4>1 DEF Claimable
    <3>5. jobs[m].status = "running"
      BY <3>3, <3>4 DEF TypeOK, Row, Status, Present
    <3> QED
      BY <2>3, <2>5, <3>3, <3>5 DEF Settled
  <2>6. CASE jobs[j].status # "pending"
    BY <2>3, <2>6 DEF Settled, TypeOK, Row, Status, Present
  <2> QED
    BY <2>5, <2>6
<1> QED
  BY <1>1, <1>2, <1>3, PTL DEF Spec
=============================================================================
