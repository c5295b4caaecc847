----------------------------- MODULE DeployLock -----------------------------
(***************************************************************************)
(* Deploy jobs under the advisory locks of DeploymentLockService           *)
(* (src/src/locks/deployment-lock.service.ts), as JobExecutorService       *)
(* .execute uses them.  A session-level lock belongs to a connection of a  *)
(* pool of its own, and a worker executes one job at a time, so its pool   *)
(* has one connection: it is taken out by tryAcquire and put back, open    *)
(* and with whatever locks it still has, by client.release().              *)
(*                                                                         *)
(* Every job of this module is of the stage 'deploy'.  A claim is one      *)
(* step.  Heartbeats may be late: a job may be reclaimed, and claimed by   *)
(* another worker, while the one it was taken from goes on with it.        *)
(***************************************************************************)
EXTENDS JobTable

CONSTANTS
  NoJob,        \* no job in hand
  Envs,         \* environments
  EnvOf,        \* EnvOf[j]: guessDeployEnvironment(job)
  NoRun         \* no row of deployment_locks

ASSUME DeployAssumption ==
  /\ NoJob \notin Jobs
  /\ EnvOf \in [Jobs -> Envs]
  /\ NoRun \notin Runs

VARIABLES
  jobs,     \* table jobs: [Jobs -> Row]
  shown,    \* table deployment_locks: locked_by of each environment
  pc,       \* where each worker is in runLoop, execute and tryAcquire
  task,     \* the job of the current iteration of runLoop
  exit,     \* the exit code execute is to return
  session,  \* state of the connection of the worker's pool
  held,     \* advisory locks of that connection, with their counts
  guarded,  \* history: the workers whose command was started under the lock
  deployed  \* history: the jobs whose command, so started, has exited with 0

vars == <<jobs, shown, pc, task, exit, session, held, guarded, deployed>>

\* The client is out of the pool.
Using == {"connected", "locked", "deploying", "releasing", "deleted"}

PC == {"idle", "claimed", "marking", "down"} \cup Using

NoLocks == [e \in Envs |-> 0]

Env(w) == EnvOf[task[w]]

Init ==
  /\ jobs = [j \in Jobs |-> InsertedRow]
  /\ shown = [e \in Envs |-> NoRun]
  /\ pc = [w \in Workers |-> "idle"]
  /\ task = [w \in Workers |-> NoJob]
  /\ exit = [w \in Workers |-> "none"]
  /\ session = [w \in Workers |-> "closed"]
  /\ held = [w \in Workers |-> NoLocks]
  /\ guarded = {}
  /\ deployed = {}

-----------------------------------------------------------------------------
Goto(w, next) == pc' = [pc EXCEPT ![w] = next]

\* client.release(): the client goes back to the pool as it is.
GiveBack(w) == session' = [session EXCEPT ![w] = "idle"]

ExitWith(w, code) == Goto(w, "marking") /\ exit' = [exit EXCEPT ![w] = code]

Claim(w) ==
  /\ pc[w] = "idle"
  /\ \E j \in FirstOf({k \in Jobs : Claimable(jobs, k)}) :
       /\ jobs' = [jobs EXCEPT ![j] = ClaimedRow(@, w)]
       /\ task' = [task EXCEPT ![w] = j]
  /\ Goto(w, "claimed")
  /\ UNCHANGED <<shown, exit, session, held, guarded, deployed>>

-----------------------------------------------------------------------------
(* tryAcquire *)

\* pool.connect(): the idle client if there is one, a new one otherwise.
Connect(w) ==
  /\ pc[w] = "claimed"
  /\ session' = [session EXCEPT ![w] = "used"]
  /\ Goto(w, "connected")
  /\ UNCHANGED <<jobs, shown, task, exit, held, guarded, deployed>>

\* pool.connect() is rejected and execute throws.
ConnectThrows(w) ==
  /\ pc[w] = "claimed" /\ session[w] = "closed"
  /\ ExitWith(w, "failed")
  /\ UNCHANGED <<jobs, shown, task, session, held, guarded, deployed>>

LockedByOther(w, e) == \E v \in Workers \ {w} : held[v][e] > 0

\* Mutant: the answer of pg_try_advisory_lock is not looked at.
TryLockUnchecked(w) ==
  /\ pc[w] = "connected" /\ session[w] = "used"
  /\ held' = IF LockedByOther(w, Env(w)) THEN held ELSE [held EXCEPT ![w][Env(w)] = @ + 1]
  /\ Goto(w, "locked")
  /\ UNCHANGED <<jobs, shown, task, exit, session, guarded, deployed>>

\* pg_try_advisory_lock answers true: the lock is free or is this session's
\* own already, which then counts it once more.
TryLock(w) ==
  /\ pc[w] = "connected" /\ session[w] = "used"
  /\ ~LockedByOther(w, Env(w))
  /\ held' = [held EXCEPT ![w][Env(w)] = @ + 1]
  /\ Goto(w, "locked")
  /\ UNCHANGED <<jobs, shown, task, exit, session, guarded, deployed>>

\* Mutant: 75 is taken for a success.
LockBusySucceeds(w) ==
  /\ pc[w] = "connected" /\ session[w] = "used"
  /\ LockedByOther(w, Env(w))
  /\ GiveBack(w)
  /\ ExitWith(w, "succeeded")
  /\ UNCHANGED <<jobs, shown, task, held, guarded, deployed>>

\* It answers false: 75, after the client is back in the pool.
LockBusy(w) ==
  /\ pc[w] = "connected" /\ session[w] = "used"
  /\ LockedByOther(w, Env(w))
  /\ GiveBack(w)
  /\ ExitWith(w, "failed")
  /\ UNCHANGED <<jobs, shown, task, held, guarded, deployed>>

\* Mutant: locked_by is given the job.
InsertLockRowOfJob(w) ==
  /\ pc[w] = "locked" /\ session[w] = "used"
  /\ shown' = [shown EXCEPT ![Env(w)] = task[w]]
  /\ Goto(w, "deploying")
  /\ UNCHANGED <<jobs, task, exit, session, held, guarded, deployed>>

\* The row of the environment is inserted or overwritten; execute starts the command.
InsertLockRow(w) ==
  /\ pc[w] = "locked" /\ session[w] = "used"
  /\ shown' = [shown EXCEPT ![Env(w)] = RunOf[task[w]]]
  /\ guarded' = IF held[w][Env(w)] > 0 THEN guarded \cup {w} ELSE guarded
  /\ Goto(w, "deploying")
  /\ UNCHANGED <<jobs, task, exit, session, held, deployed>>

\* Either query throws: the client is put back, with the lock if it has it.
AcquireThrows(w) ==
  /\ pc[w] \in {"connected", "locked"} /\ session[w] = "used"
  /\ GiveBack(w)
  /\ ExitWith(w, "failed")
  /\ UNCHANGED <<jobs, shown, task, held, guarded, deployed>>

-----------------------------------------------------------------------------
\* The command ends, or is not started because appendLog throws.
Deploy(w) ==
  /\ pc[w] = "deploying"
  /\ \/ /\ exit' = [exit EXCEPT ![w] = "succeeded"]
        /\ deployed' = IF w \in guarded THEN deployed \cup {task[w]} ELSE deployed
     \/ /\ exit' = [exit EXCEPT ![w] = "failed"]
        /\ UNCHANGED deployed
  /\ guarded' = guarded \ {w}
  /\ Goto(w, "releasing")
  /\ UNCHANGED <<jobs, shown, task, session, held>>

\* release(): DELETE FROM deployment_locks
DeleteLockRow(w) ==
  /\ pc[w] = "releasing" /\ session[w] = "used"
  /\ shown' = [shown EXCEPT ![Env(w)] = NoRun]
  /\ Goto(w, "deleted")
  /\ UNCHANGED <<jobs, task, exit, session, held, guarded, deployed>>

\* release(): pg_advisory_unlock takes one off the count of this session; the
\* client goes back to the pool.
Unlock(w) ==
  /\ pc[w] = "deleted" /\ session[w] = "used"
  /\ held' = [held EXCEPT ![w][Env(w)] = IF @ > 0 THEN @ - 1 ELSE 0]
  /\ GiveBack(w)
  /\ Goto(w, "marking")
  /\ UNCHANGED <<jobs, shown, task, exit, guarded, deployed>>

\* Mutant: the lock is given up before the row is deleted.
UnlockFirst(w) ==
  \/ /\ pc[w] = "releasing" /\ session[w] = "used"
     /\ held' = [held EXCEPT ![w][Env(w)] = IF @ > 0 THEN @ - 1 ELSE 0]
     /\ Goto(w, "deleted")
     /\ UNCHANGED <<jobs, shown, task, exit, session, guarded, deployed>>
  \/ /\ pc[w] = "deleted" /\ session[w] = "used"
     /\ shown' = [shown EXCEPT ![Env(w)] = NoRun]
     /\ GiveBack(w)
     /\ Goto(w, "marking")
     /\ UNCHANGED <<jobs, task, exit, held, guarded, deployed>>

Release(w) == DeleteLockRow(w) \/ Unlock(w)

\* Mutant: release() without its finally.
ReleaseKeepsClient(w) ==
  /\ pc[w] \in {"releasing", "deleted"} /\ session[w] = "used"
  /\ ExitWith(w, "failed")
  /\ UNCHANGED <<jobs, shown, task, session, held, guarded, deployed>>

\* Either query of release() throws: the client goes back as it is, and the
\* error, thrown in a finally, replaces the exit code.
ReleaseThrows(w) ==
  /\ pc[w] \in {"releasing", "deleted"} /\ session[w] = "used"
  /\ GiveBack(w)
  /\ ExitWith(w, "failed")
  /\ UNCHANGED <<jobs, shown, task, held, guarded, deployed>>

-----------------------------------------------------------------------------
LoopAgain(w) ==
  /\ Goto(w, "idle")
  /\ task' = [task EXCEPT ![w] = NoJob]
  /\ exit' = [exit EXCEPT ![w] = "none"]
  /\ UNCHANGED <<shown, session, held, guarded, deployed>>

\* markCompleted or markFailed; 75 is an exit code like any other.
Mark(w) ==
  /\ pc[w] = "marking"
  /\ jobs' = [jobs EXCEPT ![task[w]] =
                IF exit[w] = "succeeded" THEN CompletedRow(@) ELSE FailedRow(@)]
  /\ LoopAgain(w)

MarkLost(w) ==
  /\ pc[w] = "marking"
  /\ UNCHANGED jobs
  /\ LoopAgain(w)

\* The process dies and its connection with it; the row of deployment_locks stays.
Crash(w) ==
  /\ pc[w] # "down"
  /\ Goto(w, "down")
  /\ task' = [task EXCEPT ![w] = NoJob]
  /\ exit' = [exit EXCEPT ![w] = "none"]
  /\ session' = [session EXCEPT ![w] = "closed"]
  /\ held' = [held EXCEPT ![w] = NoLocks]
  /\ guarded' = guarded \ {w}
  /\ UNCHANGED <<jobs, shown, deployed>>

Restart(w) ==
  /\ pc[w] = "down"
  /\ Goto(w, "idle")
  /\ UNCHANGED <<jobs, shown, task, exit, session, held, guarded, deployed>>

\* The server ends the session of a worker that waits for its command, and frees
\* its locks.  Nobody listens for the 'error' of a client or of the pool, so that
\* the process ends when it notices (Crash): until then the command may end, but no
\* query of this client does.  The end of a session that is idle or in a query is
\* the end of the process at once, which is Crash as well.
SessionDies(w) ==
  /\ pc[w] = "deploying" /\ session[w] = "used"
  /\ session' = [session EXCEPT ![w] = "dead"]
  /\ held' = [held EXCEPT ![w] = NoLocks]
  /\ UNCHANGED <<jobs, shown, pc, task, exit, guarded, deployed>>

\* The pool closes a client that was idle for idleTimeoutMillis (10 s).
IdleTimeout(w) ==
  /\ session[w] = "idle"
  /\ session' = [session EXCEPT ![w] = "closed"]
  /\ held' = [held EXCEPT ![w] = NoLocks]
  /\ UNCHANGED <<jobs, shown, pc, task, exit, guarded, deployed>>

\* The heartbeat of a job gets old, be its worker dead or slow, and the job is given back.
Reclaim(j) ==
  /\ Reclaimable([jobs[j] EXCEPT !.heartbeat_at = "stale"])
  /\ jobs' = [jobs EXCEPT ![j] = ReclaimedRow(@)]
  /\ UNCHANGED <<shown, pc, task, exit, session, held, guarded, deployed>>

Execute(w) ==
  \/ Connect(w) \/ ConnectThrows(w) \/ TryLock(w) \/ LockBusy(w) \/ InsertLockRow(w)
  \/ AcquireThrows(w) \/ Deploy(w) \/ Release(w) \/ ReleaseThrows(w)

WorkerStep(w) ==
  \/ Claim(w) \/ Execute(w) \/ Mark(w) \/ MarkLost(w)
  \/ Crash(w) \/ Restart(w) \/ SessionDies(w) \/ IdleTimeout(w)

Next == (\E w \in Workers : WorkerStep(w)) \/ (\E j \in Jobs : Reclaim(j))

Spec == Init /\ [][Next]_vars

\* A worker that is up gets on with the job it has, and the timers of the
\* pool and of the reclaim loop fire; no heartbeat has to be late
\* and no process has to end.
Fairness ==
  /\ \A w \in Workers :
       WF_vars(Claim(w)) /\ WF_vars(Execute(w)) /\ WF_vars(Mark(w) \/ MarkLost(w))
       /\ WF_vars(IdleTimeout(w))
  /\ \A j \in Jobs : WF_vars((\A w \in Workers : task[w] # j) /\ Reclaim(j))

FairSpec == Spec /\ Fairness

-----------------------------------------------------------------------------
(* Properties *)

TypeOK ==
  /\ jobs \in [Jobs -> Row]
  /\ shown \in [Envs -> Runs \cup {NoRun}]
  /\ pc \in [Workers -> PC]
  /\ task \in [Workers -> Jobs \cup {NoJob}]
  /\ exit \in [Workers -> {"none", "succeeded", "failed"}]
  /\ session \in [Workers -> {"closed", "idle", "used", "dead"}]
  /\ held \in [Workers -> [Envs -> Nat]]
  /\ guarded \subseteq Workers
  /\ deployed \subseteq Jobs

\* The worker deploys and still has the session it took the lock with.
Deploying(w, e) == pc[w] = "deploying" /\ session[w] = "used" /\ Env(w) = e

\* "pg_try_advisory_lock keeps one active deploy per environment" (README.md:22):
\* through crashes, failed queries, leaked locks and dead sessions of others, at
\* most one worker deploys to an environment in a session that is alive.
OneDeploy ==
  \A e \in Envs : \A v, w \in Workers : Deploying(v, e) /\ Deploying(w, e) => v = w

\* The dashboard shows the run that deploys: neither the release of the one
\* before it nor a worker that lost its session takes the row away.
HolderShown ==
  \A e \in Envs : \A w \in Workers : Deploying(w, e) => shown[e] = RunOf[task[w]]

\* A job is 'success' only if its command was started by a worker that held the advisory lock
\* of the environment, and exited with 0: neither a busy lock, which ends execute with 75, nor
\* a query that throws in tryAcquire or release(), nor a session lost under the command, nor a
\* mark that comes after the job was given to another worker makes a deploy look done, or one
\* that nothing guarded (tryAcquire, execute, runLoop).
SuccessWasDeployed == \A j \in Jobs : jobs[j].status = "success" => j \in deployed

\* A lock that has leaked is in reach of the idle timeout: whatever failed, it is a
\* client in the pool that has it, or one a worker has taken out and will put
\* back; no lock outlives its session.
LeaksInReach ==
  \A w \in Workers :
    held[w] # NoLocks => session[w] = "idle" \/ (session[w] = "used" /\ pc[w] \in Using)

\* Locks leak when a query of tryAcquire or release() fails, but none is leaked
\* for ever: once the jobs are done, the idle timeout of the pool frees it.
LocksFreed == <>[](\A w \in Workers : held[w] = NoLocks)
=============================================================================
