-------------------------- MODULE DeployLock_proofs -------------------------
(***************************************************************************)
(* Theorems about DeployLock for every number of workers, environments and *)
(* deploys.                                                                *)
(***************************************************************************)
EXTENDS DeployLock, JobTable_proofs

\* The steps of Next, one by one.
LEMMA StepCases ==
  ASSUME [Next]_vars
  PROVE  \/ \E w \in Workers :
              \/ Claim(w) \/ Connect(w) \/ ConnectThrows(w) \/ TryLock(w) \/ LockBusy(w)
              \/ InsertLockRow(w) \/ AcquireThrows(w) \/ Deploy(w) \/ DeleteLockRow(w)
              \/ Unlock(w) \/ ReleaseThrows(w) \/ Mark(w) \/ MarkLost(w) \/ Crash(w)
              \/ Restart(w) \/ SessionDies(w) \/ IdleTimeout(w)
         \/ \E j \in Jobs : Reclaim(j)
         \/ UNCHANGED vars
  BY DEF Next, WorkerStep, Execute, Release

-----------------------------------------------------------------------------
(* Type correctness *)

\* A worker that is past the claim has a job in hand.
TaskInv == \A w \in Workers : pc[w] \notin {"idle", "down"} => task[w] \in Jobs

Typed == TypeOK /\ TaskInv

LEMMA TypedInit == Init => Typed
  BY NewRows DEF Init, Typed, TypeOK, TaskInv, NoLocks, PC, Using

LEMMA TypedStep == Typed /\ [Next]_vars => Typed'
<1> SUFFICES ASSUME Typed, [Next]_vars PROVE Typed'
  OBVIOUS
<1> USE DEF Typed, TypeOK, TaskInv
<1>0. NoLocks \in [Envs -> Nat]
  BY DEF NoLocks
<1>1. ASSUME NEW w \in Workers, Claim(w) PROVE Typed'
  <2>1. PICK j \in Jobs : /\ jobs' = [jobs EXCEPT ![j] = ClaimedRow(@, w)]
                          /\ task' = [task EXCEPT ![w] = j]
    BY <1>1 DEF Claim, FirstOf
  <2>2. ClaimedRow(jobs[j], w) \in Row
    BY ClaimedRowIs
  <2> QED
    BY <1>1, <2>1, <2>2 DEF Claim, Goto, PC
<1>2. ASSUME NEW w \in Workers, Connect(w) PROVE Typed'
  BY <1>2 DEF Connect, Goto, PC, Using
<1>3. ASSUME NEW w \in Workers, ConnectThrows(w) PROVE Typed'
  BY <1>3 DEF ConnectThrows, ExitWith, Goto, PC
<1>4. ASSUME NEW w \in Workers, TryLock(w) PROVE Typed'
  <2>1. Env(w) \in Envs
    BY <1>4, DeployAssumption DEF TryLock, Env
  <2>2. held[w][Env(w)] + 1 \in Nat
    BY <2>1
  <2>3. held' \in [Workers -> [Envs -> Nat]]
    BY <1>4, <2>2 DEF TryLock
  <2> QED
    BY <1>4, <2>3 DEF TryLock, Goto, PC, Using
<1>5. ASSUME NEW w \in Workers, LockBusy(w) PROVE Typed'
  BY <1>5 DEF LockBusy, GiveBack, ExitWith, Goto, PC
<1>6. ASSUME NEW w \in Workers, InsertLockRow(w) PROVE Typed'
  <2>1. RunOf[task[w]] \in Runs
    BY <1>6, JobsAssumption DEF InsertLockRow
  <2> QED
    BY <1>6, <2>1 DEF InsertLockRow, Goto, PC, Using
<1>7. ASSUME NEW w \in Workers, AcquireThrows(w) PROVE Typed'
  BY <1>7 DEF AcquireThrows, GiveBack, ExitWith, Goto, PC
<1>8. ASSUME NEW w \in Workers, Deploy(w) PROVE Typed'
  BY <1>8 DEF Deploy, Goto, PC, Using
<1>9. ASSUME NEW w \in Workers, DeleteLockRow(w) PROVE Typed'
  BY <1>9 DEF DeleteLockRow, Goto, PC, Using
<1>10. ASSUME NEW w \in Workers, Unlock(w) PROVE Typed'
  <2>1. Env(w) \in Envs
    BY <1>10, DeployAssumption DEF Unlock, Env
  <2>2. (IF held[w][Env(w)] > 0 THEN held[w][Env(w)] - 1 ELSE 0) \in Nat
    BY <2>1
  <2>3. held' \in [Workers -> [Envs -> Nat]]
    BY <1>10, <2>2 DEF Unlock
  <2> QED
    BY <1>10, <2>3 DEF Unlock, GiveBack, Goto, PC
<1>11. ASSUME NEW w \in Workers, ReleaseThrows(w) PROVE Typed'
  BY <1>11 DEF ReleaseThrows, GiveBack, ExitWith, Goto, PC
<1>12. ASSUME NEW w \in Workers, Mark(w) PROVE Typed'
  <2>1. CompletedRow(jobs[task[w]]) \in Row /\ FailedRow(jobs[task[w]]) \in Row
    BY <1>12, CompletedRowIs, FailedRowIs DEF Mark
  <2> QED
    BY <1>12, <2>1 DEF Mark, LoopAgain, Goto, PC
<1>13. ASSUME NEW w \in Workers, MarkLost(w) PROVE Typed'
  BY <1>13 DEF MarkLost, LoopAgain, Goto, PC
<1>14. ASSUME NEW w \in Workers, Crash(w) PROVE Typed'
  BY <1>0, <1>14 DEF Crash, Goto, PC
<1>15. ASSUME NEW w \in Workers, Restart(w) PROVE Typed'
  BY <1>15 DEF Restart, Goto, PC
<1>16. ASSUME NEW w \in Workers, SessionDies(w) \/ IdleTimeout(w) PROVE Typed'
  BY <1>0, <1>16 DEF SessionDies, IdleTimeout
<1>17. ASSUME NEW j \in Jobs, Reclaim(j) PROVE Typed'
  <2>1. ReclaimedRow(jobs[j]) \in Row
    BY ReclaimedRowIs
  <2> QED
    BY <1>17, <2>1 DEF Reclaim
<1>18. CASE UNCHANGED vars
  BY <1>18 DEF vars
<1> QED
  BY <1>1, <1>2, <1>3, <1>4, <1>5, <1>6, <1>7, <1>8, <1>9, <1>10, <1>11, <1>12, <1>13, <1>14,
     <1>15, <1>16, <1>17, <1>18, StepCases

\* Jobs, rows of deployment_locks, connections and lock counts have the types of
\* the schema, whatever fails while a deploy is under way.
THEOREM DeployTypes == Spec => []TypeOK
<1>1. Init => Typed
  BY TypedInit
<1>2. Typed /\ [Next]_vars => Typed'
  BY TypedStep
<1>3. Typed => TypeOK
  BY DEF Typed
<1> QED
  BY <1>1, <1>2, <1>3, PTL DEF Spec

-----------------------------------------------------------------------------
(* One deploy per environment *)

\* The worker has the lock of the environment it deploys to, if its session lives.
HasLock(w) ==
  pc[w] \in {"locked", "deploying", "releasing", "deleted"} /\ session[w] = "used" =>
    held[w][Env(w)] > 0

Exclusive == \A v, w \in Workers : \A e \in Envs : held[v][e] > 0 /\ held[w][e] > 0 => v = w

\* No lock is counted for two sessions, and a live session between TryLock and
\* Unlock has its own: a leaked count can only make it larger.
LockInv == Exclusive /\ \A w \in Workers : HasLock(w)

LEMMA LockInit == Init => LockInv
  BY DEF Init, LockInv, Exclusive, HasLock, NoLocks

\* A step of one worker leaves the others as they are.
LEMMA OneWorkerStep ==
  ASSUME Typed, LockInv, NEW w \in Workers,
         \A v \in Workers \ {w} : /\ pc'[v] = pc[v] /\ task'[v] = task[v]
                                  /\ session'[v] = session[v] /\ held'[v] = held[v],
         \A e \in Envs : held'[w][e] > 0 =>
           held[w][e] > 0 \/ \A v \in Workers \ {w} : ~(held[v][e] > 0),
         HasLock(w)'
  PROVE  LockInv'
<1>1. \A v \in Workers \ {w} : HasLock(v)'
  BY DEF LockInv, HasLock, Env
<1>2. Exclusive'
  BY DEF LockInv, Exclusive
<1> QED
  BY <1>1, <1>2 DEF LockInv

LEMMA LockStep == Typed /\ LockInv /\ [Next]_vars => LockInv'
<1> SUFFICES ASSUME Typed, LockInv, [Next]_vars PROVE LockInv'
  OBVIOUS
<1> USE DEF Typed, TypeOK, TaskInv
<1>1. ASSUME NEW w \in Workers, held' = held,
             \A v \in Workers \ {w} : pc'[v] = pc[v] /\ task'[v] = task[v] /\ session'[v] = session[v],
             pc'[w] \in {"locked", "deploying", "releasing", "deleted"} /\ session'[w] = "used" =>
               /\ pc[w] \in {"locked", "deploying", "releasing", "deleted"} /\ session[w] = "used"
               /\ task'[w] = task[w]
      PROVE  LockInv'
  BY <1>1, OneWorkerStep DEF HasLock, LockInv, Env
<1>2. ASSUME NEW w \in Workers, held' = [held EXCEPT ![w] = NoLocks], session'[w] # "used",
             \A v \in Workers \ {w} : pc'[v] = pc[v] /\ task'[v] = task[v] /\ session'[v] = session[v]
      PROVE  LockInv'
  BY <1>2, OneWorkerStep DEF HasLock, NoLocks
<1>3. ASSUME NEW w \in Workers, Claim(w) PROVE LockInv'
  BY <1>1, <1>3 DEF Claim, Goto
<1>4. ASSUME NEW w \in Workers, Connect(w) \/ ConnectThrows(w) PROVE LockInv'
  BY <1>1, <1>4 DEF Connect, ConnectThrows, ExitWith, Goto
<1>5. ASSUME NEW w \in Workers, TryLock(w) PROVE LockInv'
  <2>1. Env(w) \in Envs /\ held[w][Env(w)] + 1 > 0
    BY <1>5, DeployAssumption DEF TryLock, Env
  <2>2. /\ held'[w] = [held[w] EXCEPT ![Env(w)] = held[w][Env(w)] + 1]
        /\ \A v \in Workers \ {w} : held'[v] = held[v] /\ ~(held[v][Env(w)] > 0)
    BY <1>5 DEF TryLock, LockedByOther
  <2>3. Env(w)' = Env(w)
    BY <1>5 DEF TryLock, Env
  <2>4. HasLock(w)'
    BY <2>1, <2>2, <2>3 DEF HasLock
  <2> QED
    BY <1>5, <2>1, <2>2, <2>4, OneWorkerStep DEF TryLock, Goto
<1>6. ASSUME NEW w \in Workers, LockBusy(w) \/ AcquireThrows(w) \/ ReleaseThrows(w) PROVE LockInv'
  BY <1>1, <1>6 DEF LockBusy, AcquireThrows, ReleaseThrows, GiveBack, ExitWith, Goto
<1>7. ASSUME NEW w \in Workers, InsertLockRow(w) \/ Deploy(w) \/ DeleteLockRow(w) PROVE LockInv'
  BY <1>1, <1>7 DEF InsertLockRow, Deploy, DeleteLockRow, Goto
<1>8. ASSUME NEW w \in Workers, Unlock(w) PROVE LockInv'
  <2>1. Env(w) \in Envs
    BY <1>8, DeployAssumption DEF Unlock, Env
  <2>2. /\ held'[w] = [held[w] EXCEPT ![Env(w)] = IF @ > 0 THEN @ - 1 ELSE 0]
        /\ \A v \in Workers \ {w} : held'[v] = held[v]
    BY <1>8 DEF Unlock
  <2>3. \A e \in Envs : held'[w][e] > 0 => held[w][e] > 0
    BY <2>1, <2>2
  <2>4. HasLock(w)'
    BY <1>8 DEF HasLock, Unlock, Goto
  <2> QED
    BY <1>8, <2>2, <2>3, <2>4, OneWorkerStep DEF Unlock, Goto, GiveBack
<1>9. ASSUME NEW w \in Workers, Mark(w) \/ MarkLost(w) \/ Restart(w) PROVE LockInv'
  BY <1>1, <1>9 DEF Mark, MarkLost, LoopAgain, Restart, Goto
<1>10. ASSUME NEW w \in Workers, Crash(w) \/ SessionDies(w) \/ IdleTimeout(w) PROVE LockInv'
  BY <1>2, <1>10 DEF Crash, SessionDies, IdleTimeout, Goto
<1>11. CASE UNCHANGED <<pc, task, session, held>>
  BY <1>11 DEF LockInv, Exclusive, HasLock, Env
<1>12. ASSUME NEW j \in Jobs, Reclaim(j) PROVE LockInv'
  BY <1>11, <1>12 DEF Reclaim
<1> QED
  BY <1>3, <1>4, <1>5, <1>6, <1>7, <1>8, <1>9, <1>10, <1>11, <1>12, StepCases DEF vars

\* At most one worker deploys to an environment in a session that is alive,
\* through crashes, failed queries, leaked locks and dead sessions of others.
THEOREM DeploysExclusive == Spec => []OneDeploy
<1>1. Init => Typed /\ LockInv
  BY TypedInit, LockInit
<1>2. Typed /\ LockInv /\ [Next]_vars => Typed' /\ LockInv'
  BY TypedStep, LockStep
<1>3. LockInv => OneDeploy
  BY DEF LockInv, Exclusive, HasLock, OneDeploy, Deploying
<1> QED
  BY <1>1, <1>2, <1>3, PTL DEF Spec

-----------------------------------------------------------------------------
(* The dashboard shows the run that deploys *)

\* Whose row of deployment_locks it is, until it is deleted.
RowShown(w) ==
  pc[w] \in {"deploying", "releasing"} /\ session[w] = "used" => shown[Env(w)] = RunOf[task[w]]

ShownInv == \A w \in Workers : RowShown(w)

LEMMA ShownInit == Init => ShownInv
  BY DEF Init, ShownInv, RowShown

LEMMA ShownStep == Typed /\ LockInv /\ ShownInv /\ [Next]_vars => ShownInv'
<1> SUFFICES ASSUME Typed, LockInv, ShownInv, [Next]_vars PROVE ShownInv'
  OBVIOUS
<1> USE DEF Typed, TypeOK, TaskInv
<1>1. ASSUME NEW w \in Workers, shown' = shown,
             \A v \in Workers \ {w} : pc'[v] = pc[v] /\ task'[v] = task[v] /\ session'[v] = session[v],
             pc'[w] \in {"deploying", "releasing"} /\ session'[w] = "used" =>
               /\ pc[w] \in {"deploying", "releasing"} /\ session[w] = "used"
               /\ task'[w] = task[w]
      PROVE  ShownInv'
  BY <1>1 DEF ShownInv, RowShown, Env
\* A worker that writes the row has the lock, so that nobody else relies on it.
<1>2. ASSUME NEW w \in Workers, NEW r, shown' = [shown EXCEPT ![Env(w)] = r],
             \A v \in Workers \ {w} : pc'[v] = pc[v] /\ task'[v] = task[v] /\ session'[v] = session[v],
             pc[w] \in {"locked", "releasing"} /\ session[w] = "used",
             RowShown(w)'
      PROVE  ShownInv'
  <2>1. Env(w) \in Envs /\ held[w][Env(w)] > 0
    BY <1>2, DeployAssumption DEF LockInv, HasLock, Env
  <2>2. ASSUME NEW v \in Workers \ {w}, pc[v] \in {"deploying", "releasing"}, session[v] = "used"
        PROVE  Env(v) # Env(w)
    BY <2>1, <2>2 DEF LockInv, HasLock, Exclusive
  <2>3. ASSUME NEW v \in Workers \ {w} PROVE RowShown(v)'
    BY <1>2, <2>2 DEF ShownInv, RowShown, Env
  <2> QED
    BY <1>2, <2>3 DEF ShownInv
<1>3. ASSUME NEW w \in Workers,
             \/ Claim(w) \/ Connect(w) \/ ConnectThrows(w) \/ TryLock(w) \/ LockBusy(w) \/ AcquireThrows(w)
      PROVE  ShownInv'
  BY <1>1, <1>3 DEF Claim, Connect, ConnectThrows, TryLock, LockBusy, AcquireThrows, GiveBack,
                    ExitWith, Goto
<1>4. ASSUME NEW w \in Workers, InsertLockRow(w) PROVE ShownInv'
  <2>1. Env(w) \in Envs /\ Env(w)' = Env(w)
    BY <1>4, DeployAssumption DEF InsertLockRow, Env
  <2>2. shown'[Env(w)] = RunOf[task[w]]
    BY <1>4, <2>1 DEF InsertLockRow
  <2>3. RowShown(w)'
    BY <1>4, <2>1, <2>2 DEF RowShown, InsertLockRow
  <2> QED
    BY <1>2, <1>4, <2>3 DEF InsertLockRow, Goto
<1>5. ASSUME NEW w \in Workers, DeleteLockRow(w) PROVE ShownInv'
  <2>1. RowShown(w)'
    BY <1>5 DEF DeleteLockRow, RowShown, Goto
  <2> QED
    BY <1>2, <1>5, <2>1 DEF DeleteLockRow, Goto
<1>6. ASSUME NEW w \in Workers,
             Deploy(w) \/ Unlock(w) \/ ReleaseThrows(w) \/ Mark(w) \/ MarkLost(w)
      PROVE  ShownInv'
  BY <1>1, <1>6 DEF Deploy, Unlock, ReleaseThrows, Mark, MarkLost, LoopAgain, GiveBack, ExitWith, Goto
<1>7. ASSUME NEW w \in Workers, Crash(w) \/ Restart(w) \/ SessionDies(w) \/ IdleTimeout(w)
      PROVE  ShownInv'
  BY <1>1, <1>7 DEF Crash, Restart, SessionDies, IdleTimeout, Goto
<1>8. CASE UNCHANGED <<shown, pc, task, session>>
  BY <1>8 DEF ShownInv, RowShown, Env
<1>9. ASSUME NEW j \in Jobs, Reclaim(j) PROVE ShownInv'
  BY <1>8, <1>9 DEF Reclaim
<1> QED
  BY <1>3, <1>4, <1>5, <1>6, <1>7, <1>8, <1>9, StepCases DEF vars

\* Neither the release of the deploy before it nor a worker that lost its session
\* takes away the row of the run that deploys.
THEOREM DeploysShown == Spec => []HolderShown
<1>1. Init => Typed /\ LockInv /\ ShownInv
  BY TypedInit, LockInit, ShownInit
<1>2. Typed /\ LockInv /\ ShownInv /\ [Next]_vars => Typed' /\ LockInv' /\ ShownInv'
  BY TypedStep, LockStep, ShownStep
<1>3. ShownInv => HolderShown
  BY DEF ShownInv, RowShown, HolderShown, Deploying
<1> QED
  BY <1>1, <1>2, <1>3, PTL DEF Spec

-----------------------------------------------------------------------------
(* Success means deployed under the lock *)

\* The command of a worker runs under the lock it was started with, and an exit code of 0 was
\* given by such a command, for the job in hand.
ExitInv ==
  \A w \in Workers :
    /\ pc[w] = "deploying" => w \in guarded
    /\ exit[w] = "succeeded" =>
         pc[w] \in {"releasing", "deleted", "marking"} /\ task[w] \in deployed

DeployedInv == SuccessWasDeployed /\ ExitInv

LEMMA DeployedInit == Init => DeployedInv
  BY NewRows DEF Init, DeployedInv, SuccessWasDeployed, ExitInv

\* LockInv gives that the worker whose command starts has the lock.
LEMMA DeployedStep == Typed /\ LockInv /\ DeployedInv /\ [Next]_vars => DeployedInv'
<1> SUFFICES ASSUME Typed, LockInv, DeployedInv, [Next]_vars PROVE DeployedInv'
  OBVIOUS
<1> USE DEF Typed, TypeOK, TaskInv, DeployedInv, SuccessWasDeployed, ExitInv
\* A row that is written is 'success' only if its job was deployed.
<1>1. ASSUME NEW j \in Jobs, NEW r, jobs' = [jobs EXCEPT ![j] = r], deployed' = deployed,
             r.status = "success" => j \in deployed
      PROVE  SuccessWasDeployed'
  BY <1>1
<1>2. ASSUME NEW w \in Workers, Claim(w) PROVE DeployedInv'
  <2>1. PICK j \in Jobs : /\ jobs' = [jobs EXCEPT ![j] = ClaimedRow(@, w)]
                          /\ task' = [task EXCEPT ![w] = j]
                          /\ Claimable(jobs, j)
    BY <1>2 DEF Claim, FirstOf
  <2>2. ClaimedRow(jobs[j], w).status # "success"
    BY ClaimedRowIs
  <2>3. ExitInv'
    BY <1>2, <2>1 DEF Claim, Goto
  <2> QED
    BY <1>1, <1>2, <2>1, <2>2, <2>3 DEF Claim
<1>3. ASSUME NEW w \in Workers,
             \/ Connect(w) \/ ConnectThrows(w) \/ TryLock(w) \/ LockBusy(w)
             \/ AcquireThrows(w) \/ DeleteLockRow(w) \/ Unlock(w) \/ ReleaseThrows(w)
      PROVE  DeployedInv'
  BY <1>3 DEF Connect, ConnectThrows, TryLock, LockBusy, AcquireThrows,
              DeleteLockRow, Unlock, ReleaseThrows, ExitWith, Goto
<1>4. ASSUME NEW w \in Workers, InsertLockRow(w) PROVE DeployedInv'
  <2>1. held[w][Env(w)] > 0
    BY <1>4 DEF InsertLockRow, LockInv, HasLock
  <2>2. guarded' = guarded \cup {w}
    BY <1>4, <2>1 DEF InsertLockRow
  <2> QED
    BY <1>4, <2>2 DEF InsertLockRow, Goto
<1>5. ASSUME NEW w \in Workers, Deploy(w) PROVE DeployedInv'
  <2>1. w \in guarded
    BY <1>5 DEF Deploy
  <2> QED
    BY <1>5, <2>1 DEF Deploy, Goto
<1>6. ASSUME NEW w \in Workers, Mark(w) PROVE DeployedInv'
  <2>1. FailedRow(jobs[task[w]]).status # "success"
    BY <1>6, FailedRowIs DEF Mark
  <2>2. ExitInv'
    BY <1>6 DEF Mark, LoopAgain, Goto
  <2> QED
    BY <1>1, <1>6, <2>1, <2>2 DEF Mark, LoopAgain
<1>7. ASSUME NEW w \in Workers,
             \/ MarkLost(w) \/ Crash(w) \/ Restart(w) \/ SessionDies(w) \/ IdleTimeout(w)
      PROVE  DeployedInv'
  BY <1>7 DEF MarkLost, LoopAgain, Crash, Restart, SessionDies, IdleTimeout, Goto
<1>8. ASSUME NEW j \in Jobs, Reclaim(j) PROVE DeployedInv'
  <2>1. ReclaimedRow(jobs[j]).status # "success"
    BY ReclaimedRowIs
  <2> QED
    BY <1>1, <1>8, <2>1 DEF Reclaim
<1>9. CASE UNCHANGED vars
  BY <1>9 DEF vars
<1> QED
  BY <1>2, <1>3, <1>4, <1>5, <1>6, <1>7, <1>8, <1>9, StepCases

\* A job is 'success' only if its command was started by a worker that held the advisory lock
\* of the environment, and exited with 0, whatever failed around it and however late the mark.
THEOREM SuccessMeansDeployed == Spec => []SuccessWasDeployed
<1>1. Init => Typed /\ LockInv /\ DeployedInv
  BY TypedInit, LockInit, DeployedInit
<1>2. Typed /\ LockInv /\ DeployedInv /\ [Next]_vars => Typed' /\ LockInv' /\ DeployedInv'
  BY TypedStep, LockStep, DeployedStep
<1>3. DeployedInv => SuccessWasDeployed
  BY DEF DeployedInv
<1> QED
  BY <1>1, <1>2, <1>3, PTL DEF Spec

-----------------------------------------------------------------------------
(* What leaks is in reach *)

\* A client is out of the pool exactly between connect and release, and a session
\* that is not open has no locks.
InPool(w) ==
  /\ pc[w] \in Using <=> session[w] \in {"used", "dead"}
  /\ session[w] \in {"closed", "dead"} => held[w] = NoLocks

PoolInv == \A w \in Workers : InPool(w)

LEMMA PoolInit == Init => PoolInv
  BY DEF Init, PoolInv, InPool, Using

LEMMA PoolStep == Typed /\ PoolInv /\ [Next]_vars => PoolInv'
<1> SUFFICES ASSUME Typed, PoolInv, [Next]_vars PROVE PoolInv'
  OBVIOUS
<1> USE DEF Typed, TypeOK, Using
<1>1. ASSUME NEW w \in Workers, InPool(w)',
             \A v \in Workers \ {w} : pc'[v] = pc[v] /\ session'[v] = session[v] /\ held'[v] = held[v]
      PROVE  PoolInv'
  BY <1>1 DEF PoolInv, InPool, NoLocks
<1>2. ASSUME NEW w \in Workers, UNCHANGED <<session, held>>, pc'[w] \in Using <=> pc[w] \in Using,
             \A v \in Workers \ {w} : pc'[v] = pc[v]
      PROVE  PoolInv'
  BY <1>1, <1>2 DEF PoolInv, InPool, NoLocks
<1>3. ASSUME NEW w \in Workers, Claim(w) PROVE PoolInv'
  BY <1>2, <1>3 DEF Claim, Goto
<1>4. ASSUME NEW w \in Workers, Connect(w) PROVE PoolInv'
  BY <1>1, <1>4 DEF Connect, Goto, InPool
<1>5. ASSUME NEW w \in Workers, ConnectThrows(w) PROVE PoolInv'
  BY <1>2, <1>5 DEF ConnectThrows, ExitWith, Goto
<1>6. ASSUME NEW w \in Workers, TryLock(w) PROVE PoolInv'
  BY <1>1, <1>6 DEF TryLock, Goto, InPool
<1>7. ASSUME NEW w \in Workers, LockBusy(w) \/ AcquireThrows(w) \/ ReleaseThrows(w) PROVE PoolInv'
  <2>1. /\ pc[w] \in Using /\ pc' = [pc EXCEPT ![w] = "marking"] /\ held' = held
        /\ session' = [session EXCEPT ![w] = "idle"]
    BY <1>7 DEF LockBusy, AcquireThrows, ReleaseThrows, GiveBack, ExitWith, Goto
  <2>2. InPool(w)'
    BY <2>1 DEF PoolInv, InPool, NoLocks
  <2> QED
    BY <1>1, <2>1, <2>2
<1>8. ASSUME NEW w \in Workers, InsertLockRow(w) \/ Deploy(w) \/ DeleteLockRow(w) PROVE PoolInv'
  BY <1>2, <1>8 DEF InsertLockRow, Deploy, DeleteLockRow, Goto
<1>9. ASSUME NEW w \in Workers, Unlock(w) PROVE PoolInv'
  BY <1>1, <1>9 DEF Unlock, GiveBack, Goto, InPool
<1>10. ASSUME NEW w \in Workers, Mark(w) \/ MarkLost(w) \/ Restart(w) PROVE PoolInv'
  BY <1>2, <1>10 DEF Mark, MarkLost, LoopAgain, Restart, Goto
<1>11. ASSUME NEW w \in Workers, Crash(w) \/ SessionDies(w) \/ IdleTimeout(w) PROVE PoolInv'
  <2>1. /\ \A v \in Workers \ {w} : pc'[v] = pc[v] /\ session'[v] = session[v] /\ held'[v] = held[v]
        /\ held'[w] = NoLocks
        /\ pc'[w] \in Using <=> session'[w] \in {"used", "dead"}
    BY <1>11 DEF Crash, SessionDies, IdleTimeout, Goto, PoolInv, InPool
  <2>2. InPool(w)'
    BY <2>1 DEF InPool, NoLocks
  <2> QED
    BY <1>1, <2>1, <2>2
<1>12. CASE UNCHANGED <<pc, session, held>>
  BY <1>12 DEF PoolInv, InPool, NoLocks
<1>13. ASSUME NEW j \in Jobs, Reclaim(j) PROVE PoolInv'
  BY <1>12, <1>13 DEF Reclaim
<1> QED
  BY <1>3, <1>4, <1>5, <1>6, <1>7, <1>8, <1>9, <1>10, <1>11, <1>12, <1>13, StepCases DEF vars

\* Whatever fails, a lock is never out of reach of the idle timeout: the client
\* that has it is in the pool or will be put back by the worker that uses it.
THEOREM LeaksStayInReach == Spec => []LeaksInReach
<1>1. Init => Typed /\ PoolInv
  BY TypedInit, PoolInit
<1>2. Typed /\ PoolInv /\ [Next]_vars => Typed' /\ PoolInv'
  BY TypedStep, PoolStep
<1>3. Typed /\ PoolInv => LeaksInReach
  BY DEF Typed, TypeOK, PoolInv, InPool, LeaksInReach
<1> QED
  BY <1>1, <1>2, <1>3, PTL DEF Spec
=============================================================================
