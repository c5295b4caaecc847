-------------------------- MODULE RunStatus_proofs --------------------------
(***************************************************************************)
(* Theorems about RunStatus for every set of jobs, every order of steps    *)
(* and every value of max_retries.                                         *)
(***************************************************************************)
EXTENDS RunStatus, JobTable_proofs

\* The steps of Next, one by one.
LEMMA StepCases ==
  ASSUME [Next]_vars
  PROVE  \/ InsertsEnd
         \/ \E j \in Jobs : \/ InsertNewJob(j) \/ Claim(j) \/ Mark(j) \/ Reclaim(j) \/ Forget(j)
                            \/ CheckRunning(j) \/ TouchRun(j) \/ LeaveRun(j)
                            \/ Judge(j) \/ SettleRun(j) \/ CommitJob(j) \/ Abort(j)
         \/ UNCHANGED vars
  BY DEF Next, Statement, Trigger

\* Writes: which rows the statements of the job queue write, over which.
LEMMA Writes ==
  ASSUME TypeOK, NEW j \in Jobs, InsertNewJob(j) \/ Claim(j) \/ Mark(j) \/ Reclaim(j)
  PROVE  \E row \in Row :
           /\ Write(j, row)
           /\ UNCHANGED inserting /\ raced' \in BOOLEAN /\ late' \in BOOLEAN
           /\ holders' \in [Jobs -> Nat] /\ \A k \in Jobs : holders'[k] <= holders[k]
           /\ \/ rows[j].status = "absent" /\ row.status = "pending"
              \/ rows[j].status = "pending" /\ row.status = "running"
              \/ /\ rows[j].status = "running" \/ holders[j] > 0
                 /\ row.status \in {"pending"} \cup Terminal
<1>0. rows[j] \in Row /\ holders \in [Jobs -> Nat]
  BY DEF TypeOK
<1>1. CASE InsertNewJob(j)
  BY <1>1, NewRows DEF InsertNewJob, Present, TypeOK
<1>2. CASE Claim(j)
  <2>1. raced' \in BOOLEAN
    BY <1>2 DEF Claim, TypeOK
  <2>2. PICK w \in Workers : Write(j, ClaimedRow(rows[j], w))
    BY <1>2 DEF Claim
  <2>3. rows[j].status = "pending" /\ UNCHANGED <<inserting, holders, late>>
    BY <1>2 DEF Claim, FirstOf, Claimable
  <2> QED
    BY <1>0, <2>1, <2>2, <2>3, ClaimedRowIs DEF TypeOK
<1>3. CASE Mark(j)
  <2>1. PICK row \in {CompletedRow(rows[j]), FailedRow(rows[j])} : Write(j, row)
    BY <1>3 DEF Mark
  <2>2. row \in Row /\ row.status \in {"pending"} \cup Terminal
    BY <1>0, <2>1, CompletedRowIs, FailedRowIs DEF Terminal
  <2>3. holders[j] > 0 /\ holders' = [holders EXCEPT ![j] = @ - 1] /\ UNCHANGED <<inserting, raced, late>>
    BY <1>3 DEF Mark
  <2>4. holders' \in [Jobs -> Nat] /\ \A k \in Jobs : holders'[k] <= holders[k]
    BY <1>0, <2>3
  <2> QED
    BY <2>1, <2>2, <2>3, <2>4 DEF TypeOK
<1>4. CASE Reclaim(j)
  <2>1. rows[j].status = "running"
    BY <1>0, <1>4, StaleRowIs DEF Reclaim, Reclaimable
  <2>2. late' \in BOOLEAN
    BY <1>4 DEF Reclaim, TypeOK
  <2> QED
    BY <1>0, <1>4, <2>1, <2>2, ReclaimedRowIs DEF Reclaim, TypeOK
<1> QED
  BY <1>1, <1>2, <1>3, <1>4

-----------------------------------------------------------------------------
(* Type correctness *)

LEMMA TypeInit == Init => TypeOK
<1>1. NoTxn \in Txn /\ NoTxn.at = "none"
  BY NewRows DEF NoTxn, Txn
<1> SUFFICES ASSUME Init PROVE TypeOK
  OBVIOUS
<1>2. inserting \in BOOLEAN /\ raced \in BOOLEAN /\ late \in BOOLEAN /\ holders \in [Jobs -> Nat]
  BY DEF Init
<1>3. run \in RunRow
  BY DEF Init, RunRow
<1>4. rows \in [Jobs -> Row] /\ txn \in [Jobs -> Txn]
  BY <1>1, NewRows DEF Init
<1>5. \A j \in Jobs : txn[j].at = "settle" => txn[j].verdict \in Terminal
  BY <1>1 DEF Init
<1> QED
  BY <1>2, <1>3, <1>4, <1>5 DEF TypeOK

LEMMA TypeStep == TypeOK /\ [Next]_vars => TypeOK'
<1> SUFFICES ASSUME TypeOK, [Next]_vars PROVE TypeOK'
  OBVIOUS
<1>1. CASE InsertsEnd
  BY <1>1 DEF InsertsEnd, TypeOK
<1>2. ASSUME NEW j \in Jobs, InsertNewJob(j) \/ Claim(j) \/ Mark(j) \/ Reclaim(j) PROVE TypeOK'
  <2>1. PICK row \in Row : /\ Write(j, row) /\ UNCHANGED inserting
                           /\ raced' \in BOOLEAN /\ late' \in BOOLEAN /\ holders' \in [Jobs -> Nat]
    BY <1>2, Writes
  <2> QED
    BY <2>1 DEF TypeOK, Write, Txn
<1>3. ASSUME NEW j \in Jobs, CheckRunning(j) PROVE TypeOK'
  BY <1>3 DEF TypeOK, CheckRunning, Txn
<1>4. ASSUME NEW j \in Jobs, LeaveRun(j) PROVE TypeOK'
  BY <1>4 DEF TypeOK, LeaveRun, Txn
<1>5. ASSUME NEW j \in Jobs, Judge(j) PROVE TypeOK'
  <2>1. Verdict(Seen(j)) \in Terminal
    BY DEF Verdict, Terminal
  <2> QED
    BY <1>5, <2>1 DEF TypeOK, Judge, Txn
<1>6. ASSUME NEW j \in Jobs, Commit(j)
      PROVE  /\ rows' \in [Jobs -> Row] /\ txn' \in [Jobs -> Txn] /\ inserting' \in BOOLEAN
             /\ raced' \in BOOLEAN /\ late' \in BOOLEAN /\ holders' \in [Jobs -> Nat]
             /\ \A k \in Jobs : txn'[k].at = "settle" => txn'[k].verdict \in Terminal
  BY <1>6, NewRows DEF TypeOK, Commit, Seen, Txn, NoTxn
<1>7. ASSUME NEW j \in Jobs, TouchRun(j) PROVE TypeOK'
  BY <1>6, <1>7 DEF TypeOK, TouchRun, TouchedRun, RunRow
<1>8. ASSUME NEW j \in Jobs, SettleRun(j) PROVE TypeOK'
  <2>1. txn[j].verdict \in Terminal
    BY <1>8 DEF TypeOK, SettleRun
  <2> QED
    BY <1>6, <1>8, <2>1 DEF TypeOK, SettleRun, RunRow
<1>9. ASSUME NEW j \in Jobs, CommitJob(j) PROVE TypeOK'
  BY <1>6, <1>9 DEF TypeOK, CommitJob
<1>10. ASSUME NEW j \in Jobs, Abort(j) PROVE TypeOK'
  BY <1>10, NewRows DEF TypeOK, Abort, Txn, NoTxn
<1>11. ASSUME NEW j \in Jobs, Forget(j) PROVE TypeOK'
  BY <1>11 DEF TypeOK, Forget
<1>12. CASE UNCHANGED vars
  BY <1>12 DEF TypeOK, vars
<1> QED
  BY <1>1, <1>2, <1>3, <1>4, <1>5, <1>7, <1>8, <1>9, <1>10, <1>11, <1>12, StepCases

\* The rows of jobs, the run and every open transaction have the types of the
\* schema, however the inserts, claims and marks of the run interleave.
THEOREM RunTypes == Spec => []TypeOK
<1>1. Init => TypeOK
  BY TypeInit
<1>2. TypeOK /\ [Next]_vars => TypeOK'
  BY TypeStep
<1> QED
  BY <1>1, <1>2, PTL DEF Spec

-----------------------------------------------------------------------------
(* No start is lost *)

\* A transaction that has written 'running' has not passed the UPDATE of the
\* run, or has found started_at set; one that ends a job has found it running.
StartInv ==
  /\ StartNoted
  /\ \A j \in Jobs : holders[j] > 0 => run.started
  /\ \A j \in Jobs : Open(j) =>
       /\ txn[j].row.status \in Terminal => run.started
       /\ txn[j].row.status = "running" => txn[j].at \in {"check", "touch"} \/ run.started

\* started_at is never taken back.
LEMMA StartedStays == TypeOK /\ [Next]_vars => (run.started => run'.started)
<1> SUFFICES ASSUME TypeOK, [Next]_vars, run.started PROVE run'.started
  OBVIOUS
<1>1. CASE run' = run
  BY <1>1
<1>2. ASSUME NEW j \in Jobs, TouchRun(j) PROVE run'.started
  BY <1>2 DEF TouchRun, TouchedRun, TypeOK, RunRow
<1>3. ASSUME NEW j \in Jobs, SettleRun(j) PROVE run'.started
  BY <1>3 DEF SettleRun, TypeOK, RunRow
<1>4. ASSUME NEW j \in Jobs, InsertNewJob(j) \/ Claim(j) \/ Mark(j) \/ Reclaim(j) PROVE run' = run
  BY <1>4, Writes DEF Write
<1> QED
  BY <1>1, <1>2, <1>3, <1>4, StepCases
     DEF InsertsEnd, CheckRunning, LeaveRun, Judge, CommitJob, Abort, Forget, vars

LEMMA StartInit == Init => StartInv
  BY NewRows DEF Init, StartInv, StartNoted, Open, NoTxn, Terminal

LEMMA StartStep == TypeOK /\ StartInv /\ [Next]_vars => StartInv'
<1> SUFFICES ASSUME TypeOK, StartInv, [Next]_vars PROVE StartInv'
  OBVIOUS
<1>0. run.started => run'.started
  BY StartedStays
<1>1. ASSUME rows' = rows, \A j \in Jobs : holders'[j] > 0 => holders[j] > 0
      PROVE  StartNoted' /\ \A j \in Jobs : holders'[j] > 0 => run'.started
  BY <1>0, <1>1 DEF StartInv, StartNoted
<1>2. CASE InsertsEnd \/ UNCHANGED vars
  BY <1>2 DEF InsertsEnd, vars, StartInv, StartNoted, Open
<1>3. ASSUME NEW j \in Jobs, InsertNewJob(j) \/ Claim(j) \/ Mark(j) \/ Reclaim(j) PROVE StartInv'
  <2>1. PICK row \in Row :
          /\ Write(j, row)
          /\ holders' \in [Jobs -> Nat] /\ \A k \in Jobs : holders'[k] <= holders[k]
          /\ \/ rows[j].status = "absent" /\ row.status = "pending"
             \/ rows[j].status = "pending" /\ row.status = "running"
             \/ /\ rows[j].status = "running" \/ holders[j] > 0
                /\ row.status \in {"pending"} \cup Terminal
    BY <1>3, Writes
  <2>2. rows' = rows /\ run' = run
        /\ txn' = [txn EXCEPT ![j] = [at |-> "check", row |-> row, verdict |-> "none"]]
    BY <2>1 DEF Write
  <2>3. row.status \in Terminal => run.started
    BY <2>1 DEF StartInv, StartNoted, Terminal
  <2>4. \A k \in Jobs : holders'[k] > 0 => holders[k] > 0
    BY <2>1 DEF TypeOK
  <2>5. StartNoted' /\ \A k \in Jobs : holders'[k] > 0 => run'.started
    BY <1>1, <2>2, <2>4
  <2> QED
    BY <2>2, <2>3, <2>5 DEF StartInv, Open, TypeOK
<1>4. ASSUME NEW j \in Jobs, CheckRunning(j) PROVE StartInv'
  <2>1. txn[j].row.status = "running" => txn'[j].at = "touch"
    BY <1>4 DEF CheckRunning, Seen, TypeOK, Txn
  <2> QED
    BY <1>1, <1>4, <2>1 DEF CheckRunning, StartInv, Open, TypeOK, Txn
<1>5. ASSUME NEW j \in Jobs, LeaveRun(j) PROVE StartInv'
  BY <1>1, <1>5 DEF LeaveRun, StartInv, Open, TypeOK, Txn
<1>6. ASSUME NEW j \in Jobs, Judge(j) PROVE StartInv'
  <2>1. /\ txn[j].at = "judge" /\ rows' = rows /\ run' = run /\ holders' = holders
        /\ txn'[j].row = txn[j].row
        /\ \A k \in Jobs \ {j} : txn'[k] = txn[k]
    BY <1>6 DEF Judge, TypeOK, Txn
  <2> QED
    BY <1>1, <2>1 DEF StartInv, Open
<1>7. ASSUME NEW j \in Jobs, Commit(j), Open(j),
             txn[j].row.status \in {"running"} \cup Terminal => run'.started
      PROVE  StartInv'
  BY <1>0, <1>7 DEF Commit, Seen, StartInv, StartNoted, Open, TypeOK, NoTxn
<1>8. ASSUME NEW j \in Jobs, TouchRun(j) PROVE StartInv'
  <2>1. run'.started /\ Open(j) /\ Commit(j)
    BY <1>8 DEF TouchRun, TouchedRun, TypeOK, RunRow, Open
  <2> QED
    BY <1>7, <2>1
<1>9. ASSUME NEW j \in Jobs, SettleRun(j) PROVE StartInv'
  <2>1. Open(j) /\ Commit(j) /\ txn[j].at = "settle"
    BY <1>9 DEF SettleRun, Open
  <2>2. txn[j].row.status \in {"running"} \cup Terminal => run.started
    BY <2>1 DEF StartInv
  <2> QED
    BY <1>0, <1>7, <2>1, <2>2
<1>10. ASSUME NEW j \in Jobs, CommitJob(j) PROVE StartInv'
  <2>1. Open(j) /\ Commit(j) /\ txn[j].at = "commit"
    BY <1>10 DEF CommitJob, Open
  <2>2. txn[j].row.status \in {"running"} \cup Terminal => run.started
    BY <2>1 DEF StartInv
  <2> QED
    BY <1>0, <1>7, <2>1, <2>2
<1>11. ASSUME NEW j \in Jobs, Abort(j) PROVE StartInv'
  BY <1>1, <1>11 DEF Abort, StartInv, Open, TypeOK, NoTxn
<1>12. ASSUME NEW j \in Jobs, Forget(j) PROVE StartInv'
  <2>1. \A k \in Jobs : holders'[k] > 0 => holders[k] > 0
    BY <1>12 DEF Forget, TypeOK
  <2> QED
    BY <2>1, <1>12 DEF Forget, StartInv, StartNoted, Open
<1> QED
  BY <1>2, <1>3, <1>4, <1>5, <1>6, <1>8, <1>9, <1>10, <1>11, <1>12, StepCases

\* The no-op UPDATE of the trigger loses no start: whenever a job of the run
\* has started, started_at is set.
THEOREM StartsNoted == Spec => []StartNoted
<1>1. Init => TypeOK /\ StartInv
  BY TypeInit, StartInit
<1>2. TypeOK /\ StartInv /\ [Next]_vars => TypeOK' /\ StartInv'
  BY TypeStep, StartStep
<1>3. StartInv => StartNoted
  BY DEF StartInv
<1> QED
  BY <1>1, <1>2, <1>3, PTL DEF Spec

-----------------------------------------------------------------------------
(* Who has a job in hand *)

\* As long as no job is taken from a worker that executes it, only the claim
\* hands it out, to one worker, and its row says so until that worker marks it.
HoldInv == ~late => \A j \in Jobs :
  /\ holders[j] \in {0, 1}
  /\ holders[j] = 1 => rows[j].status = "running" /\ ~Open(j)

LEMMA HoldInit == Init => HoldInv
<1> SUFFICES ASSUME Init PROVE HoldInv
  OBVIOUS
<1>1. holders \in [Jobs -> Nat] /\ \A j \in Jobs : holders[j] = 0
  BY DEF Init
<1>2. ASSUME NEW j \in Jobs PROVE holders[j] \in {0, 1} /\ holders[j] # 1
  BY <1>1
<1> QED
  BY <1>2, Zenon DEF HoldInv

\* That a job was taken from a worker is not forgotten.
LEMMA LateStays ==
  ASSUME TypeOK, [Next]_vars, ~late'
  PROVE  ~late
<1>1. CASE late' = late
  BY <1>1
<1>2. ASSUME NEW j \in Jobs, Reclaim(j) PROVE ~late
  BY <1>2 DEF Reclaim
<1> QED
  BY <1>1, <1>2, StepCases
     DEF InsertsEnd, InsertNewJob, Claim, Mark, Forget, CheckRunning, TouchRun,
         LeaveRun, Judge, SettleRun, CommitJob, Commit, Abort, vars

LEMMA HoldStep == TypeOK /\ HoldInv /\ [Next]_vars => HoldInv'
<1> SUFFICES ASSUME TypeOK, HoldInv, [Next]_vars, ~late' PROVE HoldInv'
  BY DEF HoldInv
<1> USE DEF TypeOK, HoldInv
<1>0. ~late
  BY LateStays
\* Who has the job before a transaction on it does not have it any more.
<1>1. ASSUME NEW j \in Jobs, NEW row, Write(j, row), holders' \in [Jobs -> Nat], holders'[j] = 0,
             \A k \in Jobs \ {j} : holders'[k] = holders[k]
      PROVE  HoldInv'
  BY <1>0, <1>1 DEF Write, Open
<1>2. ASSUME NEW j \in Jobs, InsertNewJob(j) PROVE HoldInv'
  BY <1>0, <1>1, <1>2 DEF InsertNewJob, Present
<1>3. ASSUME NEW j \in Jobs, Claim(j) PROVE HoldInv'
  BY <1>0, <1>1, <1>3 DEF Claim, FirstOf, Claimable
<1>4. ASSUME NEW j \in Jobs, Mark(j) PROVE HoldInv'
  BY <1>0, <1>1, <1>4 DEF Mark
<1>5. ASSUME NEW j \in Jobs, Reclaim(j) PROVE HoldInv'
  <2>1. Write(j, ReclaimedRow(rows[j])) /\ holders' = holders
    BY <1>5 DEF Reclaim
  <2>2. ~(holders[j] > 0)
    BY <1>5 DEF Reclaim
  <2> HIDE DEF HoldInv
  <2>3. holders'[j] = 0 /\ holders' \in [Jobs -> Nat]
    BY <2>1, <2>2
  <2> QED
    BY <1>1, <2>1, <2>3
<1>6. ASSUME NEW j \in Jobs, Forget(j) PROVE HoldInv'
  BY <1>0, <1>6 DEF Forget, Open
<1>7. ASSUME rows' = rows, holders' = holders, \A k \in Jobs : Open(k)' => Open(k) PROVE HoldInv'
  BY <1>0, <1>7
<1>8. ASSUME NEW j \in Jobs, \/ CheckRunning(j) \/ LeaveRun(j) \/ Judge(j) \/ Abort(j)
      PROVE  HoldInv'
  <2>1. \A k \in Jobs : Open(k)' => Open(k)
    BY <1>8 DEF CheckRunning, LeaveRun, Judge, Abort, Open, NoTxn
  <2> QED
    BY <1>7, <1>8, <2>1 DEF CheckRunning, LeaveRun, Judge, Abort
<1>9. ASSUME NEW j \in Jobs, Open(j), Commit(j) PROVE HoldInv'
  <2>1. holders[j] = 0
    BY <1>0, <1>9
  <2>2. /\ rows' = [rows EXCEPT ![j] = txn[j].row] /\ txn' = [txn EXCEPT ![j] = NoTxn]
    BY <1>9 DEF Commit, Seen
  <2>3. \A k \in Jobs \ {j} : holders'[k] = holders[k] /\ rows'[k] = rows[k] /\ txn'[k] = txn[k]
    BY <1>9, <2>2 DEF Commit
  <2>4. /\ ~Open(j)' /\ rows'[j] = txn[j].row
        /\ holders'[j] = IF txn[j].row.status = "running" THEN 1 ELSE 0
    BY <1>9, <2>1, <2>2 DEF Commit, Open, NoTxn
  <2> QED
    BY <1>0, <2>3, <2>4 DEF Open
<1>10. ASSUME NEW j \in Jobs, TouchRun(j) \/ SettleRun(j) \/ CommitJob(j) PROVE HoldInv'
  BY <1>9, <1>10 DEF TouchRun, SettleRun, CommitJob, Open
<1>11. CASE InsertsEnd \/ UNCHANGED vars
  BY <1>7, <1>11 DEF InsertsEnd, vars, Open
<1> QED
  BY <1>2, <1>3, <1>4, <1>5, <1>6, <1>8, <1>10, <1>11, StepCases

-----------------------------------------------------------------------------
(* No failure is made up *)

\* With heartbeats in time no transaction is open on a job that has ended, so
\* that what a verdict of failure rests on stays.
FailInv == ~late =>
  /\ FailureIsReal
  /\ \A j \in Jobs : Open(j) => rows[j].status \notin Terminal
  /\ \A j \in Jobs : txn[j].at = "settle" /\ txn[j].verdict = "failed" =>
       \E k \in Jobs : Seen(j)[k].status = "failed"

LEMMA FailInit == Init => FailInv
  BY DEF Init, FailInv, FailureIsReal, Open, NoTxn

LEMMA FailStep == TypeOK /\ HoldInv /\ FailInv /\ [Next]_vars => FailInv'
<1> SUFFICES ASSUME TypeOK, HoldInv, FailInv, [Next]_vars, ~late' PROVE FailInv'
  BY DEF FailInv
<1>0. ~late
  BY LateStays
<1>1. CASE InsertsEnd \/ UNCHANGED vars
  BY <1>0, <1>1 DEF InsertsEnd, vars, FailInv, FailureIsReal, Open, Seen
<1>2. ASSUME NEW j \in Jobs, InsertNewJob(j) \/ Claim(j) \/ Mark(j) \/ Reclaim(j) PROVE FailInv'
  <2>1. PICK row \in Row : /\ Write(j, row)
                           /\ rows[j].status \in {"absent", "pending", "running"} \/ holders[j] > 0
    BY <1>2, Writes
  <2>3. holders[j] > 0 => rows[j].status = "running"
    BY <1>0 DEF HoldInv
  <2>4. rows[j].status \notin Terminal /\ Write(j, row)
    BY <2>1, <2>3 DEF Terminal
  <2>2. /\ rows' = rows /\ run' = run
        /\ txn' = [txn EXCEPT ![j] = [at |-> "check", row |-> row, verdict |-> "none"]]
    BY <2>4 DEF Write
  <2>5. txn'[j].at = "check" /\ \A k \in Jobs \ {j} : txn'[k] = txn[k] /\ Seen(k)' = Seen(k)
    <3>1. txn'[j].at = "check" /\ \A k \in Jobs \ {j} : txn'[k] = txn[k]
      BY <2>2 DEF TypeOK
    <3> QED
      BY <2>2, <3>1 DEF Seen
  <2> QED
    BY <1>0, <2>2, <2>4, <2>5 DEF FailInv, FailureIsReal, Open
<1>3. ASSUME NEW j \in Jobs, NEW t \in Txn,
             rows' = rows, run' = run, txn' = [txn EXCEPT ![j] = t],
             t.at # "none" => Open(j),
             t.at = "settle" /\ t.verdict = "failed" => \E k \in Jobs : Seen(j)[k].status = "failed",
             t.at = "settle" => t.row = txn[j].row
      PROVE  FailInv'
  <2>1. \A i \in Jobs \ {j} : txn'[i] = txn[i] /\ Seen(i)' = Seen(i)
    BY <1>3 DEF Seen
  <2>2. txn'[j] = t /\ (t.at = "settle" => Seen(j)' = Seen(j))
    BY <1>3 DEF Seen, TypeOK
  <2> QED
    BY <1>0, <1>3, <2>1, <2>2 DEF FailInv, FailureIsReal, Open
<1>4. ASSUME NEW j \in Jobs, CheckRunning(j) PROVE FailInv'
  <2>1. PICK p \in {"touch", "judge"} : txn' = [txn EXCEPT ![j].at = p]
    BY <1>4 DEF CheckRunning
  <2> DEFINE t == [txn[j] EXCEPT !.at = p]
  <2>2. t \in Txn /\ t.at \notin {"none", "settle"} /\ txn' = [txn EXCEPT ![j] = t]
    BY <2>1 DEF TypeOK, Txn
  <2> HIDE DEF t
  <2> QED
    BY <1>3, <1>4, <2>2 DEF CheckRunning, Open
<1>5. ASSUME NEW j \in Jobs, LeaveRun(j) PROVE FailInv'
  <2> DEFINE t == [txn[j] EXCEPT !.at = "commit"]
  <2>2. t \in Txn /\ t.at \notin {"none", "settle"} /\ txn' = [txn EXCEPT ![j] = t]
    BY <1>5 DEF LeaveRun, TypeOK, Txn
  <2> HIDE DEF t
  <2> QED
    BY <1>3, <1>5, <2>2 DEF LeaveRun, Open
<1>6. ASSUME NEW j \in Jobs, Judge(j) PROVE FailInv'
  <2> DEFINE t == txn'[j]
  <2>1. t.verdict = "failed" /\ t.at = "settle" => \E k \in Jobs : Seen(j)[k].status = "failed"
    BY <1>6 DEF Judge, Verdict, TypeOK, Txn
  <2>2. t \in Txn /\ t.row = txn[j].row /\ txn' = [txn EXCEPT ![j] = t]
    BY <1>6, TypeStep DEF Judge, TypeOK, Txn
  <2> HIDE DEF t
  <2> QED
    BY <1>3, <1>6, <2>1, <2>2 DEF Judge, Open
<1>7. ASSUME NEW j \in Jobs, Commit(j), Open(j),
             run'.status = "failed" => \E k \in Jobs : rows'[k].status = "failed"
      PROVE  FailInv'
  <2>1. /\ txn' = [txn EXCEPT ![j] = NoTxn] /\ rows' = [rows EXCEPT ![j] = txn[j].row]
    BY <1>7 DEF Commit, Seen
  <2>2. \A k \in Jobs : rows[k].status = "failed" => rows'[k].status = "failed"
    BY <1>0, <1>7, <2>1 DEF FailInv, Terminal, TypeOK
  <2>3. \A i \in Jobs \ {j} : \A k \in Jobs :
          Seen(i)[k].status = "failed" => Seen(i)'[k].status = "failed"
    BY <2>1, <2>2 DEF Seen, TypeOK
  <2>4. \A i \in Jobs \ {j} : txn'[i] = txn[i] /\ rows'[i] = rows[i]
    BY <2>1 DEF TypeOK
  <2>5. txn'[j].at = "none"
    BY <2>1 DEF TypeOK, NoTxn
  <2> QED
    BY <1>0, <1>7, <2>3, <2>4, <2>5 DEF FailInv, FailureIsReal, Open
<1>8. ASSUME NEW j \in Jobs, Commit(j), Open(j)
      PROVE  \A k \in Jobs : rows[k].status = "failed" => rows'[k].status = "failed"
  BY <1>0, <1>8 DEF Commit, Seen, FailInv, Terminal, TypeOK
<1>9. ASSUME NEW j \in Jobs, TouchRun(j) PROVE FailInv'
  <2>1. Commit(j) /\ Open(j) /\ run'.status = "running"
    BY <1>9 DEF TouchRun, TouchedRun, Open, TypeOK, RunRow
  <2> QED
    BY <1>7, <2>1
<1>10. ASSUME NEW j \in Jobs, SettleRun(j) PROVE FailInv'
  <2>1. Commit(j) /\ Open(j) /\ txn[j].at = "settle" /\ run'.status = txn[j].verdict
    BY <1>10 DEF SettleRun, Open, TypeOK, RunRow
  <2>2. rows' = Seen(j)
    BY <2>1 DEF Commit
  <2> QED
    BY <1>0, <1>7, <2>1, <2>2 DEF FailInv
<1>11. ASSUME NEW j \in Jobs, CommitJob(j) PROVE FailInv'
  <2>1. Commit(j) /\ Open(j) /\ run' = run
    BY <1>11 DEF CommitJob, Open
  <2> QED
    BY <1>0, <1>7, <1>8, <2>1 DEF FailInv, FailureIsReal
<1>12. ASSUME NEW j \in Jobs, Abort(j) PROVE FailInv'
  <2>1. NoTxn \in Txn /\ NoTxn.at = "none"
    BY NewRows DEF NoTxn, Txn
  <2> QED
    BY <1>3, <1>12, <2>1 DEF Abort
<1>13. ASSUME NEW j \in Jobs, Forget(j) PROVE FailInv'
  BY <1>0, <1>13 DEF Forget, FailInv, FailureIsReal, Open, Seen
<1> QED
  BY <1>1, <1>2, <1>4, <1>5, <1>6, <1>9, <1>10, <1>11, <1>12, <1>13, StepCases

\* However the transactions of a run interleave, and whether its inserts have
\* settled or not, it is reported 'failed' only if one of its jobs failed, as
\* long as no job was taken from a worker that still executed it.
THEOREM FailuresAreReal == Spec => []FailureIsReal
<1>1. Init => TypeOK /\ HoldInv /\ FailInv
  BY TypeInit, HoldInit, FailInit
<1>2. TypeOK /\ HoldInv /\ FailInv /\ [Next]_vars => TypeOK' /\ HoldInv' /\ FailInv'
  BY TypeStep, HoldStep, FailStep
<1>3. FailInv => FailureIsReal
  BY DEF FailInv, FailureIsReal
<1> QED
  BY <1>1, <1>2, <1>3, PTL DEF Spec

-----------------------------------------------------------------------------
(* The run follows its jobs, if no claim raced its inserts and heartbeats are in time *)

PendingRun == [status |-> "pending", started |-> FALSE, completed |-> FALSE]
RunningRun == [status |-> "running", started |-> TRUE, completed |-> FALSE]
EndedRun == [status |-> Verdict(rows), started |-> TRUE, completed |-> TRUE]

\* A transaction or a claim has got hold of the job.
Begun(j) == Open(j) \/ rows[j].status \notin {"absent", "pending"}

\* No transaction is open on a job that has ended.
LocksInv == \A j \in Jobs : Open(j) => rows[j].status \notin Terminal

\* Until the inserts have settled, the only transactions are inserts.
InsertInv ==
  /\ ~InsertsSettled =>
       /\ run = PendingRun
       /\ \A j \in Jobs : /\ rows[j].status \in {"absent", "pending"}
                          /\ Open(j) => rows[j].status = "absent"
  /\ \A j \in Jobs : Open(j) /\ rows[j].status = "absent" =>
       txn[j].row.status = "pending" /\ txn[j].at \in {"check", "judge", "commit"}

\* Then a job that is begun has only ended jobs before it.
LineInv ==
  InsertsSettled =>
    \A i, j \in Jobs :
      Earlier(i, j) /\ rows[i].status # "absent" /\ Begun(j) => rows[i].status \in Terminal

RunInv ==
  /\ SomeRunning => run = RunningRun
  /\ AllEnded => run = EndedRun
  /\ ~AllEnded => run \in {PendingRun, RunningRun}

\* What the statements of the trigger have established so far.
Established(j) ==
  Open(j) /\ rows[j].status # "absent" =>
    /\ txn[j].row.status # "absent"
    /\ txn[j].row.status \in Terminal => rows[j].status = "running"
    /\ txn[j].at = "touch" => txn[j].row.status = "running"
    /\ txn[j].at \in {"judge", "settle"} => txn[j].row.status # "running"
    /\ txn[j].at = "settle" => AllTerminal(Seen(j)) /\ txn[j].verdict = Verdict(Seen(j))
    /\ txn[j].at = "commit" =>
         /\ ~AllTerminal(Seen(j))
         /\ txn[j].row.status = "running" => run = RunningRun

TxnInv == \A j \in Jobs : Established(j)

Follow == LocksInv /\ InsertInv /\ LineInv /\ RunInv /\ TxnInv

FollowInv == ~raced /\ ~late => Follow

LEMMA FollowInit == Init => FollowInv
  BY NewRows DEF Init, FollowInv, Follow, LocksInv, InsertInv, LineInv, RunInv, TxnInv, Established,
     Open, NoTxn, InsertsSettled, SomeRunning, AllEnded, PendingRun, Terminal

\* Once the inserts have settled, transactions and running jobs are one at a time.
LEMMA OneAtATime ==
  ASSUME TypeOK, Follow, InsertsSettled, NEW i \in Jobs, Open(i), NEW j \in Jobs \ {i},
         rows[j].status # "absent", rows[j].status \notin Terminal
  PROVE  ~Begun(j)
<1>1. rows[i].status # "absent" /\ rows[i].status \notin Terminal /\ Begun(i)
  BY DEF Follow, LocksInv, InsertsSettled, Present, Begun
<1>2. CASE Earlier(i, j)
  BY <1>1, <1>2 DEF Follow, LineInv
<1>3. CASE Earlier(j, i)
  BY <1>1, <1>3 DEF Follow, LineInv
<1> QED
  BY <1>2, <1>3, StepsAssumption

\* A transaction that does not insert is open only when the inserts have settled.
LEMMA OpenSettled ==
  ASSUME Follow, NEW j \in Jobs, Open(j), rows[j].status # "absent"
  PROVE  InsertsSettled /\ ~AllEnded /\ run \in {PendingRun, RunningRun}
  BY DEF Follow, InsertInv, LocksInv, RunInv, AllEnded, AllTerminal, Present

\* The rows and the run stay and no transaction is left, right after the inserts.
LEMMA JustSettled ==
  ASSUME TypeOK, Follow, ~InsertsSettled, run' = run,
         \A k \in Jobs : rows'[k].status \in {"absent", "pending"},
         \A k \in Jobs : Open(k)' => /\ rows'[k].status = "absent"
                                     /\ txn'[k].row.status = "pending"
                                     /\ txn'[k].at \in {"check", "judge", "commit"}
  PROVE  Follow'
<1>1. run' = PendingRun
  BY DEF Follow, InsertInv
<1>2. InsertsSettled' => \A k \in Jobs : ~Open(k)' /\ ~Begun(k)'
  BY DEF InsertsSettled, Present, Begun
<1>3. ~AllEnded' /\ ~SomeRunning'
  BY DEF AllEnded, AllTerminal, SomeRunning, Present, Terminal
<1>4. LocksInv' /\ InsertInv'
  BY <1>1 DEF LocksInv, InsertInv, Terminal, PendingRun
<1>5. LineInv'
  BY <1>2 DEF LineInv
<1>6. RunInv'
  BY <1>1, <1>3 DEF RunInv, PendingRun
<1>7. TxnInv'
  BY DEF TxnInv, Established
<1> QED
  BY <1>4, <1>5, <1>6, <1>7 DEF Follow

\* After that, a transaction is begun on a free job, moves on, or is rolled back.
LEMMA TxnMoves ==
  ASSUME TypeOK, Follow, InsertsSettled, NEW j \in Jobs, NEW t \in Txn,
         UNCHANGED <<rows, run, inserting>>, txn' = [txn EXCEPT ![j] = t],
         rows[j].status # "absent",
         t.at # "none" =>
           /\ rows[j].status \notin Terminal
           /\ \A i \in Jobs : Earlier(i, j) /\ rows[i].status # "absent" => rows[i].status \in Terminal,
         Established(j)'
  PROVE  Follow'
<1>1. txn'[j] = t /\ \A k \in Jobs \ {j} : txn'[k] = txn[k] /\ Seen(k)' = Seen(k)
  BY DEF TypeOK, Seen
<1>2. InsertsSettled' /\ (AllEnded' <=> AllEnded) /\ (SomeRunning' <=> SomeRunning)
  BY <1>1 DEF InsertsSettled, AllEnded, SomeRunning, Open, Present, AllTerminal
<1>3. LocksInv'
  BY <1>1 DEF Follow, LocksInv, Open
<1>4. InsertInv'
  BY <1>1, <1>2 DEF Follow, InsertInv, Open
<1>5. LineInv'
  BY <1>1 DEF Follow, LineInv, Begun, Open
<1>6. RunInv'
  BY <1>2 DEF Follow, RunInv, EndedRun, RunningRun, PendingRun, Verdict
<1>7. TxnInv'
  BY <1>1 DEF Follow, TxnInv, Established, Open, RunningRun, AllTerminal, Present, Verdict
<1> QED
  BY <1>3, <1>4, <1>5, <1>6, <1>7 DEF Follow

\* A transaction commits, alone.
LEMMA CommitsAlone ==
  ASSUME TypeOK, Follow, InsertsSettled, NEW j \in Jobs, Open(j), Commit(j), RunInv'
  PROVE  Follow'
<1>1. \A k \in Jobs \ {j} : rows'[k] = rows[k] /\ ~Open(k)' /\ (Begun(k)' <=> Begun(k))
  <2>1. TAKE k \in Jobs \ {j}
  <2>2. rows'[k] = rows[k] /\ txn'[k] = txn[k]
    BY DEF Commit, Seen, TypeOK
  <2>3. ~Open(k)
    BY OneAtATime DEF Begun, InsertsSettled, Present, Follow, LocksInv
  <2> QED
    BY <2>2, <2>3 DEF Open, Begun
<1>2. ~Open(j)' /\ Begun(j)
  BY DEF Commit, TypeOK, Open, NoTxn, Begun
<1>3. rows[j].status # "absent" /\ rows[j].status \notin Terminal
  BY DEF InsertsSettled, Present, Follow, LocksInv
<1>4. InsertsSettled'
  BY <1>1, <1>2 DEF InsertsSettled, Commit
<1>5. LocksInv' /\ InsertInv' /\ TxnInv'
  BY <1>1, <1>2, <1>4 DEF LocksInv, InsertInv, TxnInv, Established
<1>6. ASSUME NEW i \in Jobs, NEW k \in Jobs, Earlier(i, k), rows'[i].status # "absent", Begun(k)'
      PROVE  rows'[i].status \in Terminal
  <2>1. Begun(k)
    BY <1>1, <1>2, <1>6
  <2>2. i # j
    BY <1>3, <1>6, <2>1 DEF Follow, LineInv
  <2> QED
    BY <1>1, <1>6, <2>1, <2>2 DEF Follow, LineInv
<1>7. LineInv'
  BY <1>6 DEF LineInv
<1> QED
  BY <1>5, <1>7 DEF Follow

LEMMA FollowStep == TypeOK /\ HoldInv /\ FollowInv /\ [Next]_vars => FollowInv'
<1> SUFFICES ASSUME TypeOK, HoldInv, FollowInv, [Next]_vars, ~raced', ~late' PROVE Follow'
  BY DEF FollowInv
<1>0. Follow /\ ~late
  <2>1. raced => raced'
    BY StepCases DEF InsertsEnd, InsertNewJob, Claim, Mark, Reclaim, Forget, CheckRunning, TouchRun,
                     LeaveRun, Judge, SettleRun, CommitJob, Commit, Abort, vars
  <2> QED
    BY <2>1, LateStays DEF FollowInv
<1>1. CASE InsertsEnd
  <2>1. CASE InsertsSettled
    BY <1>1, <2>1 DEF InsertsEnd, InsertsSettled
  <2>2. CASE ~InsertsSettled
    BY <1>0, <1>1, <2>2, JustSettled DEF InsertsEnd, Follow, InsertInv, Open
  <2> QED
    BY <2>1, <2>2
<1>2. ASSUME NEW j \in Jobs, InsertNewJob(j) PROVE Follow'
  <2>1. ~InsertsSettled /\ rows' = rows /\ run' = run
        /\ txn' = [txn EXCEPT ![j] = [at |-> "check", row |-> InsertedRow, verdict |-> "none"]]
    BY <1>2 DEF InsertNewJob, InsertsSettled, Write
  <2>2. rows[j].status = "absent"
    BY <1>2 DEF InsertNewJob, Present
  <2> QED
    BY <1>0, <2>1, <2>2, JustSettled, NewRows DEF Follow, InsertInv, Open, TypeOK
\* The first statement of a transaction on a job that is in the table.
<1>3. ASSUME NEW j \in Jobs, NEW row \in Row, Write(j, row), UNCHANGED inserting, InsertsSettled,
             rows[j].status \notin {"absent"} \cup Terminal,
             row.status # "absent", row.status \in Terminal => rows[j].status = "running",
             \A i \in Jobs : Earlier(i, j) /\ rows[i].status # "absent" => rows[i].status \in Terminal
      PROVE  Follow'
  <2> DEFINE t == [at |-> "check", row |-> row, verdict |-> "none"]
  <2>1. t \in Txn /\ t.at = "check" /\ t.row = row /\ txn' = [txn EXCEPT ![j] = t]
        /\ rows' = rows /\ run' = run
    BY <1>3 DEF Write, Txn
  <2> HIDE DEF t
  <2>2. Established(j)'
    BY <1>3, <2>1 DEF Established, TypeOK
  <2> QED
    BY <1>0, <1>3, <2>1, <2>2, TxnMoves
<1>4. ASSUME NEW j \in Jobs, Claim(j) PROVE Follow'
  <2>1. InsertsSettled
    BY <1>4 DEF Claim
  <2>2. PICK w \in Workers : Write(j, ClaimedRow(rows[j], w))
    BY <1>4 DEF Claim
  <2>3. Claimable(rows, j)
    BY <1>4 DEF Claim, FirstOf
  <2>4. ClaimedRow(rows[j], w) \in Row /\ ClaimedRow(rows[j], w).status = "running"
    BY ClaimedRowIs DEF TypeOK
  <2> QED
    BY <1>3, <1>4, <2>1, <2>2, <2>3, <2>4 DEF Claim, Claimable, Present, Terminal
<1>5. ASSUME NEW j \in Jobs, Mark(j) \/ Reclaim(j) PROVE Follow'
  <2>1. PICK row \in Row : Write(j, row) /\ UNCHANGED inserting
                          /\ rows[j].status = "running" /\ row.status # "absent"
    <3>1. rows[j] \in Row
      BY DEF TypeOK
    <3>2. CASE Mark(j)
      <4>1. rows[j].status = "running"
        BY <1>0, <3>2 DEF Mark, HoldInv
      <4> QED
        BY <3>1, <3>2, <4>1, CompletedRowIs, FailedRowIs DEF Mark
    <3>3. CASE Reclaim(j)
      <4>1. rows[j].status = "running"
        BY <3>1, <3>3, StaleRowIs DEF Reclaim, Reclaimable
      <4> QED
        BY <3>1, <3>3, <4>1, ReclaimedRowIs DEF Reclaim
    <3> QED
      BY <1>5, <3>2, <3>3
  <2>2. InsertsSettled
    BY <1>0, <2>1 DEF Follow, InsertInv
  <2>3. Begun(j)
    BY <2>1 DEF Begun
  <2> QED
    BY <1>0, <1>3, <2>1, <2>2, <2>3 DEF Terminal, Follow, LineInv
\* What is known of an open transaction.
<1>6. ASSUME NEW j \in Jobs, Open(j), rows[j].status # "absent"
      PROVE  /\ InsertsSettled /\ ~AllEnded /\ run \in {PendingRun, RunningRun}
             /\ rows[j].status \notin Terminal
             /\ \A i \in Jobs : Earlier(i, j) /\ rows[i].status # "absent" => rows[i].status \in Terminal
             /\ \A k \in Jobs \ {j} : rows[k].status # "running"
             /\ Established(j)
  <2>1. InsertsSettled /\ ~AllEnded /\ run \in {PendingRun, RunningRun}
    BY <1>0, <1>6, OpenSettled
  <2>2. rows[j].status \notin Terminal /\ Begun(j) /\ Established(j)
    BY <1>0, <1>6 DEF Follow, LocksInv, TxnInv, Begun
  <2>3. \A k \in Jobs \ {j} : rows[k].status # "running"
    BY <1>0, <1>6, <2>1, OneAtATime DEF Begun, Terminal
  <2> QED
    BY <1>0, <2>1, <2>2, <2>3 DEF Follow, LineInv
<1>7. ASSUME NEW j \in Jobs, Open(j), rows[j].status = "absent"
      PROVE  /\ ~InsertsSettled /\ txn[j].row.status = "pending"
             /\ txn[j].at \in {"check", "judge", "commit"}
  BY <1>0, <1>7 DEF Follow, InsertInv, InsertsSettled, Present
\* An insert moves on or is rolled back.
<1>8. ASSUME NEW j \in Jobs, Open(j), rows[j].status = "absent", UNCHANGED <<rows, run>>,
             \A k \in Jobs \ {j} : txn'[k] = txn[k],
             Open(j)' => txn'[j].row = txn[j].row /\ txn'[j].at \in {"check", "judge", "commit"}
      PROVE  Follow'
  BY <1>0, <1>7, <1>8, JustSettled DEF Follow, InsertInv, Open
<1>9. ASSUME NEW j \in Jobs, CheckRunning(j) PROVE Follow'
  <2> DEFINE p == IF \E k \in Jobs : Seen(j)[k].status = "running" THEN "touch" ELSE "judge"
             t == [txn[j] EXCEPT !.at = p]
  <2>1. /\ Open(j) /\ txn' = [txn EXCEPT ![j] = t] /\ UNCHANGED <<rows, run, inserting>>
        /\ t \in Txn /\ t.at = p /\ t.row = txn[j].row
    BY <1>9 DEF CheckRunning, Open, TypeOK, Txn
  <2>2. Seen(j)[j] = txn[j].row /\ \A k \in Jobs \ {j} : Seen(j)[k] = rows[k]
    BY DEF Seen, TypeOK
  <2>3. CASE rows[j].status = "absent"
    <3>1. p = "judge"
      BY <1>0, <1>7, <2>1, <2>2, <2>3 DEF Follow, InsertInv
    <3> QED
      BY <1>8, <2>1, <2>3, <3>1 DEF TypeOK
  <2>4. CASE rows[j].status # "absent"
    <3>1. /\ p \in {"touch", "judge"}
          /\ p = "touch" => txn[j].row.status = "running"
          /\ p = "judge" => txn[j].row.status # "running"
      BY <1>6, <2>1, <2>2, <2>4
    <3> HIDE DEF p, t
    <3>2. Established(j)'
      BY <1>6, <2>1, <2>4, <3>1 DEF Established, TypeOK
    <3> QED
      BY <1>0, <1>6, <2>1, <2>4, <3>2, TxnMoves
  <2> QED
    BY <2>3, <2>4
<1>10. ASSUME NEW j \in Jobs, LeaveRun(j) PROVE Follow'
  <2> DEFINE t == [txn[j] EXCEPT !.at = "commit"]
  <2>1. /\ Open(j) /\ txn[j].at = "touch" /\ txn' = [txn EXCEPT ![j] = t]
        /\ UNCHANGED <<rows, run, inserting>>
        /\ run.status = "running"
        /\ t \in Txn /\ t.at = "commit" /\ t.row = txn[j].row
    BY <1>10 DEF LeaveRun, Open, TypeOK, Txn
  <2> HIDE DEF t
  <2>2. rows[j].status # "absent"
    BY <1>7, <2>1
  <2>3. run = RunningRun /\ txn[j].row.status = "running"
    BY <1>6, <2>1, <2>2 DEF PendingRun, Established
  <2>4. Seen(j)'[j].status = "running"
    BY <2>1, <2>3 DEF Seen, TypeOK
  <2>5. ~AllTerminal(Seen(j))'
    BY <2>4 DEF AllTerminal, Present, Terminal
  <2>6. Established(j)'
    BY <1>6, <2>1, <2>2, <2>3, <2>5 DEF Established, TypeOK, RunningRun
  <2> QED
    BY <1>0, <1>6, <2>1, <2>2, <2>6, TxnMoves
<1>11. ASSUME NEW j \in Jobs, Judge(j) PROVE Follow'
  <2> DEFINE t == IF AllTerminal(Seen(j))
                    THEN [txn[j] EXCEPT !.at = "settle", !.verdict = Verdict(Seen(j))]
                    ELSE [txn[j] EXCEPT !.at = "commit"]
  <2>1. Open(j) /\ txn[j].at = "judge" /\ txn' = [txn EXCEPT ![j] = t] /\ UNCHANGED <<rows, run, inserting>>
    BY <1>11 DEF Judge, Open
  <2>2. /\ t \in Txn /\ t.row = txn[j].row
        /\ \/ t.at = "settle" /\ AllTerminal(Seen(j)) /\ t.verdict = Verdict(Seen(j))
           \/ t.at = "commit" /\ ~AllTerminal(Seen(j))
    BY DEF TypeOK, Txn, Verdict, Terminal
  <2> HIDE DEF t
  <2>3. Seen(j)[j] = txn[j].row
    BY DEF Seen, TypeOK
  <2>4. txn'[j] = t /\ (\A k \in Jobs \ {j} : txn'[k] = txn[k]) /\ Seen(j)' = Seen(j)
    BY <2>1, <2>2 DEF Seen, TypeOK
  <2>5. CASE rows[j].status = "absent"
    <3>1. ~AllTerminal(Seen(j))
      BY <1>7, <2>1, <2>3, <2>5 DEF AllTerminal, Present, Terminal
    <3> QED
      BY <1>8, <2>1, <2>2, <2>4, <2>5, <3>1
  <2>6. CASE rows[j].status # "absent"
    <3>1. Established(j)'
      BY <1>6, <2>1, <2>2, <2>4, <2>6 DEF Established, AllTerminal, Verdict, Present
    <3> QED
      BY <1>0, <1>6, <2>1, <2>2, <2>6, <3>1, TxnMoves
  <2> QED
    BY <2>5, <2>6
<1>12. ASSUME NEW j \in Jobs, Commit(j)
       PROVE  rows' = Seen(j) /\ rows'[j] = txn[j].row /\ \A k \in Jobs \ {j} : rows'[k] = rows[k]
  BY <1>12 DEF Commit, Seen, TypeOK
<1>13. ASSUME NEW j \in Jobs, TouchRun(j) PROVE Follow'
  <2>1. Open(j) /\ txn[j].at = "touch" /\ Commit(j) /\ run' = TouchedRun(run)
    BY <1>13 DEF TouchRun, Open
  <2>2. rows[j].status # "absent"
    BY <1>7, <2>1
  <2>3. txn[j].row.status = "running" /\ run \in {PendingRun, RunningRun}
    BY <1>6, <2>1, <2>2 DEF Established
  <2>4. run' = RunningRun
    <3>1. run.completed = FALSE
      BY <2>3 DEF PendingRun, RunningRun
    <3>2. run' = [status |-> "running", started |-> TRUE, completed |-> run.completed]
      BY <2>1 DEF TouchedRun, TypeOK, RunRow
    <3> QED
      BY <3>1, <3>2 DEF RunningRun
  <2>5. ~AllEnded'
    BY <1>12, <2>1, <2>3 DEF AllEnded, AllTerminal, Present, Terminal
  <2>6. RunInv'
    BY <2>4, <2>5 DEF RunInv, RunningRun
  <2> QED
    BY <1>0, <1>6, <2>1, <2>2, <2>6, CommitsAlone
<1>14. ASSUME NEW j \in Jobs, SettleRun(j) PROVE Follow'
  <2>1. /\ Open(j) /\ txn[j].at = "settle" /\ Commit(j)
        /\ run' = [run EXCEPT !.status = txn[j].verdict, !.completed = TRUE]
    BY <1>14 DEF SettleRun, Open
  <2>2. rows[j].status # "absent"
    BY <1>7, <2>1
  <2>3. /\ AllTerminal(Seen(j)) /\ txn[j].verdict = Verdict(Seen(j))
        /\ txn[j].row.status # "absent"
        /\ txn[j].row.status \in Terminal => rows[j].status = "running"
    BY <1>6, <2>1, <2>2 DEF Established
  <2>4. txn[j].row.status \in Terminal
    BY <1>12, <2>1, <2>3 DEF AllTerminal, Present
  <2>5. run = RunningRun
    BY <1>0, <2>3, <2>4 DEF Follow, RunInv, SomeRunning
  <2>6. run' = EndedRun'
    BY <1>12, <2>1, <2>3, <2>5 DEF EndedRun, RunningRun, Verdict
  <2>7. AllEnded' /\ ~SomeRunning'
    <3>1. InsertsSettled'
      BY <1>6, <1>12, <2>1, <2>2, <2>3 DEF InsertsSettled, Commit, Open, Present, TypeOK, NoTxn
    <3>2. AllTerminal(rows')
      BY <1>12, <2>1, <2>3
    <3>3. Present(rows', j)
      BY <1>12, <2>1, <2>3 DEF Present
    <3> QED
      BY <3>1, <3>2, <3>3 DEF AllEnded, SomeRunning, AllTerminal, Present, Terminal
  <2>8. RunInv'
    BY <2>6, <2>7 DEF RunInv
  <2> QED
    BY <1>0, <1>6, <2>1, <2>2, <2>8, CommitsAlone
<1>15. ASSUME NEW j \in Jobs, CommitJob(j) PROVE Follow'
  <2>1. Open(j) /\ txn[j].at = "commit" /\ Commit(j) /\ run' = run
    BY <1>15 DEF CommitJob, Open
  <2>2. CASE rows[j].status = "absent"
    <3>1. txn[j].row.status = "pending" /\ ~InsertsSettled
      BY <1>7, <2>1, <2>2
    <3>2. ~Open(j)' /\ \A k \in Jobs \ {j} : txn'[k] = txn[k]
      BY <2>1 DEF Commit, TypeOK, NoTxn, Open
    <3> QED
      BY <1>0, <1>12, <2>1, <3>1, <3>2, JustSettled DEF Follow, InsertInv, Open
  <2>3. CASE rows[j].status # "absent"
    <3>1. ~AllTerminal(Seen(j)) /\ (txn[j].row.status = "running" => run = RunningRun)
      BY <1>6, <2>1, <2>3 DEF Established
    <3>2. ~AllEnded'
      BY <1>12, <2>1, <3>1 DEF AllEnded, AllTerminal, Present
    <3>3. SomeRunning' => run = RunningRun
      BY <1>6, <1>12, <2>1, <2>3, <3>1 DEF SomeRunning
    <3>4. RunInv'
      BY <1>6, <2>1, <2>3, <3>2, <3>3 DEF RunInv, PendingRun, RunningRun
    <3> QED
      BY <1>0, <1>6, <2>1, <2>3, <3>4, CommitsAlone
  <2> QED
    BY <2>2, <2>3
<1>16. ASSUME NEW j \in Jobs, Abort(j) PROVE Follow'
  <2>1. /\ Open(j) /\ UNCHANGED <<rows, run, inserting>> /\ txn' = [txn EXCEPT ![j] = NoTxn]
        /\ NoTxn \in Txn /\ NoTxn.at = "none"
    BY <1>16, NewRows DEF Abort, NoTxn, Txn
  <2>2. ~Open(j)' /\ \A k \in Jobs \ {j} : txn'[k] = txn[k]
    BY <2>1 DEF Open, TypeOK
  <2>3. CASE rows[j].status = "absent"
    BY <1>8, <2>1, <2>2, <2>3
  <2>4. CASE rows[j].status # "absent"
    <3>1. Established(j)'
      BY <2>2 DEF Established
    <3> QED
      BY <1>0, <1>6, <2>1, <2>4, <3>1, TxnMoves
  <2> QED
    BY <2>3, <2>4
<1>17. ASSUME UNCHANGED <<rows, run, txn, inserting>> PROVE Follow'
  BY <1>0, <1>17 DEF Follow, LocksInv, InsertInv, LineInv, RunInv, TxnInv, Established, Begun, Open,
     InsertsSettled, SomeRunning, AllEnded, AllTerminal, Present, Seen, EndedRun, RunningRun,
     PendingRun, Verdict
<1>18. ASSUME NEW j \in Jobs, Forget(j) PROVE Follow'
  BY <1>17, <1>18 DEF Forget
<1> QED
  BY <1>1, <1>2, <1>4, <1>5, <1>9, <1>10, <1>11, <1>13, <1>14, <1>15, <1>16, <1>17, <1>18, StepCases
     DEF vars

\* Unless a claim raced the inserts or a worker lost a job it still executed, a run
\* is 'running' as long as a job runs and has the right verdict once all jobs have
\* ended, whoever crashes in between.
THEOREM RunsFollowJobs == Spec => []RunFollowsJobs
<1>1. Init => TypeOK /\ HoldInv /\ FollowInv
  BY TypeInit, HoldInit, FollowInit
<1>2. TypeOK /\ HoldInv /\ FollowInv /\ [Next]_vars => TypeOK' /\ HoldInv' /\ FollowInv'
  BY TypeStep, HoldStep, FollowStep
<1>3. FollowInv => RunFollowsJobs
  BY DEF FollowInv, Follow, RunInv, RunFollowsJobs, RunningRun, EndedRun
<1> QED
  BY <1>1, <1>2, <1>3, PTL DEF Spec

\* Then, too, a verdict is never taken back.
THEOREM VerdictsAreFinal == Spec => VerdictFinal
<1>1. Init => TypeOK /\ HoldInv /\ FollowInv
  BY TypeInit, HoldInit, FollowInit
<1>2. TypeOK /\ HoldInv /\ FollowInv /\ [Next]_vars => TypeOK' /\ HoldInv' /\ FollowInv'
  BY TypeStep, HoldStep, FollowStep
<1>3. TypeOK /\ HoldInv /\ FollowInv /\ [Next]_vars
        => [~raced /\ ~late /\ run.status \in Terminal => run' = run]_vars
  <2> SUFFICES ASSUME TypeOK, FollowInv, [Next]_vars, ~raced, ~late, run.status \in Terminal
               PROVE  run' = run
    OBVIOUS
  <2>1. InsertsSettled /\ AllTerminal(rows)
    BY DEF FollowInv, Follow, RunInv, AllEnded, PendingRun, RunningRun, Terminal
  <2>2. ASSUME NEW j \in Jobs, Open(j) PROVE FALSE
    BY <2>1, <2>2 DEF FollowInv, Follow, LocksInv, InsertsSettled, AllTerminal, Present
  <2> QED
    BY <2>2, StepCases DEF InsertsEnd, InsertNewJob, Claim, Mark, Reclaim, Forget, Write, CheckRunning,
       TouchRun, LeaveRun, Judge, SettleRun, CommitJob, Abort, Open, vars
<1> QED
  BY <1>1, <1>2, <1>3, PTL DEF Spec, VerdictFinal

-----------------------------------------------------------------------------
(* The run implements RunLifecycle *)

\* From where to where a transaction takes its job.
Moves(j) ==
  \/ rows[j].status = "absent" /\ txn[j].row.status = "pending"
  \/ rows[j].status = "pending" /\ txn[j].row.status = "running"
  \/ rows[j].status = "running" /\ txn[j].row.status \in {"pending"} \cup Terminal

MovesInv == ~late => \A j \in Jobs : Open(j) => Moves(j)

LEMMA MovesInit == Init => MovesInv
  BY NewRows DEF Init, MovesInv, Open, NoTxn

LEMMA MovesStep == TypeOK /\ HoldInv /\ MovesInv /\ [Next]_vars => MovesInv'
<1> SUFFICES ASSUME TypeOK, HoldInv, MovesInv, [Next]_vars, ~late', NEW k \in Jobs, Open(k)'
             PROVE  Moves(k)'
  BY DEF MovesInv
<1>0. ~late /\ (Open(k) => Moves(k))
  BY LateStays DEF MovesInv
<1>1. ASSUME UNCHANGED rows, Open(k), txn'[k].row = txn[k].row PROVE Moves(k)'
  BY <1>0, <1>1 DEF Moves
<1>2. ASSUME NEW j \in Jobs, InsertNewJob(j) \/ Claim(j) \/ Mark(j) \/ Reclaim(j) PROVE Moves(k)'
  <2>1. PICK row \in Row :
          /\ Write(j, row)
          /\ \/ rows[j].status = "absent" /\ row.status = "pending"
             \/ rows[j].status = "pending" /\ row.status = "running"
             \/ /\ rows[j].status = "running" \/ holders[j] > 0
                /\ row.status \in {"pending"} \cup Terminal
    BY <1>2, Writes
  <2>2. holders[j] > 0 => rows[j].status = "running"
    BY <1>0 DEF HoldInv
  <2>3. rows' = rows /\ txn'[j].row = row /\ \A i \in Jobs \ {j} : txn'[i] = txn[i]
    BY <2>1 DEF Write, TypeOK
  <2>4. CASE k = j
    BY <2>1, <2>2, <2>3, <2>4 DEF Moves
  <2>5. CASE k # j
    BY <1>1, <2>3, <2>5 DEF Open
  <2> QED
    BY <2>4, <2>5
<1>3. ASSUME NEW j \in Jobs, CheckRunning(j) \/ LeaveRun(j) \/ Judge(j) PROVE Moves(k)'
  <2>0. txn[j] \in Txn /\ txn \in [Jobs -> Txn]
    BY DEF TypeOK
  <2>1. /\ UNCHANGED rows /\ Open(j) /\ txn'[j].row = txn[j].row
        /\ \A i \in Jobs \ {j} : txn'[i] = txn[i]
    <3>1. CASE CheckRunning(j)
      BY <2>0, <3>1 DEF CheckRunning, Txn, Open
    <3>2. CASE LeaveRun(j)
      BY <2>0, <3>2 DEF LeaveRun, Txn, Open
    <3>3. CASE Judge(j)
      BY <2>0, <3>3 DEF Judge, Txn, Open
    <3> QED
      BY <1>3, <3>1, <3>2, <3>3
  <2> QED
    BY <1>1, <2>1 DEF Open
<1>4. ASSUME NEW j \in Jobs, TouchRun(j) \/ SettleRun(j) \/ CommitJob(j) PROVE Moves(k)'
  <2>1. Commit(j)
    BY <1>4 DEF TouchRun, SettleRun, CommitJob
  <2>2. /\ \A i \in Jobs \ {j} : rows'[i] = rows[i] /\ txn'[i] = txn[i]
        /\ ~Open(j)'
    BY <2>1 DEF Commit, Seen, TypeOK, Open, NoTxn
  <2> QED
    BY <1>0, <2>2 DEF Moves, Open
<1>5. ASSUME NEW j \in Jobs, Abort(j) PROVE Moves(k)'
  <2>1. UNCHANGED rows /\ ~Open(j)' /\ \A i \in Jobs \ {j} : txn'[i] = txn[i]
    BY <1>5 DEF Abort, TypeOK, Open, NoTxn
  <2> QED
    BY <1>1, <2>1 DEF Open
<1>6. ASSUME UNCHANGED <<rows, txn>> PROVE Moves(k)'
  BY <1>1, <1>6 DEF Open
<1>7. ASSUME NEW j \in Jobs, Forget(j) PROVE Moves(k)'
  BY <1>6, <1>7 DEF Forget
<1> QED
  BY <1>2, <1>3, <1>4, <1>5, <1>6, <1>7, StepCases DEF InsertsEnd, vars

\* Nor is it forgotten that a claim raced the inserts.
LEMMA RacedStays ==
  ASSUME TypeOK, [Next]_vars, ~raced'
  PROVE  ~raced
<1>1. CASE raced' = raced
  BY <1>1
<1>2. ASSUME NEW j \in Jobs, Claim(j) PROVE ~raced
  BY <1>2 DEF Claim
<1>3. ASSUME NEW j \in Jobs,
             \/ InsertNewJob(j) \/ Mark(j) \/ Reclaim(j) \/ Forget(j) \/ CheckRunning(j)
             \/ TouchRun(j) \/ LeaveRun(j) \/ Judge(j) \/ SettleRun(j) \/ CommitJob(j) \/ Abort(j)
      PROVE  raced' = raced
  BY <1>3, Zenon DEF InsertNewJob, Mark, Reclaim, Forget, CheckRunning, TouchRun,
                     LeaveRun, Judge, SettleRun, CommitJob, Commit, Abort
<1>4. CASE InsertsEnd \/ UNCHANGED vars
  BY <1>1, <1>4 DEF InsertsEnd, vars
<1> QED
  BY <1>1, <1>2, <1>3, <1>4, StepCases

\* Only commits are seen by a reader.
LEMMA Unseen ==
  ASSUME [Next]_vars, ~\E j \in Jobs : TouchRun(j) \/ SettleRun(j) \/ CommitJob(j)
  PROVE  UNCHANGED <<rows, run>>
<1>1. ASSUME NEW j \in Jobs, InsertNewJob(j) \/ Claim(j) \/ Mark(j) \/ Reclaim(j)
      PROVE  UNCHANGED <<rows, run>>
  BY <1>1 DEF InsertNewJob, Claim, Mark, Reclaim, Write
<1>2. ASSUME NEW j \in Jobs, Forget(j) \/ CheckRunning(j) \/ LeaveRun(j) \/ Judge(j) \/ Abort(j)
      PROVE  UNCHANGED <<rows, run>>
  BY <1>2 DEF Forget, CheckRunning, LeaveRun, Judge, Abort
<1>3. CASE InsertsEnd \/ UNCHANGED vars
  BY <1>3 DEF InsertsEnd, vars
<1> QED
  BY <1>1, <1>2, <1>3, StepCases

\* Nor do commits disturb the run.
LEMMA CommitsCalm ==
  ASSUME NEW j \in Jobs, TouchRun(j) \/ SettleRun(j) \/ CommitJob(j)
  PROVE  Commit(j) /\ UNCHANGED <<raced, late>>
  BY DEF TouchRun, SettleRun, CommitJob, Commit

\* A transaction that follows its jobs commits what RunLifecycle does in one step.
LEMMA CommitIsSerial ==
  ASSUME TypeOK, Follow, NEW j \in Jobs, Moves(j), Follow',
         TouchRun(j) \/ SettleRun(j) \/ CommitJob(j)
  PROVE  Lifecycle!Serial(j)
<1> DEFINE s == txn[j].row.status
<1>1. Open(j) /\ Commit(j)
  <2>1. Commit(j)
    BY CommitsCalm
  <2>2. txn[j].at \in {"touch", "settle", "commit"}
    BY DEF TouchRun, SettleRun, CommitJob
  <2> QED
    BY <2>1, <2>2 DEF Open
<1>2. rows' = [rows EXCEPT ![j] = txn[j].row]
  BY <1>1 DEF Commit, Seen
<1>3. rows'[j].status = s /\ \A k \in Jobs \ {j} : rows'[k] = rows[k]
  BY <1>2 DEF TypeOK
<1>4. SeenState' = [SeenState EXCEPT ![j] = s] /\ SeenState[j] = rows[j].status
  BY <1>3 DEF SeenState
<1>5. CASE rows[j].status = "absent" /\ s = "pending"
  <2>1. ~InsertsSettled /\ txn[j].at \in {"check", "judge", "commit"}
    BY <1>1, <1>5 DEF Follow, InsertInv, InsertsSettled, Present
  <2>2. run' = run
    BY <2>1 DEF TouchRun, SettleRun, CommitJob
  <2>3. \A k \in Jobs : SeenState[k] \in {"absent", "pending"}
    BY <2>1 DEF Follow, InsertInv, SeenState
  <2>4. Lifecycle!Insert(j)
    BY <1>4, <1>5, <2>2, <2>3 DEF Lifecycle!Insert
  <2> QED
    BY <2>4 DEF Lifecycle!Serial
\* Otherwise the inserts have settled, and the run is as it should be after the commit.
<1>6. ASSUME rows[j].status # "absent"
      PROVE  /\ InsertsSettled /\ Established(j)
             /\ \A i \in Jobs : Earlier(i, j) /\ rows[i].status # "absent" => rows[i].status \in Terminal
             /\ InsertsSettled'
  <2>1. InsertsSettled /\ Established(j)
    BY <1>1, <1>6, OpenSettled DEF Follow, TxnInv
  <2>2. InsertsSettled'
    BY <1>1, <1>2, <1>3, <1>6, <2>1 DEF InsertsSettled, Commit, Open, Present, TypeOK, NoTxn, Moves, Terminal
  <2>3. Begun(j)
    BY <1>1 DEF Begun
  <2> QED
    BY <2>1, <2>2, <2>3 DEF Follow, LineInv
<1>7. CASE rows[j].status = "pending" /\ s = "running"
  <2>1. \A i \in Jobs : <<i, j>> \in StepPairs => SeenState[i] \in Lifecycle!Ended \cup {"absent"}
    BY <1>6, <1>7 DEF StepPairs, SeenState, Lifecycle!Ended, Terminal
  <2>2. SomeRunning'
    BY <1>3, <1>7 DEF SomeRunning
  <2>3. run' = RunningRun
    BY <2>2 DEF Follow, RunInv
  <2>4. Lifecycle!Start(j)
    BY <1>4, <1>7, <2>1, <2>3 DEF Lifecycle!Start, RunningRun
  <2> QED
    BY <2>4 DEF Lifecycle!Serial
<1>8. CASE rows[j].status = "running" /\ s = "pending"
  <2>1. txn[j].at # "touch"
    BY <1>1, <1>6, <1>8 DEF Established
  <2>2. txn[j].at # "settle"
    BY <1>1, <1>6, <1>8, <1>3, <1>2 DEF Established, AllTerminal, Present, Seen, Terminal
  <2>3. run' = run
    BY <2>1, <2>2 DEF TouchRun, SettleRun, CommitJob
  <2>4. Lifecycle!Retry(j)
    BY <1>4, <1>8, <2>3 DEF Lifecycle!Retry
  <2> QED
    BY <2>4 DEF Lifecycle!Serial
<1>9. CASE rows[j].status = "running" /\ s \in Terminal
  <2>1. (\A k \in Jobs : SeenState'[k] \in Lifecycle!Ended \cup {"absent"}) <=> AllTerminal(rows')
    BY DEF SeenState, AllTerminal, Present, Lifecycle!Ended, Terminal
  <2>2. CASE AllTerminal(rows')
    <3>1. AllEnded'
      BY <1>3, <1>6, <1>9, <2>2 DEF AllEnded, Present, Terminal
    <3>2. run' = [status |-> Verdict(rows'), started |-> TRUE, completed |-> TRUE]
      BY <3>1 DEF Follow, RunInv, EndedRun, Verdict
    <3>3. Verdict(rows') = Lifecycle!Outcome(SeenState')
      BY DEF Verdict, Lifecycle!Outcome, SeenState
    <3> QED
      BY <1>4, <1>9, <2>1, <2>2, <3>2, <3>3 DEF Lifecycle!End, Lifecycle!Serial, Lifecycle!Ended, Terminal
  <2>3. CASE ~AllTerminal(rows')
    <3>1. txn[j].at # "touch"
      BY <1>1, <1>6, <1>9 DEF Established, Terminal
    <3>2. txn[j].at # "settle"
      BY <1>1, <1>2, <1>6, <1>9, <2>3 DEF Established, Seen
    <3>3. run' = run
      BY <3>1, <3>2 DEF TouchRun, SettleRun, CommitJob
    <3> QED
      BY <1>4, <1>9, <2>1, <2>3, <3>3 DEF Lifecycle!End, Lifecycle!Serial, Lifecycle!Ended, Terminal
  <2> QED
    BY <2>2, <2>3
<1> QED
  BY <1>5, <1>7, <1>8, <1>9 DEF Moves

LEMMA SerialInit == Init => Lifecycle!Init
<1> SUFFICES ASSUME Init PROVE Lifecycle!Init
  OBVIOUS
<1>1. SeenState = [j \in Jobs |-> "absent"]
  BY NewRows DEF Init, SeenState
<1>2. (raced \/ late) = FALSE
  BY DEF Init
<1>3. run = [status |-> "pending", started |-> FALSE, completed |-> FALSE]
  BY DEF Init
<1> QED
  BY <1>1, <1>2, <1>3 DEF Lifecycle!Init

LEMMA SerialStep ==
  ASSUME TypeOK, HoldInv, MovesInv, FollowInv, TypeOK', FollowInv', [Next]_vars
  PROVE  Lifecycle!Next \/ UNCHANGED Lifecycle!vars
<1>1. CASE (raced \/ late) /\ (raced' \/ late')
  BY <1>1 DEF Lifecycle!Next
<1>2. CASE ~(raced \/ late) /\ (raced' \/ late')
  <2>1. UNCHANGED <<rows, run>>
    BY <1>2, Unseen, CommitsCalm
  <2>2. UNCHANGED SeenState
    BY <2>1 DEF SeenState
  <2>3. (raced' \/ late') = TRUE
    BY <1>2
  <2>4. Lifecycle!Disturb
    BY <2>1, <2>2, <2>3 DEF Lifecycle!Disturb
  <2> QED
    BY <2>4 DEF Lifecycle!Next
<1>3. CASE ~(raced' \/ late')
  <2>1. ~raced /\ ~late /\ Follow /\ Follow'
    BY <1>3, RacedStays, LateStays DEF FollowInv
  <2>2. (raced' \/ late') = (raced \/ late)
    BY <1>3, <2>1
  <2>3. ASSUME NEW j \in Jobs, TouchRun(j) \/ SettleRun(j) \/ CommitJob(j)
        PROVE  Lifecycle!Next
    <3>1. Moves(j)
      BY <2>1, <2>3 DEF MovesInv, TouchRun, SettleRun, CommitJob, Open
    <3>2. Lifecycle!Serial(j)
      BY <2>1, <2>3, <3>1, CommitIsSerial
    <3> QED
      BY <2>2, <3>2 DEF Lifecycle!Next
  <2>4. ASSUME ~\E j \in Jobs : TouchRun(j) \/ SettleRun(j) \/ CommitJob(j)
        PROVE  UNCHANGED Lifecycle!vars
    <3>1. UNCHANGED <<rows, run>>
      BY <2>4, Unseen
    <3>2. UNCHANGED SeenState
      BY <3>1 DEF SeenState
    <3> QED
      BY <2>2, <3>1, <3>2 DEF Lifecycle!vars
  <2> QED
    BY <2>3, <2>4
<1> QED
  BY <1>1, <1>2, <1>3

\* The interleaved transactions of any number of jobs implement a run whose jobs
\* start and end one after the other and which shows it at once, until a claim
\* races the inserts or a worker loses a job it still executes.
THEOREM RunImplementsLifecycle == Spec => ImplementsRunLifecycle
<1> SUFFICES Spec => Lifecycle!Spec
  BY DEF ImplementsRunLifecycle
<1>1. Init => TypeOK /\ HoldInv /\ FollowInv /\ MovesInv
  BY TypeInit, HoldInit, FollowInit, MovesInit
<1>2. TypeOK /\ HoldInv /\ FollowInv /\ MovesInv /\ [Next]_vars
        => TypeOK' /\ HoldInv' /\ FollowInv' /\ MovesInv'
  BY TypeStep, HoldStep, FollowStep, MovesStep
<1>3. Init => Lifecycle!Init
  BY SerialInit
<1>4. /\ TypeOK /\ HoldInv /\ FollowInv /\ MovesInv /\ TypeOK' /\ FollowInv' /\ [Next]_vars
      => [Lifecycle!Next]_(Lifecycle!vars)
  BY SerialStep
<1> QED
  BY <1>1, <1>2, <1>3, <1>4, PTL DEF Spec, Lifecycle!Spec
=============================================================================
