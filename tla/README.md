# A TLA+ model of the Postgres pipeline orchestrator

These modules describe the orchestrator (`src/`, "Mini-Jenkin"): an API that turns a
pipeline into a run of jobs, workers that claim and execute the jobs, and PostgreSQL,
which is queue, lock manager, outbox and event bus at the same time. TLC checks small
instances of every module; TLAPS proves the main results for all of them.

Paths below are relative to the repository (`src/queue/...` is `src/src/queue/...` here).

## 1. The system

| Component | State | Operations | Talks to |
|---|---|---|---|
| Job queue (`queue/job-queue.service.ts`, `entities/job.entity.ts`) | table `jobs` | insertNewJob, claimNextJob, updateHeartbeat, markCompleted, markFailed, reclaimStuckJobs: one autocommitted statement each | runs API, worker loop, heartbeat service; every change of a status fires the run status trigger |
| Worker loop, claimer, executor (`worker/*.ts`) | the job of the current iteration, its exit code | runLoop (poll, execute, mark, drain the outbox), execute (deploy lock, heartbeat timer, command, logs) | job queue, deployment locks, outbox, log stream |
| Heartbeat and reclaim (`worker/heartbeat.service.ts`) | two timers | tick every 10 s of an execution; reclaimStuckJobs every 15 s, in every process | job queue |
| Runs API (`api/runs/runs.service.ts`) | table `pipeline_runs` | triggerRun: create the run, then all inserts of its jobs in parallel | pipelines API, job queue |
| Run status trigger (`database/database-seed.service.ts`) | `pipeline_runs.status`, `started_at`, `completed_at` | after each INSERT of a job or UPDATE of its status: recompute the run | runs inside the transactions of the job queue |
| Webhook outbox (`queue/webhook-queue.service.ts`) | table `webhooks_outbox` | enqueueNotification, claimNextWebhook, markWebhookProcessed, markWebhookFailed, processOneWebhook | called by an idle worker loop; no code calls enqueueNotification yet |
| Deployment locks (`locks/deployment-lock.service.ts`) | session-level advisory locks, a pool with its connection, table `deployment_locks` | tryAcquire, release | called by the executor |
| Log streaming (`streaming/*.ts`) | table `job_logs`, the LISTEN connection, a subject, SSE clients | appendLog, NOTIFY trigger, startListening / restart | executor, browsers |
| Pipelines API, git webhook (`api/pipelines`, `api/webhooks`) | table `pipelines` | create, update (read, merge, save), remove (cascades; a row of `deployment_locks` refuses it), createPipelineRun, handlePush | runs API |
| Startup (`database/database-seed.service.ts`) | seed rows, statistics view, run status trigger | onModuleInit: count, insert the seeds one by one, DDL | ends before the API serves its first request |
| Dashboard (`api/dashboard`) | none of its own | read-only queries, refresh of a view | - |

What is hard about it:

* Several worker processes claim from one table; a claim is a sub-select with
  `FOR UPDATE SKIP LOCKED` and an UPDATE, and the marks that end a job look at nothing but
  its id.
* Crashes, lost replies and failed statements: `runLoop` catches everything, forgets the job
  and polls again; heartbeats and the reclaim are to bring it back.
* Heartbeats may be late, so that a job is taken from a worker that still executes it.
* The jobs of a run are inserted in parallel with the polling of the workers.
* The status of a run is computed by a trigger in transactions that do not see each other.
* An advisory lock belongs to a connection and outlives the code that took it when a query
  fails; it dies with the connection while the command it protects goes on.
* The outbox has neither lease nor reclaim.
* A PATCH reads a row, merges its body and saves, which reads the row again; a run is created
  and its jobs are inserted from a config that was read before, while the pipeline may be
  changed or removed. None of this is in a transaction, and neither is the seed.
* The log listener restarts itself through a connection pool whose rules it does not follow:
  it gives back the current connection instead of the one that was lost, twice per loss.

What makes each component correct is stated by the properties in section 4.

## 2. Modules

    JobTable          rows of `jobs`, the SQL statements as operators on rows
      JobQueue        API + workers + reclaim over the table       JobLifecycle (abstract)
        JobQueue_proofs                                 <---- ImplementsLifecycle ----'
      DeployLock      executor, deployment locks, connection pool
        DeployLock_proofs
      RunStatus       the run status trigger, statement by statement  RunLifecycle (abstract)
        RunStatus_proofs                                <---- ImplementsRunLifecycle -'
    WebhookOutbox     the outbox and the workers that drain it
      WebhookOutbox_proofs
    LogStream         the LISTEN connection, its restarts, the NOTIFY trigger, SSE streams
      LogStream_proofs
        Selection     lemmas: the elements of a sequence that are in a set
    Pipelines         start of the API, pipelines API, runs API, git webhook, foreign keys
      Pipelines_proofs
    JobTable_proofs   facts about rows, used by the proofs of JobQueue, DeployLock, RunStatus
    MCJobQueue, MCDeployLock, MCRunStatus, MCWebhookOutbox, MCLogStream, MCPipelines:
                      small instances

**JobTable.** A row keeps `status`, `claimed_by`, `heartbeat_at` (NULL, at most
`timeoutSeconds` old, or older) and `retry_count`; `"absent"` stands for a row that is not
in the table. `Claimable` and `FirstOf` are the WHERE and the ORDER BY of the claim;
`ClaimedRow`, `BeatenRow`, `CompletedRow`, `FailedRow` and `ReclaimedRow` are the SET lists.
Columns no statement reads back are left out; ties of the ORDER BY (`created_at`) may be
broken either way.

**JobQueue.** `enqueue` follows `triggerRun` of each run: the inserts commit in any order
and may stop half-way. `phase` and `task` say where each worker is in one iteration of
`runLoop`. `ClaimLock` reads the snapshot and locks the row, `ClaimCommit` commits the
UPDATE; in between `ClaimAbort`, or the commit whose reply is lost (`ClaimReplyLost`).
`Execute` ends the command with either exit code. `Tick` is the heartbeat timer, which does not
wait for its UPDATE: that one is in `beats` until `BeatLands`, maybe after the mark.
`MarkCompleted` / `MarkFailed` / `MarkLost` the end of the iteration, `Crash` and `Restart`
the process. `HeartbeatExpires` lets a heartbeat become old; with `Timely = TRUE` only that
of a job nobody has in hand. `ReclaimStuckJobs` is the one UPDATE of the reclaim loop.
`attempts` and `late` are history variables that no guard reads.

`RowResult` says what the driver answers to `UPDATE ... RETURNING`: with `TRUE` the array of
rows that the code expects, with `FALSE` the pair `[rows, count]` that typeorm 0.3 gives.
All runs but `jq_driver` use `TRUE`; otherwise no job is ever executed and there would be
nothing to check. WebhookOutbox has the same constant and the same trouble; its runs use `TRUE`,
its theorems hold for both.

**JobLifecycle.** What a client may rely on while heartbeats are in time: a job is started by
one worker at a time, abandoned by it, succeeds or fails with it, and only an abandoned job
is requeued. `JobQueue!ImplementsLifecycle` maps the rows and phases to it.

**WebhookOutbox.** `at` and `item` follow `runLoop` and `processOneWebhook`. A poll finds a job
(`JobClaimed`; the outbox waits for `JobDone`) or none (`NoJob`), which is left open. A claim is
two steps, as in JobQueue: `ClaimLock` is the sub-select, which passes over rows other claims
have locked (`Candidates`), and `ClaimCommit`, `ClaimReplyLost` or `ClaimAbort` is the end of the
UPDATE. A mark waits for the row lock of a claim. `FindNothing` goes back to the poll, or, with
the pair of typeorm 0.3, on to a request without URL: then the loop that drains never ends.
`next_retry_at` is reduced to whether it has passed. A mark may throw before or after it has
committed; the error of `markWebhookProcessed` lands in the `catch` that is meant for `fetch`,
which is why one item may be marked twice. `posts` and `accepts` are history variables.

**DeployLock.** All jobs are deploys. A worker executes one job at a time, so its pool has at
most one connection, with a state (`session`) and its advisory locks with their counts
(`held`). `client.release()` is `GiveBack`: the connection stays open with whatever locks it
has. The claim is one step (`JobQueue` has its parts). `Reclaim` takes any running job that
has retries left, so that heartbeats may be late: two workers may then be in `execute` with
the same job and meet at its lock, and either may mark it. `SessionDies` ends the session of a
worker that waits for its command; since nobody listens for `error`, on the client or on the
pool, the process ends when it notices (`Crash`), and until then the command may end but no query
of the client does. A session that dies idle or in a query ends the process at once, so that
`Crash` stands for it. `guarded` and `deployed` are history variables: the workers whose command
was started with the lock held, and the jobs whose command, so started, has ended with 0.

**RunStatus.** One run. A transaction (`txn[j]`) writes the row of job `j`, then runs the
trigger query by query: each query sees what is committed by then and its own row. The last
UPDATE of the run and the commit are one step, because the row lock of the run keeps others
out in between; an UPDATE that matches nothing locks nothing and is a step of its own.
`holders[j]` is how many workers have job `j` in hand: a claim that commits adds one, `Mark`
and `Forget` (a death, a lost reply, a failed mark) take one away. Heartbeats may be late:
`Reclaim` takes any running job, and a worker marks its job whatever became of the row.
`raced` remembers whether a job was claimed before the inserts of the run had settled, `late`
whether a job was taken from a worker that still executed it.
A reclaim of several jobs of one run is taken as one transaction for each.

**RunLifecycle.** What a reader of `pipeline_runs` may rely on: jobs are inserted, then run one
after the other in the order of their steps, and in the same step in which a job starts or the
last one ends the run shows it. `RunStatus!ImplementsRunLifecycle` maps the committed rows and
the run to it; `raced \/ late` is its `disturbed`, after which it allows anything.

**LogStream.** `conn[c]` is a place of the listener's pool: free, being opened, taken, idle,
or lost; with the handlers that were added to the connection, the LISTENs it waits for, and
the notifications on their way. `Restarts(n, ...)` is `n` calls of `restart` in one emission of
an event: the first gives back `listenClient`, each sets a timer. The rules of `pg` and
`pg-pool` are modelled from their behaviour: a lost connection emits `error` and then `end`; one
that is given back is dropped, one that is not keeps its place (`"broken"`, then `"dead"`) and
may emit `error` a second time; a connection given back in health goes to a waiting
`pool.connect()` first; handlers and LISTEN stay with it; the loss of an idle one, like a
rejection of `startListening` inside a timer, ends the Node process. No shutdown hooks are
enabled, so that `onModuleDestroy` never runs and `Stop` is abrupt. `AppendLog` commits a line,
in any order (the executor does not await its appends), unless the NOTIFY payload is too long,
and notifies every connection that LISTENs. `calm` marks the streams that were opened on one
listener and have met no loss since. Of several idle connections any may be taken (the pool
takes the last); its idle timeout is left out because `IdleRetaken` shows it never passes.

**Pipelines.** The API process. `api` follows `onModuleInit` (seed, view, trigger) up to the
state in which it serves; `Crash` ends it at any point. `req[q]` is a request in progress:
`Update`, `UpdateReads`, `SaveLoads`, `Save` are the awaits of a PATCH (`Repository.save`
selects the row again, then inserts it or updates the columns that differ from what it
selected); `HandlePush` / `Trigger`, `TriggerRun`, `CreatePipelineRun`, `FindRun`, `InsertNewJob` those of
a trigger, with the inserts of the jobs in any order. POST and DELETE are one statement;
`Remove` cascades to runs and jobs and is refused while a row of `deployment_locks` names one
of the runs; inserts that refer to a row that is gone fail. Nothing checks a config: with a
`Malformed` one `triggerRun` throws after it has issued some of the inserts, for which then nobody
waits (`Unawaited`). `LockRowChanges` stands for the deploys of the workers. `QueryFails` fails the query
under way, `CreateReplyLost` loses the answer to one that has committed. Uuids are not used twice,
for which `origin` and `plan` (history variables, as `broken` and `crossed`) are also the
memory. The states of runs and jobs are left to RunStatus and JobQueue.

## 3. Fairness

Only `FairSpec` of JobQueue, WebhookOutbox, DeployLock and LogStream assume any.

* JobQueue: a worker that is up polls (`ClaimLock`, weak); a claim that is retried for ever
  eventually commits (`ClaimCommit \/ ClaimReplyLost`, strong: aborts may intervene);
  commands end (`Execute`); an iteration ends, by a mark or its loss; the heartbeat of a job
  without worker gets old; the reclaim timer, which runs in every process, fires. No worker
  has to come back from a crash and no mark has to succeed.
* WebhookOutbox: back-offs pass, requests end (there is no timeout in the code, so this is an
  assumption about the endpoint), a worker that is draining goes on, and a claim that is sent
  again and again eventually commits or loses its reply (strong: aborts may intervene). Polls,
  jobs and restarts have no fairness, and marks may throw for ever. That some worker stays up and
  comes to drain again and again is the premise of `OutboxDrains`: a queue that is never found
  empty starves the outbox, and the code allows it.
* DeployLock: a worker that is up gets on with its job, the idle timeout of the pool fires, and
  so does the reclaim for a job that no worker has in hand. That a heartbeat is late, or that a
  process ends, is possible and never assumed.
* LogStream: timers fire; a connection being opened and a LISTEN are answered or fail; `end`
  follows `error`. Streams, lines and losses are not assumed.

## 4. Runs

Passing runs:

| Run | Instance | Shows |
|---|---|---|
| `jq_timely` | 2 workers; run a of one step, run b of two stages, the second more urgent; 2 tries; heartbeats in time, of one job under way after its mark | `ExclusiveExecution`, `RetryAccounting`, `StepOrderKept`, `TerminalFinal`, and the refinement `ImplementsLifecycle` |
| `jq_zombies` | the same workers, one run of two steps, heartbeats may be late, fair | `TypeOK`, `BoundedAttempts`, `NoStall` (steps never wait for each other), `QueueDrains`: every job ends, or is stuck with no retry left, or is behind one that is |
| `wo` | 2 workers, 2 notifications, 3 tries, fair | `TypeOK`, `OneSender`, `BoundedPosts`, `GivenUpIsSpent`, `ProcessedWasAccepted`, `OutboxDrains` |
| `dl` | 2 workers, 2 deploys to one environment, 2 tries, fair; sessions die, heartbeats may be late | `TypeOK`, `OneDeploy`, `HolderShown`, `SuccessWasDeployed`, `LeaksInReach` (no lock outlives its session or the hand of the pool), `LocksFreed` |
| `ls` | a pool of 2 places, 3 losses, 4 lines (one cut, one too long, one of another job), a stream of one job, fair | `TypeOK`, `StreamFaithful`, `PlaceLeft`, `NeverDeaf`, `IdleRetaken`, `ListenerReturns` |
| `pl` | 2 uuids, 2 runs, 2 requests at a time, 2 seeds, 2 bodies with a malformed config, any number of crashes | `TypeOK`, `RunsWhole`, `SeedsDistinct`, `UpdateKeepsOthers` |
| `rs` | 3 jobs in 2 stages, 2 tries; claims may race the inserts, heartbeats may be late, workers may die | `TypeOK`, `RunFollowsJobs`, `VerdictFinal`, `StartNoted`, `FailureIsReal`, and the refinement `ImplementsRunLifecycle` |

Runs that end in a violation, each of something a comment or document says
(`PROJECT.json`, "findings", quotes the lines):

| Run | Property | What happens |
|---|---|---|
| `jq_driver` | `ClaimsAreJobs` | `result[0]` of an UPDATE is not a row with typeorm 0.3: jobs without id are executed and marked (the outbox posts and marks such items, and its loop never ends) |
| `jq_orphan` | `OrphansRecovered` | a worker dies during the last attempt: the job stays 'running' |
| `wo_lost` | `NoneAbandoned` | a notification in 'processing' whose worker is gone is never sent |
| `ls_twice` | `ForwardedOnce` | after one loss two connections LISTEN and each line is forwarded twice |
| `rs_verdict` | `SuccessIsReal` | a stale 'success' is written over a failure |

Other behaviour the models have that the documents do not expect; the properties are worded
around it:

* A later step can be claimed before the insert of an earlier one has committed
  (`StepOrderKept` excepts steps inserted late), and `failed` counts as terminal, so a step
  starts after an earlier one has failed.
* When heartbeats are late, two workers execute one job: nobody tells the first. `README.md`
  of the repository says that "workers grab jobs without conflicts or duplication" (line 20);
  this holds while heartbeats are in time (`ExclusiveExecution`), for deploys also when they are
  late (`OneDeploy`), and `BoundedAttempts` bounds what is repeated.
* The claim orders by stage and step before priority, across runs.
* A session that dies under a deploy frees the lock while the command goes on, until the process
  notices and ends: `OneDeploy` speaks of sessions that are alive, `SuccessWasDeployed` of a lock
  held when the command was started.
* The outbox waits until a worker finds no job at all: a job queue that is never found empty
  starves it. `OutboxDrains` has that as its premise.
* A heartbeat that commits after the mark of its job writes to a row that has ended
  (`TerminalFinal` allows its `heartbeat_at` to change, nothing else).
* When the INSERT of `tryAcquire` or the DELETE of `release()` fails, the connection goes back
  to the pool with its advisory lock; only the idle timeout frees it (`LocksFreed`).
* Lines of one command commit in any order; a line whose NOTIFY payload reaches 8000 bytes is
  lost, because its INSERT fails and the error is swallowed; lines committed while no
  connection listens are never forwarded.
* A busy lock (exit code 75) uses up a retry like any failure, at once.
* A PATCH that comes between the two SELECTs of another one is undone by it in the columns in
  which they differ, and a row removed there is inserted again, under its old id.
  `UpdateKeepsOthers` excepts such requests; after the second SELECT a PATCH cannot do harm.
* A removal is refused while a lock row names one of the pipeline's runs, also one that the
  crash of a worker has left behind, and the controller answers 404, as to an unknown id.
* A push that is delivered twice triggers two runs. `pipeline.entity.ts:12` says "one CI/CD
  pipeline per repo", but the column is not unique; a push then triggers a run of any of them.
* A crash between the seeds leaves a part of them for ever, since the table is no longer empty;
  a table whose pipelines were all removed is seeded again at the next start.
* A run whose creation or inserts fail half-way, or whose config is malformed, stays as it is
  (`broken` in `RunsWhole`).
* If claims race the inserts, two jobs of a run may run at a time. When they end together
  neither trigger sees the other's end and the run stays `running`; a verdict reached
  before the wait for the run's row lock may be written over a job that has started since.
  `RunFollowsJobs` and `VerdictFinal` therefore speak of runs that were not raced.
* When heartbeats are late, a mark may write over a job that has ended: a success turns into a
  failure or comes back to 'pending', a run that has ended runs again, and a run may be
  'failed' although no job of it is failed any more. These two properties and `FailureIsReal`
  therefore speak of runs without such a reclaim; `StartNoted` holds of all.

Bounds. Two workers are enough for every race in the code, which always has one actor that
holds a job, an item or a lock and one that wants it; the proofs cover any number. Three
jobs give two steps of one run and a competitor from another. MaxRetries is 2 for jobs (3 in
the code) and 3 for notifications (5 in the code): a first, a middle and a last try reach
every branch of the marks and of the reclaim. In `jq_timely` only one job sends heartbeats
(`BeatsOfFirst` in its cfg): what a late one meets is its own row. Nothing else is bounded: `attempts` and `posts`
are finite because the retries are. In DeployLock the count of a lock is finite because the
tries are. `MaxLosses` of LogStream bounds the connections lost or not obtained in a whole
behaviour; three losses reach a connection that is lost while another is current, a lost one
that keeps its place, and calls that wait for a place of the pool of two. In Pipelines every race
is between two requests, or one and a removal, a crash or the start. Two uuids are a seed and
a created pipeline, two seeds, or one row removed and one left; uuids and runs that were used
up are not used again, and before that every order of creation, removal and seeding has
happened. One body changes a column, the other both. `rs` does not go on from states in which both
a claim has raced the inserts and a job was taken from a live worker (`RacedOrLate` in its
cfg): only `StartNoted` says anything there, and it is proved without that bound. The proofs
have none of these bounds.

Deadlock is not checked in `rs`, where the system may stop: all jobs ended. In the other
modules a crash, a restart or a heartbeat is always possible.

## 5. Proofs

Every theorem holds for any number of workers, jobs, items, environments, connections and
retries, and is proved in a module of its own next to the component. The pattern is the same
everywhere: an inductive invariant, one lemma that the initial states satisfy it, one that a
step preserves it (one case per action), and temporal steps by PTL.

**JobTable_proofs.** What each row operator returns: its type, its status and its
`retry_count` (`ClaimedRowIs`, `FailedRowIs`, ...). Further, that the order of steps and the
ORDER BY of the claim are strict orders, so that among finitely many rows the claim always finds
one to return (`FirstOfFinds`) and of the steps a step waits for one waits for none of the others
(`FrontOfLine`); both from `FirstExists`, which rests on the well-foundedness of proper inclusion.

**JobQueue_proofs.**
`TypeCorrect` and `AttemptsBounded` hold whatever the heartbeats do. The latter needs the
budget of a row (`Budget`): a job that has been handed out `n` times has `retry_count` of at
least `n - 1`, one more once it is back in 'pending'; only a mark or a reclaim lets it be
handed out again, and each counts.
With `Timely` the lease invariant `Leased` is inductive: a worker that has a job in hand finds
its row 'running', with its own name and a fresh heartbeat. From it follow
`ExecutionExclusive` (two workers cannot both be named), `TerminalIsFinal` (the only marks come
from the holder of a running row; what else may reach a row that has ended is a beat), `RetriesAccounted` and `StepsInOrder`. `RowLocks` says that a
row locked by a claim cannot change before the claim ends, which carries `Claimable` from the
snapshot to the commit; `AbsentRows`, that a row not yet inserted has used no retries, starts the
account.
`QueueImplementsLifecycle` shows that every step of JobQueue is a step of JobLifecycle under the
mapping or leaves the mapped state alone.
`NothingStalls` (`NoStall`) is the part of `QueueDrains` that needs no fairness, for any finite
number of jobs, whatever the heartbeats do: a job that has not settled, followed up the line of
what it waits for, leads to a job in hand, one a poll can claim or one the reclaim can take. It
follows from the types alone; the work is in the lemmas on the orders.

**RunStatus_proofs.**
`RunTypes`; `StartsNoted` by `StartInv`: an open transaction that ends a job finds the run started,
one that starts a job has started the run or is still before the UPDATE that does. It holds under
every interleaving and with heartbeats as late as you like. The others need that no job was
taken from a worker that still executed it; `HoldInv` says what this gives: one worker at most has
a job in hand, and the row is 'running' until it marks it. `FailuresAreReal` by `FailInv`: the verdict
'failed' was computed from a failed row, and failed rows stay, whether claims raced the inserts
or not. `RunsFollowJobs` and `VerdictsAreFinal` need also that no claim raced them:
`FollowInv` says that then a job that has begun has only ended jobs before it, so that once the
inserts have settled there is one transaction at a time (`OneAtATime`; the steps of one run are
totally ordered, assumption `StepsAssumption`), that the run agrees with the committed rows, and
what the open transaction has established so far.
`RunImplementsLifecycle` (`ImplementsRunLifecycle`) adds `MovesInv`: a transaction takes its job
from absent to pending, from pending to running, or from running to pending or to an end. A
commit of a run that is not disturbed is then exactly one of `Insert`, `Start`, `Retry` and `End`
(`CommitIsSerial`, which uses `FollowInv` before and after the step: the run each of them asks
for is the only one that agrees with the new rows), every other step changes nothing a
reader sees (`Unseen`), and a step that disturbs the run is a claim or a reclaim, which commits
nothing yet.

**DeployLock_proofs.**
`DeployTypes`; `DeploysExclusive` (`OneDeploy`) by `LockInv`: the counts of an advisory lock are
non-zero in one session at most, and a worker between acquire and unlock has it unless its
session is dead; `DeploysShown` (`HolderShown`) by `ShownInv`, which needs that a row of
`deployment_locks` is deleted before the unlock; `SuccessMeansDeployed` (`SuccessWasDeployed`) by
`DeployedInv`: a command is only started by a worker that has the lock, which `LockInv` gives, and
a worker has exit code 0 only between the end of such a command that succeeded and its mark, with
the job of that command in hand; `LeaksStayInReach` (`LeaksInReach`), the part of
`LocksFreed` that needs no fairness, by `PoolInv`: a client is out of its pool exactly between
connect and release, and a session that is not open has no locks. None of them assumes heartbeats in time.

**WebhookOutbox_proofs.**
`OutboxTypes`, `SendersExclusive`, `PostsBounded`, `GivenUpAreSpent`, `ProcessedAreAccepted`, all
whatever the driver answers, from `OutboxInv`: an item is in one hand at most, be that a claim that
has locked it and not yet committed or a worker that sends it (`OneHand`), a count of requests that
follows `retry_count`, and what each place of `processOneWebhook` knows about the item in hand.

**LogStream_proofs.**
`PoolUsable` (`PlaceLeft`), `ListenerAlive` (`NeverDeaf`) and `IdleTimers` (`IdleRetaken`), for a
pool of any size and any losses. `ListenerInv` adds to the first two that a taken connection has
at least one handler, so that its loss sets a timer, and that a process that is down has nothing
left. The argument for `PlaceLeft`: a lost connection keeps its place only when it is not the
current one; then either the current one is given back and is free, or there was none, and the
free place that the invariant grants is another than that of the lost one.

`TypeCorrect` and `StreamsFaithful` (`StreamFaithful`) are about the lines. `SentInv`: what is on
its way on a connection that listens is the end of the log, since the trigger notifies every
listener with every line, in the order of the commits, and a connection delivers from the front.
`CalmInv`: as long as a stream is calm there is exactly one connection that notifies, with one
handler, and no timer that could add another; what the stream has got, together with what it
asks for of what is on its way, is what it asks for of the lines committed since it was opened
(`Complete`). A commit appends the same line to both sides, a delivery moves the first line
from one part of the left side to the other, and every loss ends the calm.

**Selection.** The lemmas this rests on: of two sequences joined, appended to or cut at the front,
which elements are in a set. The selection is a recursive function; what is said of every sequence
is proved by induction over its length, with the set of lengths for which it holds
(`SetInduction`, from the well-foundedness of the order of `Nat`), since the induction theorems
of the library take an operator as parameter.

**Pipelines_proofs.**
For any seeds, bodies, requests and failures. `PipelineTypes` adds to `TypeOK` what a request
knows at each place (`RequestOK`) and how far the seed has come (`SeedingOK`). A lemma that goes with these
is the foreign keys: no run, job or lock row is without what it refers to. `SeedsOnce` needs `LiveInv`: while the process starts no request is under
way, so that rows are only seeded into a table that was empty and into which nothing can be
written back. `RunsAreWhole` by `WholeInv`: the jobs of a run and what its request has still to
insert are together the plan, one request fills a run, and there is no run before the trigger.
`UpdatesKeepOthers` by `KeepInv`: a PATCH that was not crossed has loaded what it has read, and
the columns its body leaves out are equal in both, so that they are not written.

The proofs rest on the named assumptions of the modules and on nothing else but what a theorem
states before its `=>` (`Timely` for the leases, `IsFiniteSet(Jobs)` for `NothingStalls`). Every
invariant, every action property and both refinements of the passing runs are proved. Not
provable here and left to TLC: the liveness properties (`QueueDrains`, `OutboxDrains`,
`LocksFreed`, `ListenerReturns`), which hold under fairness only. Of the first and the third the
safety half is proved, as said above.

## 6. Not modelled

* Wording, log text, exit codes other than 0, timestamps that nothing compares.
* `synchronize` of typeorm (the tables themselves), the DDL lock of `ensureNotifyTrigger`
  (`log-stream.service.ts:103`: the lock ends with the query that takes it, before the DDL it is to protect):
  one process has SYNC_DATABASE (`docker-compose.yml`), nothing competes with it.
* Dashboard: read-only. Entities, DTOs, modules, `main.ts`: no behaviour of their own.
  Load tests and unit tests: not part of the program.
* Bodies that are not of their DTO's type: no ValidationPipe is installed, and `Object.assign` would
  take an `id` from the body of a PATCH. A malformed `config` is modelled, whose type is `Record<string, unknown>`.
* The name of a pipeline (it behaves like its repository) and the parts of a push payload.
* `cancelled`: no statement writes it.
* The split of a command's output into lines (`createLineBuffer`): a line is a model value.
* `onModuleDestroy` of the services: shutdown hooks are not enabled, it is never called.

## 7. Plan

1. Done: JobTable, JobQueue, JobLifecycle, WebhookOutbox, DeployLock, RunStatus, RunLifecycle,
   LogStream, Pipelines, and the proofs of their safety properties and refinements.
2. The composition of Pipelines with JobQueue, in which a job is removed under its worker.
3. More proofs: a bound on how often a line is forwarded after a number of losses; the outbox as
   an implementation of a delivery that is tried a bounded number of times.
