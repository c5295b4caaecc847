----------------------------- MODULE Pipelines ------------------------------
(***************************************************************************)
(* The API process: its start (database/database-seed.service.ts), the     *)
(* requests that create, change, remove and trigger pipelines              *)
(* (api/pipelines, api/runs, api/webhooks), and the tables they share with *)
(* the foreign keys between them.                                          *)
(*                                                                         *)
(* One process, the only one with SYNC_DATABASE = 'true'                   *)
(* (docker-compose.yml); a request is served between others at every       *)
(* await.  DELETE and POST of a pipeline are one statement each.  The name *)
(* of a pipeline behaves like its repository and is left out; a config is  *)
(* the set of its steps, whose order is the matter of JobQueue.  Nothing   *)
(* checks a config: one with a stage that has no list of steps is          *)
(* malformed, and its steps are those of the stages before.  A body is of  *)
(* the type of its DTO, which has no id.  A query may fail at any time.    *)
(***************************************************************************)
EXTENDS Naturals, Sequences, FiniteSets

CONSTANTS
  Ids,       \* uuids of pipelines
  Runs,      \* uuids of runs
  Requests,  \* requests the process serves at a time
  Repos, Configs, Steps,
  Malformed, \* configs that make the loop over stages and steps throw
  Seeds,     \* PIPELINE_SEED, a sequence of rows
  Bodies,    \* bodies of POST and PATCH
  None

Pipeline == [repository : Repos, config : Configs]

\* The body of a PATCH: None for a column that is not in it.
Dto == [repository : Repos \cup {None}, config : Configs \cup {None}]

ASSUME PipelinesAssumption ==
  /\ Configs \subseteq SUBSET Steps
  /\ Malformed \subseteq Configs
  /\ Seeds \in Seq(Pipeline)
  /\ Bodies \subseteq Dto
  /\ None \notin Ids \cup Runs \cup Repos \cup Configs \cup Pipeline \cup Nat

VARIABLES
  api,       \* "down", a phase of onModuleInit, or "up"
  seeding,   \* the rows of PIPELINE_SEED inserted by the loop
  schema,    \* what onModuleInit has created besides the tables
  pipelines, \* table pipelines
  runs,      \* table pipeline_runs: the pipeline of each run
  jobs,      \* table jobs: the steps of each run
  lockedBy,  \* deployment_locks.locked_by, None if there is no row
  req,       \* what each request has read and where it is
  origin,    \* history: the seed a row was inserted for, 0 for POST; None: id not used yet
  plan,      \* history: the config a run was triggered with; None: id not used yet
  broken,    \* history: runs cut short by a failed query, a lost reply, a malformed config or a crash
  crossed    \* history: requests whose row was written between the two SELECTs of a PATCH

tables == <<pipelines, runs, jobs, lockedBy>>
boot == <<api, seeding, schema>>
history == <<origin, plan, broken, crossed>>
vars == <<boot, tables, req, history>>

\* PATCH: "read" (findOne of update), "load" (SELECT of save), "save" (its INSERT or UPDATE).
\* Trigger: "trigger" (findOne of triggerRun), "create", "find" (the run), "insert" (its jobs).
Request ==
  [at : {"idle", "read", "load", "save", "trigger", "create", "find", "insert"},
   id : Ids \cup {None}, dto : Dto, row : Pipeline \cup {None}, loaded : Pipeline \cup {None},
   run : Runs \cup {None}, todo : SUBSET Steps]

Idle == [at |-> "idle", id |-> None, dto |-> [repository |-> None, config |-> None],
         row |-> None, loaded |-> None, run |-> None, todo |-> {}]

\* docker-compose.yml starts from an empty database.
Init ==
  /\ api = "down" /\ seeding = 0 /\ schema = {}
  /\ pipelines = [i \in Ids |-> None]
  /\ runs = [r \in Runs |-> None]
  /\ jobs = [r \in Runs |-> {}]
  /\ lockedBy = None
  /\ req = [q \in Requests |-> Idle]
  /\ origin = [i \in Ids |-> None] /\ plan = [r \in Runs |-> None]
  /\ broken = {} /\ crossed = {}

Existing == {i \in Ids : pipelines[i] # None}

-----------------------------------------------------------------------------
(* onModuleInit *)

\* A mutant: the seeds are completed when some are missing.
EmptyOrPartial == Cardinality(Existing) < Len(Seeds)
Empty == Existing = {}

SeedPipelinesIfEmpty ==
  /\ api = "down"
  /\ api' = IF Empty /\ Seeds # <<>> THEN "seed" ELSE "view"
  /\ UNCHANGED <<seeding, schema, tables, req, history>>

SeedPipeline ==
  /\ api = "seed"
  /\ IF seeding + 1 = Len(Seeds)
     THEN api' = "view" /\ seeding' = 0
     ELSE seeding' = seeding + 1 /\ UNCHANGED api
  /\ \E i \in Ids :
       /\ origin[i] = None
       /\ pipelines' = [pipelines EXCEPT ![i] = Seeds[seeding + 1]]
       /\ origin' = [origin EXCEPT ![i] = seeding + 1]
  /\ UNCHANGED <<schema, runs, jobs, lockedBy, req, plan, broken, crossed>>

EnsurePipelineStatsMatView ==
  /\ api = "view"
  /\ api' = "trigger"
  /\ schema' = schema \cup {"pipeline_stats"}
  /\ UNCHANGED <<seeding, tables, req, history>>

\* The statements of one query are one transaction: DROP and CREATE TRIGGER are not seen apart.
EnsureSyncPipelineRunStatusTrigger ==
  /\ api = "trigger"
  /\ api' = "up"
  /\ schema' = schema \cup {"jobs_sync_pipeline_run_status"}
  /\ UNCHANGED <<seeding, tables, req, history>>

\* The process ends, or a query of onModuleInit fails, which ends it too.
Crash ==
  /\ api # "down"
  /\ api' = "down"
  /\ req' = [q \in Requests |-> Idle]
  /\ broken' = broken \cup {req[q].run : q \in {p \in Requests : req[p].run # None}}
  /\ crossed' = {}
  /\ seeding' = 0
  /\ UNCHANGED <<schema, tables, origin, plan>>

-----------------------------------------------------------------------------
(* Requests *)

Ends(q) == req' = [req EXCEPT ![q] = Idle]

\* PATCH requests that have read row i and not yet loaded it again.
Between(i) == {q \in Requests : req[q].at = "load" /\ req[q].id = i}

Create(i, row) ==
  /\ api = "up" /\ origin[i] = None
  /\ pipelines' = [pipelines EXCEPT ![i] = row]
  /\ origin' = [origin EXCEPT ![i] = 0]
  /\ UNCHANGED <<boot, runs, jobs, lockedBy, req, plan, broken, crossed>>

RunsOf(i) == {r \in Runs : runs[r] = i}

\* The foreign keys of runs and jobs cascade, deployment_locks.locked_by does not: as long as the
\* lock of a run has its row, the DELETE fails, and the controller answers that there is no such
\* pipeline.
Remove(i) ==
  /\ api = "up" /\ i \in Existing
  /\ lockedBy \notin RunsOf(i)
  /\ pipelines' = [pipelines EXCEPT ![i] = None]
  /\ runs' = [r \in Runs |-> IF r \in RunsOf(i) THEN None ELSE runs[r]]
  /\ jobs' = [r \in Runs |-> IF r \in RunsOf(i) THEN {} ELSE jobs[r]]
  /\ crossed' = crossed \cup Between(i)
  /\ broken' = broken \ RunsOf(i)
  /\ UNCHANGED <<boot, lockedBy, req, origin, plan>>

\* The controller looks first; what it finds is not used again.
Update(q, i, dto) ==
  /\ api = "up" /\ req[q].at = "idle" /\ i \in Existing
  /\ req' = [req EXCEPT ![q] = [Idle EXCEPT !.at = "read", !.id = i, !.dto = dto]]
  /\ UNCHANGED <<boot, tables, history>>

Given(new, old) == IF new = None THEN old ELSE new

\* A mutant: the body replaces the row.
MergedUnread(row, dto) == dto
Merged(row, dto) ==
  [repository |-> Given(dto.repository, row.repository), config |-> Given(dto.config, row.config)]

\* findOne and Object.assign.
UpdateReads(q) ==
  LET r == req[q] IN
  /\ r.at = "read"
  /\ IF r.id \in Existing
     THEN req' = [req EXCEPT ![q].at = "load", ![q].row = Merged(pipelines[r.id], r.dto)]
     ELSE Ends(q)
  /\ UNCHANGED <<boot, tables, history>>

\* save selects the row by its id, to learn whether to insert it and which columns differ.
SaveLoads(q) ==
  /\ req[q].at = "load"
  /\ req' = [req EXCEPT ![q].at = "save", ![q].loaded = pipelines[req[q].id]]
  /\ UNCHANGED <<boot, tables, history>>

\* A mutant: every column is written.
WrittenWhole(row, loaded, entity) == entity
Written(row, loaded, entity) ==
  [repository |-> IF entity.repository = loaded.repository THEN row.repository ELSE entity.repository,
   config |-> IF entity.config = loaded.config THEN row.config ELSE entity.config]

\* An UPDATE that finds no row is no error; an INSERT of an id that exists is one.
Save(q) ==
  LET r == req[q]
      row == pipelines[r.id]
  IN
  /\ r.at = "save"
  /\ pipelines' = [pipelines EXCEPT ![r.id] =
       CASE r.loaded = None /\ row = None -> r.row
         [] r.loaded # None /\ row # None -> Written(row, r.loaded, r.row)
         [] OTHER -> row]
  /\ crossed' = (IF pipelines' = pipelines THEN crossed ELSE crossed \cup Between(r.id)) \ {q}
  /\ Ends(q)
  /\ UNCHANGED <<boot, runs, jobs, lockedBy, origin, plan, broken>>

\* POST /webhooks/git/push: any pipeline of the repository, which is not unique.
HandlePush(q, repo) ==
  /\ api = "up" /\ req[q].at = "idle"
  /\ \E i \in Existing :
       /\ pipelines[i].repository = repo
       /\ req' = [req EXCEPT ![q] = [Idle EXCEPT !.at = "trigger", !.id = i]]
  /\ UNCHANGED <<boot, tables, history>>

\* POST /runs.
Trigger(q, i) ==
  /\ api = "up" /\ req[q].at = "idle"
  /\ req' = [req EXCEPT ![q] = [Idle EXCEPT !.at = "trigger", !.id = i]]
  /\ UNCHANGED <<boot, tables, history>>

\* triggerRun reads the pipeline, its config included, once.
TriggerRun(q) ==
  LET r == req[q] IN
  /\ r.at = "trigger"
  /\ IF r.id \in Existing
     THEN req' = [req EXCEPT ![q].at = "create", ![q].row = pipelines[r.id]]
     ELSE Ends(q)
  /\ UNCHANGED <<boot, tables, history>>

\* The INSERT fails when the pipeline is gone.
CreatePipelineRun(q) ==
  LET r == req[q] IN
  /\ r.at = "create"
  /\ \/ /\ r.id \in Existing
        /\ \E n \in Runs :
             /\ plan[n] = None
             /\ runs' = [runs EXCEPT ![n] = r.id]
             /\ plan' = [plan EXCEPT ![n] = r.row.config]
             /\ req' = [req EXCEPT ![q].at = "find", ![q].run = n]
     \/ /\ r.id \notin Existing
        /\ Ends(q)
        /\ UNCHANGED <<runs, plan>>
  /\ UNCHANGED <<boot, pipelines, jobs, lockedBy, origin, broken, crossed>>

\* The INSERT commits and its reply is lost, or the process ends meanwhile: a run without jobs.
CreateReplyLost(q) ==
  LET r == req[q] IN
  /\ r.at = "create" /\ r.id \in Existing
  /\ \E n \in Runs :
       /\ plan[n] = None
       /\ runs' = [runs EXCEPT ![n] = r.id]
       /\ plan' = [plan EXCEPT ![n] = r.row.config]
       /\ broken' = broken \cup {n}
  /\ Ends(q)
  /\ UNCHANGED <<boot, pipelines, jobs, lockedBy, origin, crossed>>

\* triggerRun looks for the run it has created, then issues the inserts of all jobs.  A malformed
\* config makes it throw when some are issued: the request is answered, they go on.
FindRun(q) ==
  LET r == req[q] IN
  /\ r.at = "find"
  /\ broken' = broken \cup {n \in {r.run} : runs[n] # None /\ r.row.config \in Malformed}
  /\ IF runs[r.run] = None \/ r.row.config = {}
     THEN Ends(q)
     ELSE req' = [req EXCEPT ![q].at = "insert", ![q].todo = r.row.config]
  /\ UNCHANGED <<boot, tables, origin, plan, crossed>>

\* One insert less to wait for.
Settle(q, s) ==
  IF req[q].todo = {s} THEN Ends(q) ELSE req' = [req EXCEPT ![q].todo = @ \ {s}]

\* Nobody waits for the inserts of a malformed config: if one fails, the process ends (Crash).
Unawaited(q) == req[q].at = "insert" /\ req[q].row.config \in Malformed

\* A mutant: each insert reads the config anew.
InsertNewJobRead(q, s) ==
  LET r == req[q] IN
  /\ r.at = "insert" /\ s \in r.todo
  /\ jobs' = IF runs[r.run] = None \/ s \notin pipelines[r.id].config THEN jobs
             ELSE [jobs EXCEPT ![r.run] = @ \cup {s}]
  /\ Settle(q, s)
  /\ UNCHANGED <<boot, pipelines, runs, lockedBy, history>>

\* The insert of a job fails when its run is gone; the others go on.
InsertNewJob(q, s) ==
  LET r == req[q] IN
  /\ r.at = "insert" /\ s \in r.todo
  /\ Unawaited(q) => runs[r.run] # None
  /\ jobs' = IF runs[r.run] = None THEN jobs ELSE [jobs EXCEPT ![r.run] = @ \cup {s}]
  /\ Settle(q, s)
  /\ UNCHANGED <<boot, pipelines, runs, lockedBy, history>>

\* A query fails: of the inserts of jobs that one only, otherwise the request.
QueryFails(q) ==
  /\ req[q].at # "idle" /\ ~Unawaited(q)
  /\ IF req[q].at = "insert" THEN \E s \in req[q].todo : Settle(q, s) ELSE Ends(q)
  /\ broken' = broken \cup ({req[q].run} \ {None})
  /\ crossed' = crossed \ {q}
  /\ UNCHANGED <<boot, tables, origin, plan>>

\* A worker deploys a job: tryAcquire writes the row, release deletes it, a crash leaves it.
LockRowChanges ==
  /\ lockedBy' \in {r \in Runs : jobs[r] # {}} \cup {None}
  /\ UNCHANGED <<boot, pipelines, runs, jobs, req, history>>

OnModuleInit ==
  \/ SeedPipelinesIfEmpty \/ SeedPipeline
  \/ EnsurePipelineStatsMatView \/ EnsureSyncPipelineRunStatusTrigger

Serve(q) ==
  \/ \E i \in Ids, dto \in Bodies : Update(q, i, dto)
  \/ UpdateReads(q) \/ SaveLoads(q) \/ Save(q)
  \/ \E repo \in Repos : HandlePush(q, repo)
  \/ \E i \in Ids : Trigger(q, i)
  \/ TriggerRun(q) \/ CreatePipelineRun(q) \/ CreateReplyLost(q) \/ FindRun(q)
  \/ \E s \in Steps : InsertNewJob(q, s)
  \/ QueryFails(q)

Next ==
  \/ OnModuleInit \/ Crash \/ LockRowChanges
  \/ \E i \in Ids : Remove(i) \/ \E row \in Bodies \cap Pipeline : Create(i, row)
  \/ \E q \in Requests : Serve(q)

Spec == Init /\ [][Next]_vars

-----------------------------------------------------------------------------
(* Properties *)

\* Types.  A row is whole: PATCH merges its body into what it has read.
TypeOK ==
  /\ api \in {"down", "seed", "view", "trigger", "up"}
  /\ seeding \in 0..Len(Seeds)
  /\ schema \subseteq {"pipeline_stats", "jobs_sync_pipeline_run_status"}
  /\ pipelines \in [Ids -> Pipeline \cup {None}]
  /\ runs \in [Runs -> Ids \cup {None}]
  /\ jobs \in [Runs -> SUBSET Steps]
  /\ lockedBy \in Runs \cup {None}
  /\ req \in [Requests -> Request]
  /\ origin \in [Ids -> (0..Len(Seeds)) \cup {None}]
  /\ plan \in [Runs -> Configs \cup {None}]
  /\ broken \subseteq Runs
  /\ crossed \subseteq Requests

\* The run n is being filled by a request.
Filling(n) == \E q \in Requests : req[q].run = n

\* A run that no failure cut short has all the steps its pipeline had when it was triggered
\* and no other, whatever PATCHes and removals were served meanwhile, and the trigger that keeps
\* its status is installed (triggerRun, onModuleInit).
RunsWhole ==
  /\ \A n \in Runs : runs[n] # None /\ n \notin broken /\ ~Filling(n) => jobs[n] = plan[n]
  /\ \A n \in Runs : runs[n] # None => "jobs_sync_pipeline_run_status" \in schema

\* However often the process dies between count and the inserts, and whatever was removed or
\* written back, no seed is in the table twice (seedPipelinesIfEmpty).
SeedsDistinct ==
  \A i, j \in Existing : origin[i] = origin[j] /\ origin[i] # 0 => i = j

\* A PATCH changes nothing but the columns of its body, and brings no removed pipeline back,
\* unless the row was written or removed between the two SELECTs of the request (update, save).
UpdateKeepsOthers ==
  [][\A q \in Requests : req[q].at = "save" /\ pipelines' # pipelines /\ Save(q) =>
       \/ q \in crossed
       \/ LET i == req[q].id IN
          /\ i \in Existing
          /\ req[q].dto.repository = None => pipelines'[i].repository = pipelines[i].repository
          /\ req[q].dto.config = None => pipelines'[i].config = pipelines[i].config]_vars
=============================================================================
