-------------------------- MODULE Pipelines_proofs --------------------------
(***************************************************************************)
(* Theorems about Pipelines for any tables, seeds and number of requests.  *)
(***************************************************************************)
EXTENDS Pipelines, TLAPS

\* The steps of Next, one by one.
LEMMA StepCases ==
  ASSUME [Next]_vars
  PROVE  \/ SeedPipelinesIfEmpty \/ SeedPipeline
         \/ EnsurePipelineStatsMatView \/ EnsureSyncPipelineRunStatusTrigger
         \/ Crash \/ LockRowChanges
         \/ \E i \in Ids : Remove(i)
         \/ \E i \in Ids : \E row \in Bodies \cap Pipeline : Create(i, row)
         \/ \E q \in Requests :
              \/ \E i \in Ids : \E dto \in Bodies : Update(q, i, dto)
              \/ UpdateReads(q) \/ SaveLoads(q) \/ Save(q)
              \/ \E repo \in Repos : HandlePush(q, repo)
              \/ \E i \in Ids : Trigger(q, i)
              \/ TriggerRun(q) \/ CreatePipelineRun(q) \/ CreateReplyLost(q) \/ FindRun(q)
              \/ \E s \in Steps : InsertNewJob(q, s)
              \/ QueryFails(q)
         \/ UNCHANGED vars
  BY DEF Next, OnModuleInit, Serve

-----------------------------------------------------------------------------
(* Type correctness *)

\* What a request knows at each place: the pipeline it is about, the row it has read, the run it
\* has created.
RequestOK(r) ==
  /\ r.at = "idle" => r = Idle
  /\ r.at # "idle" => r.id \in Ids
  /\ r.at \in {"load", "save", "create", "find", "insert"} => r.row \in Pipeline
  /\ r.at \in {"find", "insert"} <=> r.run # None

\* How far the loop over the seeds has come.
SeedingOK == IF api = "seed" THEN seeding < Len(Seeds) ELSE seeding = 0

Typed == TypeOK /\ SeedingOK /\ \A q \in Requests : RequestOK(req[q])

LEMMA IdleOK == Idle \in Request /\ RequestOK(Idle) /\ Idle.at = "idle" /\ Idle.run = None
  BY DEF Idle, Request, RequestOK, Dto

\* None is no row, id or run.
LEMMA NotNone ==
  /\ \A p \in Pipeline : p # None
  /\ \A i \in Ids : i # None
  /\ \A r \in Runs : r # None
  /\ \A n \in Nat : n # None
  /\ \A c \in Configs : c # None
  BY PipelinesAssumption

\* A request arrives: it has read no row and holds no run.
Arrives(q) ==
  /\ req[q].at = "idle" /\ req'[q].at \in {"read", "trigger"} /\ req'[q].run = None
  /\ \A p \in Requests \ {q} : req'[p] = req[p]
  /\ UNCHANGED <<boot, tables, history>>

LEMMA ArrivesTo ==
  ASSUME NEW S, NEW f \in [Requests -> S], NEW g, NEW q \in Requests, NEW v, g = [f EXCEPT ![q] = v]
  PROVE  g[q] = v /\ \A p \in Requests \ {q} : g[p] = f[p]
  OBVIOUS

LEMMA UpdateArrives ==
  ASSUME req \in [Requests -> Request], NEW q \in Requests, NEW i, NEW dto, Update(q, i, dto)
  PROVE  Arrives(q)
<1> DEFINE r == [Idle EXCEPT !.at = "read", !.id = i, !.dto = dto]
<1>1. r.at = "read" /\ r.run = None
  BY DEF Idle
<1>2. req' = [req EXCEPT ![q] = r] /\ req[q].at = "idle" /\ UNCHANGED <<boot, tables, history>>
  BY DEF Update
<1> HIDE DEF r
<1>3. req'[q] = r /\ \A p \in Requests \ {q} : req'[p] = req[p]
  BY <1>2, ArrivesTo
<1> QED
  BY <1>1, <1>2, <1>3 DEF Arrives

LEMMA TriggerArrives ==
  ASSUME req \in [Requests -> Request], NEW q \in Requests,
         (\E repo \in Repos : HandlePush(q, repo)) \/ (\E i \in Ids : Trigger(q, i))
  PROVE  Arrives(q)
<1>1. PICK i : /\ req' = [req EXCEPT ![q] = [Idle EXCEPT !.at = "trigger", !.id = i]]
               /\ req[q].at = "idle" /\ UNCHANGED <<boot, tables, history>>
  BY DEF HandlePush, Trigger
<1> DEFINE r == [Idle EXCEPT !.at = "trigger", !.id = i]
<1>2. r.at = "trigger" /\ r.run = None
  BY DEF Idle
<1> HIDE DEF r
<1>3. req'[q] = r /\ \A p \in Requests \ {q} : req'[p] = req[p]
  BY <1>1, ArrivesTo DEF r
<1> QED
  BY <1>1, <1>2, <1>3 DEF Arrives

LEMMA MergedIs ==
  ASSUME NEW row \in Pipeline, NEW dto \in Dto
  PROVE  Merged(row, dto) \in Pipeline
  BY DEF Merged, Given, Pipeline, Dto

LEMMA WrittenIs ==
  ASSUME NEW row \in Pipeline, NEW loaded \in Pipeline, NEW entity \in Pipeline
  PROVE  Written(row, loaded, entity) \in Pipeline
  BY DEF Written, Pipeline

LEMMA TypedInit == Init => Typed
<1> SUFFICES ASSUME Init PROVE Typed
  OBVIOUS
<1>1. 0 \in 0..Len(Seeds)
  BY PipelinesAssumption
<1> QED
  BY <1>1, IdleOK DEF Init, Typed, TypeOK, SeedingOK

\* The request q goes to a state that is in order; the others stay.
LEMMA TypedRequest ==
  ASSUME Typed, NEW q \in Requests, NEW r, r \in Request, RequestOK(r), req' = [req EXCEPT ![q] = r]
  PROVE  req' \in [Requests -> Request] /\ \A p \in Requests : RequestOK(req'[p])
  BY DEF Typed, TypeOK

LEMMA TypedEnds ==
  ASSUME Typed, NEW q \in Requests, Ends(q)
  PROVE  req' \in [Requests -> Request] /\ \A p \in Requests : RequestOK(req'[p])
  BY IdleOK, TypedRequest DEF Ends

LEMMA TypedSettle ==
  ASSUME Typed, NEW q \in Requests, NEW s, Settle(q, s), req[q].at = "insert"
  PROVE  req' \in [Requests -> Request] /\ \A p \in Requests : RequestOK(req'[p])
<1>1. CASE req[q].todo = {s}
  BY <1>1, TypedEnds DEF Settle
<1>2. CASE req[q].todo # {s}
  <2>1. DEFINE r == [req[q] EXCEPT !.todo = @ \ {s}]
  <2>2. req' = [req EXCEPT ![q] = r]
    BY <1>2 DEF Settle
  <2>3. r \in Request /\ RequestOK(r)
    BY IdleOK DEF Typed, TypeOK, Request, RequestOK
  <2> QED
    BY <2>2, <2>3, TypedRequest
<1> QED
  BY <1>1, <1>2

\* The moves of a PATCH.
LEMMA PatchMovesOK ==
  ASSUME NEW r \in Request, RequestOK(r)
  PROVE  /\ \A row \in Pipeline :
              LET t == [r EXCEPT !.at = "load", !.row = row]
              IN  r.at = "read" => t \in Request /\ RequestOK(t)
         /\ \A loaded \in Pipeline \cup {None} :
              LET t == [r EXCEPT !.at = "save", !.loaded = loaded]
              IN  r.at = "load" => t \in Request /\ RequestOK(t)
<1>1. ASSUME NEW row \in Pipeline, r.at = "read"
      PROVE  LET t == [r EXCEPT !.at = "load", !.row = row] IN t \in Request /\ RequestOK(t)
  BY <1>1 DEF Request, RequestOK
<1>2. ASSUME NEW loaded \in Pipeline \cup {None}, r.at = "load"
      PROVE  LET t == [r EXCEPT !.at = "save", !.loaded = loaded] IN t \in Request /\ RequestOK(t)
  BY <1>2 DEF Request, RequestOK
<1> QED
  BY <1>1, <1>2

\* The moves of triggerRun.
LEMMA MovesOK ==
  ASSUME NEW r \in Request, RequestOK(r)
  PROVE  /\ \A row \in Pipeline :
              LET t == [r EXCEPT !.at = "create", !.row = row]
              IN  r.at = "trigger" => t \in Request /\ RequestOK(t)
         /\ \A n \in Runs :
              LET t == [r EXCEPT !.at = "find", !.run = n]
              IN  r.at = "create" => t \in Request /\ RequestOK(t)
         /\ \A c \in SUBSET Steps :
              LET t == [r EXCEPT !.at = "insert", !.todo = c]
              IN  r.at = "find" => t \in Request /\ RequestOK(t)
<1>1. ASSUME NEW row \in Pipeline, r.at = "trigger"
      PROVE  LET t == [r EXCEPT !.at = "create", !.row = row] IN t \in Request /\ RequestOK(t)
  BY <1>1 DEF Request, RequestOK
<1>2. ASSUME NEW n \in Runs, r.at = "create"
      PROVE  LET t == [r EXCEPT !.at = "find", !.run = n] IN t \in Request /\ RequestOK(t)
  BY <1>2, NotNone DEF Request, RequestOK
<1>3. ASSUME NEW c \in SUBSET Steps, r.at = "find"
      PROVE  LET t == [r EXCEPT !.at = "insert", !.todo = c] IN t \in Request /\ RequestOK(t)
  BY <1>3 DEF Request, RequestOK
<1> QED
  BY <1>1, <1>2, <1>3

LEMMA TypedStep == Typed /\ [Next]_vars => Typed'
<1> SUFFICES ASSUME Typed, [Next]_vars PROVE Typed'
  OBVIOUS
<1> USE DEF Typed, TypeOK, SeedingOK, boot, tables, history
<1>0. Len(Seeds) \in Nat /\ \A n \in 1..Len(Seeds) : Seeds[n] \in Pipeline
  BY PipelinesAssumption
<1>1. CASE SeedPipelinesIfEmpty
  BY <1>0, <1>1, PipelinesAssumption DEF SeedPipelinesIfEmpty
<1>2. CASE SeedPipeline
  <2>1. seeding + 1 \in 1..Len(Seeds) /\ (seeding + 1 # Len(Seeds) => seeding + 1 < Len(Seeds))
    BY <1>0, <1>2 DEF SeedPipeline
  <2>2. /\ pipelines' \in [Ids -> Pipeline \cup {None}]
        /\ origin' \in [Ids -> (0..Len(Seeds)) \cup {None}]
    BY <1>0, <1>2, <2>1 DEF SeedPipeline
  <2> QED
    BY <1>0, <1>2, <2>1, <2>2 DEF SeedPipeline
<1>3. CASE EnsurePipelineStatsMatView \/ EnsureSyncPipelineRunStatusTrigger
  BY <1>3 DEF EnsurePipelineStatsMatView, EnsureSyncPipelineRunStatusTrigger
<1>4. CASE Crash
  <2>1. /\ req' \in [Requests -> Request]
        /\ \A q \in Requests : RequestOK(req'[q])
    BY <1>4, IdleOK DEF Crash
  <2>2. broken' \subseteq Runs
    BY <1>4 DEF Crash, Request
  <2> QED
    BY <1>0, <1>4, <2>1, <2>2 DEF Crash
<1>5. CASE LockRowChanges
  BY <1>5 DEF LockRowChanges
<1>6. ASSUME NEW i \in Ids, Remove(i) PROVE Typed'
  BY <1>6 DEF Remove, Between
<1>7. ASSUME NEW i \in Ids, NEW row \in Bodies \cap Pipeline, Create(i, row) PROVE Typed'
  BY <1>0, <1>7 DEF Create
<1>8. ASSUME NEW q \in Requests, NEW i \in Ids, NEW dto \in Bodies, Update(q, i, dto) PROVE Typed'
  <2> DEFINE r == [Idle EXCEPT !.at = "read", !.id = i, !.dto = dto]
  <2>1. r \in Request /\ RequestOK(r)
    BY PipelinesAssumption DEF Request, RequestOK, Idle
  <2> QED
    BY <1>8, <2>1, TypedRequest DEF Update
<1>9. ASSUME NEW q \in Requests, UpdateReads(q) PROVE Typed'
  <2>1. CASE req[q].id \in Existing
    <3> DEFINE r == [req[q] EXCEPT !.at = "load", !.row = Merged(pipelines[req[q].id], req[q].dto)]
    <3>1. Merged(pipelines[req[q].id], req[q].dto) \in Pipeline
      BY <2>1, MergedIs DEF Existing, Request
    <3>2. r \in Request /\ RequestOK(r)
      <4>1. req[q] \in Request /\ RequestOK(req[q]) /\ req[q].at = "read"
        BY <1>9 DEF UpdateReads
      <4> QED
        BY <3>1, <4>1, PatchMovesOK
    <3>3. req' = [req EXCEPT ![q] = r]
      BY <1>9, <2>1 DEF UpdateReads
    <3> QED
      BY <1>9, <3>2, <3>3, TypedRequest DEF UpdateReads
  <2>2. CASE req[q].id \notin Existing
    BY <1>9, <2>2, TypedEnds DEF UpdateReads
  <2> QED
    BY <2>1, <2>2
<1>10. ASSUME NEW q \in Requests, SaveLoads(q) PROVE Typed'
  <2> DEFINE r == [req[q] EXCEPT !.at = "save", !.loaded = pipelines[req[q].id]]
  <2>1. r \in Request /\ RequestOK(r)
    <3>1. req[q] \in Request /\ RequestOK(req[q]) /\ req[q].at = "load" /\ req[q].id \in Ids
      BY <1>10 DEF SaveLoads, RequestOK
    <3>2. pipelines[req[q].id] \in Pipeline \cup {None}
      BY <3>1
    <3> QED
      BY <3>1, <3>2, PatchMovesOK
  <2>2. req' = [req EXCEPT ![q] = r]
    BY <1>10 DEF SaveLoads
  <2> QED
    BY <1>10, <2>1, <2>2, TypedRequest DEF SaveLoads
<1>11. ASSUME NEW q \in Requests, Save(q) PROVE Typed'
  <2>1. /\ req[q].id \in Ids /\ req[q].row \in Pipeline /\ req[q].loaded \in Pipeline \cup {None}
        /\ pipelines[req[q].id] \in Pipeline \cup {None}
    BY <1>11 DEF Save, RequestOK, Request
  <2>2. pipelines' \in [Ids -> Pipeline \cup {None}]
    BY <1>11, <2>1, WrittenIs DEF Save
  <2> QED
    BY <1>11, <2>2, TypedEnds DEF Save, Between
<1>12. ASSUME NEW q \in Requests, NEW i \in Ids, req' = [req EXCEPT ![q] = [Idle EXCEPT !.at = "trigger", !.id = i]],
              UNCHANGED <<boot, tables, history>>
       PROVE  Typed'
  <2> DEFINE r == [Idle EXCEPT !.at = "trigger", !.id = i]
  <2>1. r \in Request /\ RequestOK(r)
    BY PipelinesAssumption DEF Request, RequestOK, Idle, Dto
  <2> QED
    BY <1>12, <2>1, TypedRequest
<1>13. ASSUME NEW q \in Requests, \/ \E repo \in Repos : HandlePush(q, repo)
                                  \/ \E i \in Ids : Trigger(q, i)
       PROVE  Typed'
  BY <1>12, <1>13 DEF HandlePush, Trigger, Existing
<1>14. ASSUME NEW q \in Requests, TriggerRun(q) PROVE Typed'
  <2>1. CASE req[q].id \in Existing
    <3> DEFINE r == [req[q] EXCEPT !.at = "create", !.row = pipelines[req[q].id]]
    <3>1. r \in Request /\ RequestOK(r)
      BY <1>14, <2>1, MovesOK DEF TriggerRun, Existing
    <3>2. req' = [req EXCEPT ![q] = r]
      BY <1>14, <2>1 DEF TriggerRun
    <3> QED
      BY <1>14, <3>1, <3>2, TypedRequest DEF TriggerRun
  <2>2. CASE req[q].id \notin Existing
    BY <1>14, <2>2, TypedEnds DEF TriggerRun
  <2> QED
    BY <2>1, <2>2
<1>15. ASSUME NEW q \in Requests, CreatePipelineRun(q) PROVE Typed'
  <2>1. CASE req[q].id \in Existing
    <3>1. PICK n \in Runs : /\ runs' = [runs EXCEPT ![n] = req[q].id]
                            /\ plan' = [plan EXCEPT ![n] = req[q].row.config]
                            /\ req' = [req EXCEPT ![q].at = "find", ![q].run = n]
      BY <1>15, <2>1 DEF CreatePipelineRun
    <3> DEFINE r == [req[q] EXCEPT !.at = "find", !.run = n]
    <3>2. r \in Request /\ RequestOK(r)
      BY <1>15, MovesOK DEF CreatePipelineRun
    <3> HIDE DEF r
    <3>5. req[q].row \in Pipeline /\ req[q].id \in Ids
      BY <1>15 DEF CreatePipelineRun, RequestOK
    <3>3. req' = [req EXCEPT ![q] = r]
      BY <3>1 DEF r
    <3>4. req[q].row.config \in Configs
      BY <3>5 DEF Pipeline
    <3> QED
      BY <1>15, <3>1, <3>2, <3>3, <3>4, <3>5, TypedRequest DEF CreatePipelineRun
  <2>2. CASE req[q].id \notin Existing
    BY <1>15, <2>2, TypedEnds DEF CreatePipelineRun
  <2> QED
    BY <2>1, <2>2
<1>16. ASSUME NEW q \in Requests, FindRun(q) PROVE Typed'
  <2>b. broken' \subseteq Runs
    BY <1>16, NotNone DEF FindRun, RequestOK, Request
  <2>1. CASE runs[req[q].run] = None \/ req[q].row.config = {}
    BY <1>16, <2>b, <2>1, TypedEnds DEF FindRun
  <2>2. CASE ~(runs[req[q].run] = None \/ req[q].row.config = {})
    <3> DEFINE r == [req[q] EXCEPT !.at = "insert", !.todo = req[q].row.config]
    <3>1. r \in Request /\ RequestOK(r)
      <4>1. req[q].row.config \in SUBSET Steps
        BY <1>16, PipelinesAssumption DEF FindRun, RequestOK, Pipeline
      <4> QED
        BY <1>16, <4>1, MovesOK DEF FindRun
    <3>2. req' = [req EXCEPT ![q] = r]
      BY <1>16, <2>2 DEF FindRun
    <3> QED
      BY <1>16, <2>b, <3>1, <3>2, TypedRequest DEF FindRun
  <2> QED
    BY <2>1, <2>2
<1>17. ASSUME NEW q \in Requests, NEW s \in Steps, InsertNewJob(q, s) PROVE Typed'
  BY <1>17, TypedSettle DEF InsertNewJob
<1>18. ASSUME NEW q \in Requests, QueryFails(q) PROVE Typed'
  <2>1. req' \in [Requests -> Request] /\ \A p \in Requests : RequestOK(req'[p])
    BY <1>18, TypedSettle, TypedEnds DEF QueryFails
  <2>2. broken' \subseteq Runs
    BY <1>18 DEF QueryFails, Request
  <2> QED
    BY <1>18, <2>1, <2>2 DEF QueryFails
<1>19. ASSUME NEW q \in Requests, CreateReplyLost(q) PROVE Typed'
  <2>1. PICK n \in Runs : /\ runs' = [runs EXCEPT ![n] = req[q].id]
                          /\ plan' = [plan EXCEPT ![n] = req[q].row.config]
                          /\ broken' = broken \cup {n}
    BY <1>19 DEF CreateReplyLost
  <2>2. req[q].row \in Pipeline /\ req[q].id \in Ids
    BY <1>19 DEF CreateReplyLost, RequestOK
  <2>3. req[q].row.config \in Configs
    BY <2>2 DEF Pipeline
  <2> QED
    BY <1>19, <2>1, <2>2, <2>3, TypedEnds DEF CreateReplyLost
<1>20. CASE UNCHANGED vars
  BY <1>20 DEF vars
<1> QED
  BY <1>1, <1>2, <1>3, <1>4, <1>5, <1>6, <1>7, <1>8, <1>9, <1>10, <1>11, <1>13, <1>14, <1>15,
     <1>16, <1>17, <1>18, <1>19, <1>20, StepCases

\* Rows are whole and requests hold what they have read, for any seeds, bodies and failures.
THEOREM PipelineTypes == Spec => []TypeOK
<1>1. Init => Typed
  BY TypedInit
<1>2. Typed /\ [Next]_vars => Typed'
  BY TypedStep
<1>3. Typed => TypeOK
  BY DEF Typed
<1> QED
  BY <1>1, <1>2, <1>3, PTL DEF Spec

-----------------------------------------------------------------------------
(* Foreign keys, which the database keeps: what the proof about runs needs *)
(* of them                                                                 *)

NoOrphans ==
  /\ \A r \in Runs : runs[r] # None => runs[r] \in Existing
  /\ \A r \in Runs : jobs[r] # {} => runs[r] # None
  /\ lockedBy # None => runs[lockedBy] # None

LEMMA OrphansInit == Init => NoOrphans
  BY DEF Init, NoOrphans

LEMMA OrphansStep == Typed /\ NoOrphans /\ [Next]_vars => NoOrphans'
<1> SUFFICES ASSUME Typed, NoOrphans, [Next]_vars PROVE NoOrphans'
  OBVIOUS
<1> USE DEF Typed, TypeOK, NoOrphans, Existing
\* A row may be added or changed.
<1>1. ASSUME Existing \subseteq Existing', UNCHANGED <<runs, jobs, lockedBy>> PROVE NoOrphans'
  BY <1>1
<1>2. CASE UNCHANGED tables
  BY <1>2, <1>1 DEF tables
<1>3. CASE SeedPipeline
  <2>1. seeding + 1 \in 1..Len(Seeds)
    BY <1>3, PipelinesAssumption DEF SeedPipeline, SeedingOK
  <2>2. Seeds[seeding + 1] # None
    BY <2>1, PipelinesAssumption, NotNone
  <2> QED
    BY <1>1, <1>3, <2>2 DEF SeedPipeline
<1>4. CASE LockRowChanges
  BY <1>4 DEF LockRowChanges
<1>5. ASSUME NEW i \in Ids, Remove(i) PROVE NoOrphans'
  BY <1>5 DEF Remove, RunsOf
<1>6. ASSUME NEW i \in Ids, NEW row \in Bodies \cap Pipeline, Create(i, row) PROVE NoOrphans'
  BY <1>1, <1>6, NotNone DEF Create
<1>7. ASSUME NEW q \in Requests, Save(q) PROVE NoOrphans'
  <2>1. /\ req[q].id \in Ids /\ req[q].row \in Pipeline /\ req[q].loaded \in Pipeline \cup {None}
        /\ pipelines[req[q].id] \in Pipeline \cup {None}
    BY <1>7 DEF Save, RequestOK, Request
  <2>2. pipelines[req[q].id] # None => pipelines'[req[q].id] # None
    BY <1>7, <2>1, WrittenIs, NotNone DEF Save
  <2> QED
    BY <1>1, <1>7, <2>2 DEF Save
<1>8. ASSUME NEW q \in Requests, CreatePipelineRun(q) PROVE NoOrphans'
  BY <1>2, <1>8, NotNone DEF CreatePipelineRun, RequestOK, tables
<1>9. ASSUME NEW q \in Requests, NEW s \in Steps, InsertNewJob(q, s) PROVE NoOrphans'
  BY <1>9 DEF InsertNewJob
<1>10. ASSUME NEW q \in Requests, CreateReplyLost(q) PROVE NoOrphans'
  BY <1>10, NotNone DEF CreateReplyLost, RequestOK
<1> QED
  BY <1>2, <1>3, <1>4, <1>5, <1>6, <1>7, <1>8, <1>9, <1>10, StepCases
     DEF vars, SeedPipelinesIfEmpty, EnsurePipelineStatsMatView, Crash, Update, UpdateReads, SaveLoads,
         EnsureSyncPipelineRunStatusTrigger, HandlePush, Trigger, TriggerRun, FindRun, QueryFails

-----------------------------------------------------------------------------
(* Seeds *)

\* The rows of the table, and those a PATCH under way may write back.
Live == Existing \cup {req[q].id : q \in {p \in Requests : req[p].at \in {"read", "load", "save"}}}

\* Requests are served by a process that is up only, so that the loop over the seeds, which
\* starts on an empty table, is the only one to write.
LiveInv ==
  /\ api # "up" => \A q \in Requests : req[q].at = "idle"
  /\ \A i \in Live : origin[i] # None
  /\ api = "seed" => \A i \in Live : origin[i] \in 1..seeding
  /\ \A i, j \in Live : origin[i] = origin[j] /\ origin[i] # 0 => i = j

LEMMA LiveInit == Init => LiveInv
<1> SUFFICES ASSUME Init PROVE LiveInv
  OBVIOUS
<1>1. Live = {}
  BY DEF Init, Live, Existing, Idle
<1> QED
  BY <1>1 DEF Init, LiveInv, Idle

LEMMA LiveStep == Typed /\ LiveInv /\ [Next]_vars => LiveInv'
<1> SUFFICES ASSUME Typed, LiveInv, [Next]_vars PROVE LiveInv'
  OBVIOUS
<1> USE DEF Typed, TypeOK, SeedingOK
\* A request that is served makes no row live that was not.
<1>1. ASSUME Live' \subseteq Live, UNCHANGED <<api, seeding, origin>>, api = "up" PROVE LiveInv'
  BY <1>1 DEF LiveInv
<1>2. CASE SeedPipelinesIfEmpty
  <2>1. Live' = Live
    BY <1>2 DEF SeedPipelinesIfEmpty, Live, Existing, tables
  <2>2. Empty => Live = {}
    BY <1>2 DEF SeedPipelinesIfEmpty, Empty, Live, LiveInv
  <2> QED
    BY <1>2, <2>1, <2>2 DEF SeedPipelinesIfEmpty, LiveInv, history
<1>3. CASE SeedPipeline
  <2>1. PICK i \in Ids : /\ origin[i] = None
                         /\ pipelines' = [pipelines EXCEPT ![i] = Seeds[seeding + 1]]
                         /\ origin' = [origin EXCEPT ![i] = seeding + 1]
    BY <1>3 DEF SeedPipeline
  <2>2. \A j \in Live : j \in Existing /\ j # i /\ origin[j] \in 1..seeding
    BY <1>3, <2>1 DEF SeedPipeline, Live, LiveInv
  <2>3. Live' \subseteq Live \cup {i}
    BY <1>3, <2>1 DEF SeedPipeline, Live, Existing
  <2>4. /\ seeding \in Nat /\ origin'[i] = seeding + 1
        /\ \A j \in Live : origin'[j] = origin[j]
    BY <2>1, <2>2, PipelinesAssumption DEF Existing
  <2>5. /\ \A j \in Live' : origin'[j] \in 1..(seeding + 1)
        /\ \A j, k \in Live' : origin'[j] = origin'[k] => j = k
    BY <2>2, <2>3, <2>4 DEF LiveInv
  <2>6. \A j \in Live' : origin'[j] # None
    BY <2>4, <2>5, NotNone
  <2> QED
    BY <1>3, <2>5, <2>6 DEF SeedPipeline, LiveInv
<1>4. CASE EnsurePipelineStatsMatView \/ EnsureSyncPipelineRunStatusTrigger
  <2>1. Live' = Live
    BY <1>4 DEF EnsurePipelineStatsMatView, EnsureSyncPipelineRunStatusTrigger, Live, Existing, tables
  <2> QED
    BY <1>4, <2>1 DEF EnsurePipelineStatsMatView, EnsureSyncPipelineRunStatusTrigger, LiveInv, history
<1>5. CASE Crash
  <2>1. Live' \subseteq Live
    BY <1>5 DEF Crash, Live, Existing, Idle, tables
  <2> QED
    BY <1>5, <2>1 DEF Crash, LiveInv, Idle
<1>6. CASE LockRowChanges
  BY <1>6 DEF LockRowChanges, LiveInv, Live, Existing, boot, history
<1>7. ASSUME NEW i \in Ids, Remove(i) PROVE LiveInv'
  BY <1>1, <1>7 DEF Remove, Live, Existing, boot
<1>8. ASSUME NEW i \in Ids, NEW row \in Bodies \cap Pipeline, Create(i, row) PROVE LiveInv'
  <2>1. Live' \subseteq Live \cup {i} /\ i \notin Live
    BY <1>8 DEF Create, Live, Existing, LiveInv
  <2>2. /\ api' = api /\ api = "up" /\ req' = req /\ seeding' = seeding
        /\ origin'[i] = 0 /\ \A j \in Live : origin'[j] = origin[j]
    BY <1>8, <2>1 DEF Create, Live, Existing, RequestOK, boot
  <2> QED
    BY <2>1, <2>2, NotNone DEF LiveInv
<1>9. ASSUME NEW q \in Requests, \E i \in Ids : \E dto \in Bodies : Update(q, i, dto)
      PROVE  LiveInv'
  BY <1>1, <1>9 DEF Update, Live, Existing, Idle, boot, tables, history
<1>10. ASSUME NEW q \in Requests, api = "up", UNCHANGED <<boot, pipelines, origin>>,
              \A p \in Requests \ {q} : req'[p] = req[p],
              req'[q].at \in {"read", "load", "save"} =>
                req[q].at \in {"read", "load", "save"} /\ req'[q].id = req[q].id
       PROVE  LiveInv'
  <2>1. Live' \subseteq Live
    BY <1>10 DEF Live, Existing
  <2> QED
    BY <1>1, <1>10, <2>1 DEF boot
<1>11. ASSUME NEW q \in Requests, req[q].at # "idle" PROVE api = "up"
  BY <1>11 DEF LiveInv
<1>12. ASSUME NEW q \in Requests, UpdateReads(q) PROVE LiveInv'
  BY <1>10, <1>11, <1>12 DEF UpdateReads, Ends, Idle, Request, tables, history
<1>13. ASSUME NEW q \in Requests, SaveLoads(q) PROVE LiveInv'
  BY <1>10, <1>11, <1>13 DEF SaveLoads, Request, tables, history
<1>14. ASSUME NEW q \in Requests, Save(q) PROVE LiveInv'
  <2>1. Live' \subseteq Live
    BY <1>14 DEF Save, Live, Existing, Ends, Idle, RequestOK
  <2> QED
    BY <1>1, <1>11, <1>14, <2>1 DEF Save, boot
<1>15. ASSUME NEW q \in Requests, \/ \E repo \in Repos : HandlePush(q, repo)
                                  \/ \E i \in Ids : Trigger(q, i)
       PROVE  LiveInv'
  <2>1. PICK i : req' = [req EXCEPT ![q] = [Idle EXCEPT !.at = "trigger", !.id = i]]
    BY <1>15 DEF HandlePush, Trigger
  <2>2. req'[q].at = "trigger"
    BY <2>1 DEF Idle
  <2>3. api = "up" /\ UNCHANGED <<boot, pipelines, origin>>
    BY <1>15 DEF HandlePush, Trigger, tables, history
  <2> QED
    BY <1>10, <2>1, <2>2, <2>3
<1>16. ASSUME NEW q \in Requests, \/ TriggerRun(q) \/ CreatePipelineRun(q) \/ FindRun(q)
                                  \/ CreateReplyLost(q)
       PROVE  LiveInv'
  BY <1>10, <1>11, <1>16 DEF TriggerRun, CreatePipelineRun, CreateReplyLost, FindRun, Ends, Idle, Request, tables, history
<1>17. ASSUME NEW q \in Requests, \/ \E s \in Steps : InsertNewJob(q, s)
                                  \/ QueryFails(q)
       PROVE  LiveInv'
  BY <1>10, <1>11, <1>17 DEF InsertNewJob, QueryFails, Settle, Ends, Idle, Request, tables, history
<1>18. CASE UNCHANGED vars
  BY <1>18 DEF vars, LiveInv, Live, Existing, boot, tables, history
<1> QED
  BY <1>2, <1>3, <1>4, <1>5, <1>6, <1>7, <1>8, <1>9, <1>12, <1>13, <1>14, <1>15, <1>16, <1>17,
     <1>18, StepCases

\* However often the process dies while it seeds, no seed is in the table twice, also when an
\* update writes back a row that was removed.
THEOREM SeedsOnce == Spec => []SeedsDistinct
<1>1. Init => Typed /\ LiveInv
  BY TypedInit, LiveInit
<1>2. Typed /\ LiveInv /\ [Next]_vars => Typed' /\ LiveInv'
  BY TypedStep, LiveStep
<1>3. LiveInv => SeedsDistinct
  BY DEF LiveInv, SeedsDistinct, Live
<1> QED
  BY <1>1, <1>2, <1>3, PTL DEF Spec

-----------------------------------------------------------------------------
(* Runs are whole *)

\* The steps the request has still to insert.
Left(q) == IF req[q].at = "find" THEN req[q].row.config ELSE req[q].todo

Whole(n) == runs[n] # None /\ n \notin broken =>
  /\ ~Filling(n) => jobs[n] = plan[n]
  /\ \A q \in Requests : req[q].run = n => jobs[n] \cup Left(q) = plan[n]

\* A run is filled by one request, from the config its row was created for; the process serves
\* once its triggers are in place.
WholeInv ==
  /\ api = "up" => "jobs_sync_pipeline_run_status" \in schema
  /\ \A n \in Runs : runs[n] # None => "jobs_sync_pipeline_run_status" \in schema
  /\ \A n \in Runs : plan[n] = None => runs[n] = None /\ ~Filling(n)
  /\ \A p, q \in Requests : req[p].run = req[q].run /\ req[p].run # None => p = q
  /\ \A n \in Runs : Whole(n)

LEMMA WholeInit == Init => WholeInv
<1> SUFFICES ASSUME Init PROVE WholeInv
  OBVIOUS
<1>1. \A n \in Runs : runs[n] = None
  BY DEF Init
<1>2. \A q \in Requests : req[q].run = None
  BY IdleOK DEF Init
<1>3. \A n \in Runs : ~Filling(n)
  BY <1>2, NotNone DEF Filling
<1> QED
  BY <1>1, <1>2, <1>3 DEF WholeInv, Whole, Init

LEMMA WholeStep == Typed /\ NoOrphans /\ LiveInv /\ WholeInv /\ [Next]_vars => WholeInv'
<1> SUFFICES ASSUME Typed, NoOrphans, LiveInv, WholeInv, [Next]_vars PROVE WholeInv'
  OBVIOUS
<1> USE DEF Typed, TypeOK
<1>0. ASSUME NEW q \in Requests PROVE req[q] \in Request /\ RequestOK(req[q])
  OBVIOUS
\* Requests that fill no run come and go.
<1>1. ASSUME NEW q \in Requests, UNCHANGED <<api, schema, runs, jobs, plan, broken>>,
             \A p \in Requests \ {q} : req'[p] = req[p], req[q].run = None, req'[q].run = None
      PROVE  WholeInv'
  <2>1. \A p \in Requests : req'[p].run = req[p].run /\ (req[p].run # None => Left(p)' = Left(p))
    BY <1>1 DEF Left
  <2>2. \A n \in Runs : Filling(n)' <=> Filling(n)
    BY <2>1 DEF Filling
  <2>3. ASSUME NEW n \in Runs PROVE Whole(n)'
    BY <1>1, <2>1, <2>2, <2>3, NotNone DEF Whole, WholeInv
  <2> QED
    BY <1>1, <2>1, <2>2, <2>3 DEF WholeInv
<1>2. ASSUME UNCHANGED <<runs, jobs, plan, broken, req>>, schema \subseteq schema',
             api' = "up" => "jobs_sync_pipeline_run_status" \in schema'
      PROVE  WholeInv'
  BY <1>2 DEF WholeInv, Whole, Filling, Left
\* Runs go with their pipeline, or requests with the process.
<1>3. ASSUME schema' = schema, api' \in {api, "down"}, plan' = plan,
             \A n \in Runs : \/ runs'[n] = None
                             \/ runs'[n] = runs[n] /\ jobs'[n] = jobs[n] /\ (n \in broken => n \in broken'),
             \/ req' = req
             \/ /\ \A q \in Requests : req'[q].run = None
                /\ \A n \in Runs : Filling(n) => n \in broken'
      PROVE  WholeInv'
  <2>1. CASE req' = req
    BY <1>3, <2>1 DEF WholeInv, Whole, Filling, Left
  <2>2. CASE /\ \A q \in Requests : req'[q].run = None
             /\ \A n \in Runs : Filling(n) => n \in broken'
    <3>1. \A n \in Runs : ~Filling(n)'
      BY <2>2, NotNone DEF Filling
    <3>2. ASSUME NEW n \in Runs PROVE Whole(n)'
      BY <1>3, <2>2, <3>1, NotNone DEF Whole, WholeInv
    <3> QED
      BY <1>3, <2>2, <3>1, <3>2 DEF WholeInv
  <2> QED
    BY <1>3, <2>1, <2>2
<1>4. CASE \/ SeedPipelinesIfEmpty \/ SeedPipeline \/ EnsurePipelineStatsMatView
           \/ EnsureSyncPipelineRunStatusTrigger \/ LockRowChanges
  BY <1>2, <1>4 DEF SeedPipelinesIfEmpty, SeedPipeline, EnsurePipelineStatsMatView, LockRowChanges,
     EnsureSyncPipelineRunStatusTrigger, tables, boot, history, WholeInv
<1>5. CASE Crash
  <2>1. \A q \in Requests : req'[q].run = None
    BY <1>5, IdleOK DEF Crash
  <2>2. \A n \in Runs : Filling(n) => n \in broken'
    BY <1>5, NotNone DEF Crash, Filling
  <2> QED
    BY <1>3, <1>5, <2>1, <2>2 DEF Crash, tables
<1>6. ASSUME NEW i \in Ids, Remove(i) PROVE WholeInv'
  BY <1>3, <1>6 DEF Remove, RunsOf, boot
<1>7. ASSUME NEW i \in Ids, NEW row \in Bodies \cap Pipeline, Create(i, row) PROVE WholeInv'
  BY <1>2, <1>7 DEF Create, boot, WholeInv
<1>9. ASSUME NEW q \in Requests, \/ \E i \in Ids : \E dto \in Bodies : Update(q, i, dto)
                                 \/ \E repo \in Repos : HandlePush(q, repo)
                                 \/ \E i \in Ids : Trigger(q, i)
      PROVE  WholeInv'
  <2>1. Arrives(q)
    BY <1>9, UpdateArrives, TriggerArrives
  <2>2. req[q].run = None
    <3>1. RequestOK(req[q])
      BY <1>0
    <3> QED
      BY <2>1, <3>1, IdleOK DEF Arrives, RequestOK
  <2> QED
    BY <1>1, <2>1, <2>2 DEF Arrives, boot, tables, history
<1>10. ASSUME NEW q \in Requests, UpdateReads(q) \/ SaveLoads(q) \/ Save(q) \/ TriggerRun(q)
       PROVE  WholeInv'
  <2>1. req[q].run = None
    BY <1>0, <1>10 DEF UpdateReads, SaveLoads, Save, TriggerRun, RequestOK
  <2>2. req'[q].run = None
    BY <1>10, <2>1, IdleOK DEF UpdateReads, SaveLoads, Save, TriggerRun, Ends, Request
  <2> QED
    BY <1>1, <1>10, <2>1, <2>2
       DEF UpdateReads, SaveLoads, Save, TriggerRun, Ends, boot, tables, history
<1>11. ASSUME NEW q \in Requests, CreatePipelineRun(q) PROVE WholeInv'
  <2>1. req[q].run = None /\ req[q].row \in Pipeline
    BY <1>0, <1>11 DEF CreatePipelineRun, RequestOK
  <2>2. CASE req[q].id \notin Existing
    BY <1>1, <1>11, <2>1, <2>2, IdleOK DEF CreatePipelineRun, Ends, boot
  <2>3. CASE req[q].id \in Existing
    <3>1. PICK n \in Runs : /\ plan[n] = None
                            /\ runs' = [runs EXCEPT ![n] = req[q].id]
                            /\ plan' = [plan EXCEPT ![n] = req[q].row.config]
                            /\ req' = [req EXCEPT ![q].at = "find", ![q].run = n]
      BY <1>11, <2>3 DEF CreatePipelineRun
    <3>2. /\ jobs[n] = {} /\ jobs' = jobs /\ broken' = broken /\ schema' = schema /\ api' = api
          /\ "jobs_sync_pipeline_run_status" \in schema
      BY <1>11, <3>1 DEF CreatePipelineRun, NoOrphans, WholeInv, LiveInv, boot
    <3>3. /\ req'[q].run = n /\ Left(q)' = req[q].row.config
          /\ \A p \in Requests \ {q} : req'[p] = req[p] /\ Left(p)' = Left(p) /\ req[p].run # n
      BY <3>1 DEF Request, Left, WholeInv, Filling
    <3>4. \A m \in Runs \ {n} : runs'[m] = runs[m] /\ plan'[m] = plan[m] /\ (Filling(m)' <=> Filling(m))
      BY <2>1, <3>1, <3>3, NotNone DEF Filling
    <3>5. Filling(n)' /\ plan'[n] = req[q].row.config /\ plan'[n] # None
      BY <2>1, <3>1, <3>3, NotNone DEF Filling, Pipeline
    <3>6. Whole(n)'
      BY <3>2, <3>3, <3>5 DEF Whole
    <3>7. ASSUME NEW m \in Runs \ {n} PROVE Whole(m)'
      BY <3>2, <3>3, <3>4 DEF Whole, WholeInv
    <3>8. \A a, b \in Requests : req'[a].run = req'[b].run /\ req'[a].run # None => a = b
      BY <3>3 DEF WholeInv
    <3> QED
      BY <3>2, <3>4, <3>5, <3>6, <3>7, <3>8 DEF WholeInv
  <2> QED
    BY <2>2, <2>3
\* A request that fills a run goes on, or ends with nothing left to insert.
<1>12. ASSUME NEW q \in Requests, NEW n \in Runs, req[q].run = n,
              UNCHANGED <<api, schema, plan, runs>>, broken \subseteq broken',
              \A p \in Requests \ {q} : req'[p] = req[p],
              \A m \in Runs \ {n} : jobs'[m] = jobs[m] /\ (m \in broken' => m \in broken),
              \/ /\ req'[q].run = n
                 /\ runs[n] # None /\ n \notin broken' => jobs'[n] \cup Left(q)' = plan[n]
              \/ /\ req'[q].run = None
                 /\ runs[n] # None /\ n \notin broken' => jobs'[n] = plan[n]
       PROVE  WholeInv'
  <2>1. \A p \in Requests \ {q} : req[p].run # n /\ req'[p].run = req[p].run /\ Left(p)' = Left(p)
    BY <1>12, NotNone DEF WholeInv, Left
  <2>2. \A m \in Runs \ {n} : Filling(m)' <=> Filling(m)
    BY <1>12, <2>1, NotNone DEF Filling
  <2>3. Filling(n) /\ (Filling(n)' <=> req'[q].run = n)
    BY <1>12, <2>1 DEF Filling
  <2>4. ASSUME NEW m \in Runs \ {n} PROVE Whole(m)'
    BY <1>12, <2>1, <2>2, NotNone DEF Whole, WholeInv
  <2>5. Whole(n)'
    BY <1>12, <2>1, <2>3, NotNone DEF Whole
  <2>6. \A a, b \in Requests : req'[a].run = req'[b].run /\ req'[a].run # None => a = b
    BY <1>12, <2>1 DEF WholeInv
  <2> QED
    BY <1>12, <2>2, <2>3, <2>4, <2>5, <2>6 DEF WholeInv
<1>13. ASSUME NEW q \in Requests, req[q].at \in {"find", "insert"}
       PROVE  /\ req[q].run \in Runs
              /\ runs[req[q].run] # None /\ req[q].run \notin broken =>
                   jobs[req[q].run] \cup Left(q) = plan[req[q].run]
  <2>1. req[q].run \in Runs
    BY <1>0, <1>13 DEF RequestOK, Request
  <2> QED
    BY <2>1 DEF WholeInv, Whole
<1>14. ASSUME NEW q \in Requests, FindRun(q) PROVE WholeInv'
  <2> DEFINE n == req[q].run
  <2>1. /\ n \in Runs /\ Left(q) = req[q].row.config
        /\ runs[n] # None /\ n \notin broken => jobs[n] \cup Left(q) = plan[n]
    BY <1>13, <1>14 DEF FindRun, Left
  <2>2. CASE runs[n] = None \/ req[q].row.config = {}
    <3>1. req' = [req EXCEPT ![q] = Idle]
      BY <1>14, <2>2 DEF FindRun, Ends
    <3>2. ASSUME runs[n] # None, n \notin broken PROVE jobs[n] = plan[n]
      <4>1. Left(q) = {}
        BY <2>1, <2>2, <3>2
      <4>2. jobs[n] \cup {} = plan[n]
        BY <2>1, <3>2, <4>1
      <4> QED
        BY <4>2
    <3>3. /\ UNCHANGED <<api, schema, plan, runs, jobs>>
          /\ broken \subseteq broken' /\ broken' \subseteq broken \cup {n}
      BY <1>14 DEF FindRun, boot, tables
    <3> HIDE DEF n
    <3> QED
      BY <1>12, <2>1, <3>1, <3>2, <3>3, IdleOK DEF n
  <2>3. CASE ~(runs[n] = None \/ req[q].row.config = {})
    <3>1. req'[q].run = n /\ Left(q)' = Left(q)
      BY <1>0, <1>14, <2>1, <2>3 DEF FindRun, Left, Request
    <3> QED
      BY <1>12, <1>14, <2>1, <2>3, <3>1 DEF FindRun, boot, tables
  <2> QED
    BY <2>2, <2>3
<1>15. ASSUME NEW q \in Requests, NEW s, Settle(q, s), req[q].at = "insert"
       PROVE  /\ \A p \in Requests \ {q} : req'[p] = req[p]
              /\ \/ req'[q].run = None /\ Left(q) = {s}
                 \/ req'[q].run = req[q].run /\ Left(q)' = Left(q) \ {s}
  <2>1. CASE req[q].todo = {s}
    BY <1>15, <2>1, IdleOK DEF Settle, Ends, Left
  <2>2. CASE req[q].todo # {s}
    BY <1>0, <1>15, <2>2 DEF Settle, Left, Request
  <2> QED
    BY <2>1, <2>2
<1>16. ASSUME NEW q \in Requests, NEW s \in Steps, InsertNewJob(q, s) PROVE WholeInv'
  <2> DEFINE n == req[q].run
  <2>1. /\ n \in Runs /\ s \in Left(q)
        /\ runs[n] # None /\ n \notin broken => jobs[n] \cup Left(q) = plan[n]
    BY <1>13, <1>16 DEF InsertNewJob, Left
  <2>2. /\ \A m \in Runs \ {n} : jobs'[m] = jobs[m]
        /\ runs[n] # None => jobs'[n] = jobs[n] \cup {s}
    BY <1>16, <2>1 DEF InsertNewJob
  <2>3. /\ \A p \in Requests \ {q} : req'[p] = req[p]
        /\ \/ req'[q].run = None /\ Left(q) = {s}
           \/ req'[q].run = n /\ Left(q)' = Left(q) \ {s}
    BY <1>15, <1>16 DEF InsertNewJob
  <2>4. UNCHANGED <<api, schema, plan, runs, broken>>
    BY <1>16 DEF InsertNewJob, boot, history
  <2> HIDE DEF n
  <2>5. \/ /\ req'[q].run = n
           /\ runs[n] # None /\ n \notin broken' => jobs'[n] \cup Left(q)' = plan[n]
        \/ /\ req'[q].run = None
           /\ runs[n] # None /\ n \notin broken' => jobs'[n] = plan[n]
    BY <2>1, <2>2, <2>3, <2>4
  <2> QED
    BY <1>12, <2>1, <2>2, <2>3, <2>4, <2>5 DEF n
<1>17. ASSUME NEW q \in Requests, QueryFails(q) PROVE WholeInv'
  <2>1. CASE req[q].at \in {"find", "insert"}
    <3> DEFINE n == req[q].run
    <3>1. n \in Runs /\ n \in broken' /\ broken' = broken \cup {n}
      BY <1>13, <1>17, <2>1, NotNone DEF QueryFails
    <3>2. /\ \A p \in Requests \ {q} : req'[p] = req[p]
          /\ req'[q].run \in {n, None}
      BY <1>15, <1>17, <2>1, IdleOK DEF QueryFails, Ends
    <3> QED
      BY <1>12, <1>17, <3>1, <3>2 DEF QueryFails, boot, tables
  <2>2. CASE req[q].at \notin {"find", "insert"}
    <3>1. req[q].run = None
      BY <1>0, <2>2 DEF RequestOK
    <3> QED
      BY <1>1, <1>17, <2>2, <3>1, IdleOK DEF QueryFails, Ends, boot, tables
  <2> QED
    BY <2>1, <2>2
<1>18. ASSUME NEW q \in Requests, CreateReplyLost(q) PROVE WholeInv'
  <2>1. req[q].run = None /\ req[q].row \in Pipeline
    BY <1>0, <1>18 DEF CreateReplyLost, RequestOK
  <2>2. PICK n \in Runs : /\ plan[n] = None
                          /\ runs' = [runs EXCEPT ![n] = req[q].id]
                          /\ plan' = [plan EXCEPT ![n] = req[q].row.config]
                          /\ broken' = broken \cup {n}
    BY <1>18 DEF CreateReplyLost
  <2>3. /\ jobs' = jobs /\ schema' = schema /\ api' = api
        /\ "jobs_sync_pipeline_run_status" \in schema
    BY <1>18 DEF CreateReplyLost, WholeInv, LiveInv, boot
  <2>4. /\ req'[q].run = None
        /\ \A p \in Requests \ {q} : req'[p] = req[p]
    BY <1>18, IdleOK DEF CreateReplyLost, Ends
  <2>5. \A p \in Requests : req'[p].run = req[p].run /\ (req[p].run # None => Left(p)' = Left(p))
    BY <2>1, <2>4 DEF Left
  <2>6. \A m \in Runs : Filling(m)' <=> Filling(m)
    BY <2>5 DEF Filling
  <2>7. plan'[n] # None /\ n \in broken'
    BY <2>1, <2>2, NotNone DEF Pipeline
  <2>8. ASSUME NEW m \in Runs PROVE Whole(m)'
    BY <2>2, <2>3, <2>5, <2>6, <2>7, NotNone DEF Whole, WholeInv
  <2> QED
    BY <2>2, <2>3, <2>5, <2>6, <2>7, <2>8 DEF WholeInv
<1>19. CASE UNCHANGED vars
  BY <1>2, <1>19 DEF vars, boot, tables, history, WholeInv
<1> QED
  BY <1>4, <1>5, <1>6, <1>7, <1>9, <1>10, <1>11, <1>14, <1>16, <1>17, <1>18, <1>19, StepCases

\* A run no failure cut short has the jobs of the config its pipeline had when it was triggered,
\* whatever is updated or removed meanwhile, for any number of requests.
THEOREM RunsAreWhole == Spec => []RunsWhole
<1>1. Init => Typed /\ NoOrphans /\ LiveInv /\ WholeInv
  BY TypedInit, OrphansInit, LiveInit, WholeInit
<1>2. Typed /\ NoOrphans /\ LiveInv /\ WholeInv /\ [Next]_vars =>
        Typed' /\ NoOrphans' /\ LiveInv' /\ WholeInv'
  BY TypedStep, OrphansStep, LiveStep, WholeStep
<1>3. WholeInv => RunsWhole
  BY DEF WholeInv, Whole, RunsWhole
<1> QED
  BY <1>1, <1>2, <1>3, PTL DEF Spec

-----------------------------------------------------------------------------
(* A PATCH keeps the columns it does not name *)

\* What an update that nobody crossed holds is its body over the row as it is, or as it was when
\* save loaded it.
Keeps(q) ==
  LET r == req[q] IN
  /\ r.at = "load" => pipelines[r.id] # None /\ r.row = Merged(pipelines[r.id], r.dto)
  /\ r.at = "save" => r.loaded # None /\ r.row = Merged(r.loaded, r.dto)

KeepInv == \A q \in Requests \ crossed : Keeps(q)

LEMMA KeepInit == Init => KeepInv
  BY IdleOK DEF Init, KeepInv, Keeps

LEMMA KeepStep == Typed /\ LiveInv /\ KeepInv /\ [Next]_vars => KeepInv'
<1> SUFFICES ASSUME Typed, LiveInv, KeepInv, [Next]_vars PROVE KeepInv'
  OBVIOUS
<1> USE DEF Typed, TypeOK
<1>0. ASSUME NEW q \in Requests PROVE req[q] \in Request /\ RequestOK(req[q])
  OBVIOUS
\* Nothing changes but one request, which does not come to "load" or "save".
<1>1. ASSUME NEW q \in Requests, pipelines' = pipelines, crossed \ {q} \subseteq crossed',
             \A p \in Requests \ {q} : req'[p] = req[p], req'[q].at \notin {"load", "save"}
      PROVE  KeepInv'
  BY <1>1 DEF KeepInv, Keeps
\* Row i is written: whoever has read it and not yet loaded it is crossed.
<1>2. ASSUME NEW i \in Ids, \A k \in Ids \ {i} : pipelines'[k] = pipelines[k],
             \A p \in Requests : p \notin crossed' =>
               \/ req'[p].at \notin {"load", "save"}
               \/ req'[p] = req[p] /\ p \notin crossed /\ p \notin Between(i)
      PROVE  KeepInv'
  <2>1. ASSUME NEW p \in Requests, p \notin crossed', req'[p].at \in {"load", "save"} PROVE Keeps(p)'
    BY <1>0, <1>2, <2>1 DEF KeepInv, Keeps, Between, RequestOK
  <2> QED
    BY <2>1 DEF KeepInv, Keeps
<1>3. CASE UNCHANGED <<pipelines, req, crossed>>
  BY <1>3 DEF KeepInv, Keeps
<1>4. CASE \/ SeedPipelinesIfEmpty \/ EnsurePipelineStatsMatView
           \/ EnsureSyncPipelineRunStatusTrigger \/ LockRowChanges
  BY <1>3, <1>4 DEF SeedPipelinesIfEmpty, EnsurePipelineStatsMatView, LockRowChanges,
     EnsureSyncPipelineRunStatusTrigger, tables, boot, history
<1>5. CASE SeedPipeline \/ Crash
  <2>1. \A q \in Requests : req'[q].at = "idle"
    BY <1>5, IdleOK DEF SeedPipeline, Crash, LiveInv
  <2> QED
    BY <2>1 DEF KeepInv, Keeps
<1>6. ASSUME NEW i \in Ids, Remove(i) PROVE KeepInv'
  BY <1>2, <1>6 DEF Remove
<1>7. ASSUME NEW i \in Ids, NEW row \in Bodies \cap Pipeline, Create(i, row) PROVE KeepInv'
  <2>1. \A q \in Requests : req[q].at \in {"load", "save"} => req[q].id # i
    BY <1>7 DEF Create, LiveInv, Live
  <2> QED
    BY <1>2, <1>7, <2>1 DEF Create, Between, KeepInv, Keeps
<1>9. ASSUME NEW q \in Requests, \/ \E i \in Ids : \E dto \in Bodies : Update(q, i, dto)
                                 \/ \E repo \in Repos : HandlePush(q, repo)
                                 \/ \E i \in Ids : Trigger(q, i)
      PROVE  KeepInv'
  <2>1. Arrives(q)
    BY <1>9, UpdateArrives, TriggerArrives
  <2> QED
    BY <1>1, <2>1 DEF Arrives, tables, history
<1>10. ASSUME NEW q \in Requests, UpdateReads(q) PROVE KeepInv'
  <2>1. CASE req[q].id \in Existing
    <3>1. /\ \A p \in Requests \ {q} : req'[p] = req[p]
          /\ req'[q].at = "load" /\ req'[q].id = req[q].id /\ req'[q].dto = req[q].dto
          /\ req'[q].row = Merged(pipelines[req[q].id], req[q].dto)
      BY <1>0, <1>10, <2>1 DEF UpdateReads, Request
    <3>2. Keeps(q)'
      BY <1>10, <2>1, <3>1 DEF UpdateReads, Existing, Keeps, Merged, tables
    <3> QED
      BY <1>10, <3>1, <3>2 DEF UpdateReads, KeepInv, Keeps, tables, history
  <2>2. CASE req[q].id \notin Existing
    BY <1>1, <1>10, <2>2, IdleOK DEF UpdateReads, Ends, tables, history
  <2> QED
    BY <2>1, <2>2
<1>11. ASSUME NEW q \in Requests, SaveLoads(q) PROVE KeepInv'
  <2>1. /\ \A p \in Requests \ {q} : req'[p] = req[p]
        /\ req'[q].at = "save" /\ req'[q].id = req[q].id /\ req'[q].dto = req[q].dto
        /\ req'[q].row = req[q].row /\ req'[q].loaded = pipelines[req[q].id]
    BY <1>0, <1>11 DEF SaveLoads, Request
  <2>2. ASSUME q \notin crossed PROVE Keeps(q)'
    <3>1. req[q].at = "load" => /\ pipelines[req[q].id] # None
                               /\ req[q].row = Merged(pipelines[req[q].id], req[q].dto)
      BY <2>2 DEF KeepInv, Keeps
    <3>2. req[q].at = "load" /\ Keeps(q)' = (req'[q].loaded # None /\ req'[q].row = Merged(req'[q].loaded, req'[q].dto))
      BY <1>11, <2>1 DEF SaveLoads, Keeps, Merged
    <3> QED
      BY <2>1, <3>1, <3>2
  <2> QED
    BY <1>11, <2>1, <2>2 DEF SaveLoads, KeepInv, Keeps, tables, history
<1>12. ASSUME NEW q \in Requests, Save(q) PROVE KeepInv'
  <2>1. \A p \in Requests \ {q} : req'[p] = req[p]
    BY <1>12 DEF Save, Ends
  <2>2. req'[q].at = "idle"
    BY <1>12, IdleOK DEF Save, Ends
  <2>3. CASE pipelines' = pipelines
    BY <1>1, <1>12, <2>1, <2>2, <2>3 DEF Save
  <2>4. CASE pipelines' # pipelines
    <3>1. req[q].id \in Ids /\ \A k \in Ids \ {req[q].id} : pipelines'[k] = pipelines[k]
      BY <1>0, <1>12 DEF Save, RequestOK
    <3>2. crossed' = (crossed \cup Between(req[q].id)) \ {q}
      BY <1>12, <2>4 DEF Save
    <3> QED
      BY <1>2, <2>1, <2>2, <3>1, <3>2
  <2> QED
    BY <2>3, <2>4
<1>13. ASSUME NEW q \in Requests, \/ TriggerRun(q) \/ CreatePipelineRun(q) \/ FindRun(q)
                                  \/ CreateReplyLost(q)
                                  \/ \E s \in Steps : InsertNewJob(q, s)
                                  \/ QueryFails(q)
       PROVE  KeepInv'
  <2>1. \A p \in Requests \ {q} : req'[p] = req[p]
    BY <1>13 DEF TriggerRun, CreatePipelineRun, CreateReplyLost, FindRun, InsertNewJob, QueryFails, Settle, Ends
  <2>2. req'[q].at \notin {"load", "save"}
    BY <1>0, <1>13, IdleOK
       DEF TriggerRun, CreatePipelineRun, CreateReplyLost, FindRun, InsertNewJob, QueryFails, Settle, Ends, Request
  <2>3. pipelines' = pipelines /\ crossed \ {q} \subseteq crossed'
    BY <1>13 DEF TriggerRun, CreatePipelineRun, CreateReplyLost, FindRun, InsertNewJob, QueryFails, tables, history
  <2> QED
    BY <1>1, <2>1, <2>2, <2>3
<1>14. CASE UNCHANGED vars
  BY <1>3, <1>14 DEF vars, tables, history
<1> QED
  BY <1>4, <1>5, <1>6, <1>7, <1>9, <1>10, <1>11, <1>12, <1>13, <1>14, StepCases

LEMMA SaveKeeps ==
  ASSUME Typed, KeepInv, NEW q \in Requests, Save(q), pipelines' # pipelines, q \notin crossed
  PROVE  LET i == req[q].id IN
         /\ i \in Existing
         /\ req[q].dto.repository = None => pipelines'[i].repository = pipelines[i].repository
         /\ req[q].dto.config = None => pipelines'[i].config = pipelines[i].config
<1> DEFINE r == req[q]
           row == pipelines[r.id]
<1>1. /\ r \in Request /\ RequestOK(r) /\ r.at = "save" /\ r.id \in Ids
      /\ r.loaded # None /\ r.row = Merged(r.loaded, r.dto)
  BY DEF Typed, TypeOK, RequestOK, Save, KeepInv, Keeps
<1>2. row # None
  BY <1>1 DEF Save, Typed, TypeOK
<1>3. pipelines'[r.id] = Written(row, r.loaded, Merged(r.loaded, r.dto))
  BY <1>1, <1>2 DEF Save, Typed, TypeOK
<1> QED
  BY <1>1, <1>2, <1>3 DEF Written, Merged, Given, Existing

\* An update changes the columns of its body only and brings no removed pipeline back, unless the
\* row was written or removed between its two SELECTs; for any number of requests.
THEOREM UpdatesKeepOthers == Spec => UpdateKeepsOthers
<1>1. Init => Typed /\ LiveInv /\ KeepInv
  BY TypedInit, LiveInit, KeepInit
<1>2. Typed /\ LiveInv /\ KeepInv /\ [Next]_vars => Typed' /\ LiveInv' /\ KeepInv'
  BY TypedStep, LiveStep, KeepStep
<1>3. Typed /\ KeepInv /\ [Next]_vars =>
        [\A q \in Requests : req[q].at = "save" /\ pipelines' # pipelines /\ Save(q) =>
           \/ q \in crossed
           \/ LET i == req[q].id IN
              /\ i \in Existing
              /\ req[q].dto.repository = None => pipelines'[i].repository = pipelines[i].repository
              /\ req[q].dto.config = None => pipelines'[i].config = pipelines[i].config]_vars
  BY SaveKeeps
<1> QED
  BY <1>1, <1>2, <1>3, PTL DEF Spec, UpdateKeepsOthers
=============================================================================
