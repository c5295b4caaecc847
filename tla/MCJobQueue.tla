----------------------------- MODULE MCJobQueue -----------------------------
(***************************************************************************)
(* Small instances of JobQueue.                                            *)
(***************************************************************************)
EXTENDS JobQueue, TLC

CONSTANTS w1, w2

MCWorkers == {w1, w2}

\* Run a has one step; run b has two stages of one step, the second of them
\* more urgent than the rest.
MCJobs == {"a1", "b1", "b2"}
MCRuns == {"a", "b"}
MCRunOf == [j \in MCJobs |-> IF j = "a1" THEN "a" ELSE "b"]
MCStageOrder == [j \in MCJobs |-> IF j = "b2" THEN 1 ELSE 0]
MCStepOrder == [j \in MCJobs |-> 0]
MCPriority == [j \in MCJobs |-> IF j = "b2" THEN 9 ELSE 5]

\* One run of two steps of one stage.
OneRunJobs == {"a1", "a2"}
OneRun == {"a"}
OneRunOf == [j \in OneRunJobs |-> "a"]
OneRunStage == [j \in OneRunJobs |-> 0]
OneRunStep == [j \in OneRunJobs |-> IF j = "a1" THEN 0 ELSE 1]
OneRunPriority == [j \in OneRunJobs |-> IF j = "a1" THEN 5 ELSE 8]

\* A bound: of the jobs of both runs only b1 sends heartbeats.
BeatsOfFirst == beats \subseteq {"b1"}

\* Workers are interchangeable.
WorkerSymmetry == Permutations(MCWorkers)
=============================================================================
