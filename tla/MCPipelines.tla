---------------------------- MODULE MCPipelines -----------------------------
(***************************************************************************)
(* A small instance of Pipelines: two uuids, for the two seeds or for one  *)
(* seed and a created pipeline; two runs, two requests at a time, a body   *)
(* of one column and one of both.  Their config is malformed, with one     *)
(* step before the stage that has none.                                    *)
(***************************************************************************)
EXTENDS Pipelines, TLC

CONSTANTS i1, i2, r1, r2, q1, q2, x, y, s1, s2, s3, s4

MCIds == {i1, i2}
MCRuns == {r1, r2}
MCRequests == {q1, q2}
MCRepos == {x, y}
MCConfigs == {{s1, s2}, {s3}, {s4}}
MCSteps == {s1, s2, s3, s4}
MCMalformed == {{s4}}
MCSeeds == <<[repository |-> x, config |-> {s1, s2}], [repository |-> y, config |-> {s3}]>>
MCBodies == {[repository |-> None, config |-> {s4}], [repository |-> y, config |-> {s4}]}

Symmetric ==
  Permutations(MCIds) \cup Permutations(MCRuns) \cup Permutations(MCRequests) \cup Permutations({s1, s2})
=============================================================================
