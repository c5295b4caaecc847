---------------------------- MODULE MCDeployLock ----------------------------
(***************************************************************************)
(* A small instance of DeployLock: two workers and two deploys to the same *)
(* environment, each tried twice.                                          *)
(***************************************************************************)
EXTENDS DeployLock

CONSTANTS w1, w2

MCWorkers == {w1, w2}
MCRuns == {"r1", "r2"}
MCEnvs == {"production"}

TwoJobs == {"p1", "p2"}
TwoRunOf == [j \in TwoJobs |-> IF j = "p1" THEN "r1" ELSE "r2"]
TwoEnvOf == [j \in TwoJobs |-> "production"]
TwoZero == [j \in TwoJobs |-> 0]
=============================================================================
