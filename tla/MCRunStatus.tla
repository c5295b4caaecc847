---------------------------- MODULE MCRunStatus -----------------------------
(***************************************************************************)
(* Small instances of RunStatus: one run of two or three steps.            *)
(***************************************************************************)
EXTENDS RunStatus

CONSTANT w1

MCWorkers == {w1}
MCRuns == {"r"}

TwoJobs == {1, 2}
TwoRunOf == [j \in TwoJobs |-> "r"]
TwoStage == [j \in TwoJobs |-> 0]
TwoStep == [j \in TwoJobs |-> j]
TwoPriority == [j \in TwoJobs |-> 5]

ThreeJobs == {1, 2, 3}
ThreeRunOf == [j \in ThreeJobs |-> "r"]
ThreeStage == [j \in ThreeJobs |-> j \div 3]
ThreeStep == [j \in ThreeJobs |-> j % 2]
ThreePriority == [j \in ThreeJobs |-> 5]

\* Bound: once one history variable is set, the other is not followed further.
RacedOrLate == ~(raced /\ late)
=============================================================================
