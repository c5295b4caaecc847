SPECIFICATION Spec
CONSTANTS
  w1 = w1
  Workers <- MCWorkers
  Nobody = Nobody
  Jobs <- ThreeJobs
  Runs <- MCRuns
  RunOf <- ThreeRunOf
  StageOrder <- ThreeStage
  StepOrder <- ThreeStep
  Priority <- ThreePriority
  MaxRetries = 2
CHECK_DEADLOCK FALSE
CONSTRAINT RacedOrLate
INVARIANT TypeOK
INVARIANT RunFollowsJobs
INVARIANT StartNoted
INVARIANT FailureIsReal
PROPERTY VerdictFinal
PROPERTY ImplementsRunLifecycle
