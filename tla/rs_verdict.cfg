SPECIFICATION Spec
CONSTANTS
  w1 = w1
  Workers <- MCWorkers
  Nobody = Nobody
  Jobs <- TwoJobs
  Runs <- MCRuns
  RunOf <- TwoRunOf
  StageOrder <- TwoStage
  StepOrder <- TwoStep
  Priority <- TwoPriority
  MaxRetries = 1
CHECK_DEADLOCK FALSE
INVARIANT SuccessIsReal
