SPECIFICATION Spec
CONSTANTS
  w1 = w1
  w2 = w2
  Nobody = Nobody
  NoJob = NoJob
  Workers <- MCWorkers
  Jobs <- OneRunJobs
  Runs <- OneRun
  RunOf <- OneRunOf
  StageOrder <- OneRunStage
  StepOrder <- OneRunStep
  Priority <- OneRunPriority
  MaxRetries = 2
  Timely = TRUE
  RowResult = FALSE
INVARIANT ClaimsAreJobs
