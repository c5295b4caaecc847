SPECIFICATION Spec
CONSTANTS
  w1 = w1
  w2 = w2
  Nobody = Nobody
  NoJob = NoJob
  Workers <- MCWorkers
  Jobs <- MCJobs
  Runs <- MCRuns
  RunOf <- MCRunOf
  StageOrder <- MCStageOrder
  StepOrder <- MCStepOrder
  Priority <- MCPriority
  MaxRetries = 2
  Timely = TRUE
  RowResult = TRUE
SYMMETRY WorkerSymmetry
CONSTRAINT BeatsOfFirst
INVARIANT ExclusiveExecution
INVARIANT RetryAccounting
INVARIANT StepOrderKept
PROPERTY TerminalFinal
PROPERTY ImplementsLifecycle
