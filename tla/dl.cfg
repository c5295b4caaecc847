SPECIFICATION FairSpec
CONSTANTS
  w1 = w1
  w2 = w2
  Workers <- MCWorkers
  Nobody = Nobody
  NoJob = NoJob
  NoRun = NoRun
  Jobs <- TwoJobs
  Runs <- MCRuns
  RunOf <- TwoRunOf
  Envs <- MCEnvs
  EnvOf <- TwoEnvOf
  StageOrder <- TwoZero
  StepOrder <- TwoZero
  Priority <- TwoZero
  MaxRetries = 2
INVARIANT TypeOK
INVARIANT OneDeploy
INVARIANT HolderShown
INVARIANT SuccessWasDeployed
INVARIANT LeaksInReach
PROPERTY LocksFreed
