SPECIFICATION Spec
CONSTANTS
  i1 = i1
  i2 = i2
  r1 = r1
  r2 = r2
  q1 = q1
  q2 = q2
  x = x
  y = y
  s1 = s1
  s2 = s2
  s3 = s3
  s4 = s4
  Ids <- MCIds
  Runs <- MCRuns
  Requests <- MCRequests
  Repos <- MCRepos
  Configs <- MCConfigs
  Steps <- MCSteps
  Malformed <- MCMalformed
  Seeds <- MCSeeds
  Bodies <- MCBodies
  None = None
SYMMETRY Symmetric
INVARIANT TypeOK
INVARIANT RunsWhole
INVARIANT SeedsDistinct
PROPERTY UpdateKeepsOthers
