CONSTANTS
  Req = {r1, r2, r3}
  Shapes <- PrefillShapes
  Chunks <- WholePrompt
  MaxBatch = 2
  MaxRunning = 2
  MaxSteps = 2
  Capacity = 5
  GenLimit = 9
  ReuseIds = FALSE
  MidStepAbort = FALSE
  Junk = Junk
  Deployments <- SidecarDeployments
  Faulty = FALSE
SPECIFICATION FairSysSpec
CHECK_DEADLOCK FALSE
INVARIANT EngineSurvives
PROPERTY EveryoneServed
