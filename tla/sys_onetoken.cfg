CONSTANTS
  Req = {r1, r2, r3}
  Shapes <- MixedShapes
  Chunks <- WholePrompt
  MaxBatch = 2
  MaxRunning = 2
  MaxSteps = 2
  Capacity = 4
  GenLimit = 9
  ReuseIds = FALSE
  MidStepAbort = FALSE
  Junk = Junk
  Deployments <- PluginDeployment
  Faulty = FALSE
SPECIFICATION SysSpec
CHECK_DEADLOCK FALSE
INVARIANT NeverDiscontinuous
