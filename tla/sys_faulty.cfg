CONSTANTS
  Req = {r1, r2, r3}
  Shapes <- AnyShapes
  Chunks <- WholePrompt
  MaxBatch = 2
  MaxRunning = 2
  MaxSteps = 2
  Capacity = 4
  GenLimit = 4
  ReuseIds = FALSE
  MidStepAbort = TRUE
  Junk = Junk
  Deployments <- AllDeployments
  Faulty = TRUE
SPECIFICATION SysSpec
CHECK_DEADLOCK FALSE
SYMMETRY Symmetry
INVARIANTS OutputsRight DeviceInSync NoDoubleAdvance DedicatedServesEnvelope
PROPERTY ImplementsService
