CONSTANTS
  Req = {r1, r2}
  Shapes <- AnyShapes
  Chunks <- WholePrompt
  MaxBatch = 2
  MaxRunning = 2
  MaxSteps = 2
  Capacity = 3
  GenLimit = 9
  ReuseIds = FALSE
  MidStepAbort = FALSE
SPECIFICATION Spec
CHECK_DEADLOCK FALSE
INVARIANT NeverRefuses
