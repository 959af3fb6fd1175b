CONSTANTS
  Req = {r1, r2, r3}
  Shapes <- GrammarShapes
  Chunks <- WholePrompt
  MaxBatch = 2
  MaxRunning = 2
  MaxSteps = 2
  Capacity = 3
  GenLimit = 9
  ReuseIds = FALSE
  MidStepAbort = FALSE
SPECIFICATION FairSpec
CHECK_DEADLOCK FALSE
PROPERTY EventuallyServed
