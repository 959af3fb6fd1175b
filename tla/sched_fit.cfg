CONSTANTS
  Req = {r1, r2, r3}
  Shapes <- FitShapes
  Chunks <- BothChunks
  MaxBatch = 2
  MaxRunning = 2
  MaxSteps = 2
  Capacity = 3
  GenLimit = 3
  ReuseIds = FALSE
  MidStepAbort = TRUE
SPECIFICATION Spec
CHECK_DEADLOCK FALSE
INVARIANTS TypeOK LeaseSafety SanityChecksHold AccountingExact NeverRefuses
PROPERTIES RowReuseIsNewer LeaseStable DeviceOwnedAdvancesOnDevice
