CONSTANTS
  MaxSidecars = 2
  MaxCalls = 3
SPECIFICATION FairLifeSpec
CHECK_DEADLOCK FALSE
INVARIANTS OneSidecar AnswersMatch SnapshotThere CleanShutdown ExportsOutliveImports
PROPERTIES CloseEnds SidecarFollows
