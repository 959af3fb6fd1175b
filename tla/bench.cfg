SPECIFICATION BenchSpec
CONSTANTS
    HeadLimit = 1
    TailLimit = 3
    ChunkLimit = 3
    MaxEvents = 2
    MaxBytes = 6
    Rejections = {"none"}
    Imported = {TRUE}
CHECK_DEADLOCK FALSE
INVARIANTS
    LogExact ReplayExact PassIsComplete ProfileAccountedFor
PROPERTY RunnerEnds
