SPECIFICATION Spec
CONSTANTS
    a = a
    b = b
    c = c
    p1 = p1
    p2 = p2
    Invocations <- Three
    Pids <- TwoPids
    Files = 2
SYMMETRY Sym
CHECK_DEADLOCK FALSE
INVARIANTS
    ManifestMeansComplete SuccessMeansUsable
    UnfinishedNeedsLostPublisher LateInvocationReuses
PROPERTY PublishedNeverChanges
