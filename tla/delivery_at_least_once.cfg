\* One worker that crashes after the background commit.
CONSTANTS
    Workers = {w1, w2}
    Images = {i1}
    None = None
    MaxRetries = 1
    ReplayLimit = 1
    MaxForeign = 0
    MaxCrashes = 1
    MaxMoves = 0
    MaxReplays = 0
SPECIFICATION Spec
INVARIANTS
    AtLeastOnce
CHECK_DEADLOCK FALSE
