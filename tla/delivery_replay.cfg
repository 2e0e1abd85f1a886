\* One worker, malformed messages, two runs of the replay job.
CONSTANTS
    Workers = {w1}
    Images = {i1}
    None = None
    MaxRetries = 0
    ReplayLimit = 2
    MaxForeign = 1
    MaxCrashes = 0
    MaxMoves = 0
    MaxReplays = 2
SPECIFICATION Spec
SYMMETRY Symmetry
INVARIANTS
    CommittedIsReplayed
    ReplayWithinLimit
CHECK_DEADLOCK FALSE
