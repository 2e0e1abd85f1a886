\* Two workers share the partition: one crash and two rebalances, evictions or stops; no symmetry under liveness.
CONSTANTS
    Workers = {w1, w2}
    Images = {i1}
    None = None
    MaxRetries = 1
    ReplayLimit = 1
    MaxForeign = 0
    MaxCrashes = 1
    MaxMoves = 2
    MaxReplays = 0
SPECIFICATION FairSpec
INVARIANTS
    TaskAccounted
    RetryChain
PROPERTIES
    TaskSettles
CHECK_DEADLOCK FALSE
