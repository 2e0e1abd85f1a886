\* Two requests, either of which may be cancelled.
CONSTANTS
    Requests = {r1, r2}
    Clients = {c1}
    Images = {i1}
    AuthEnabled = FALSE
    Buckets <- MCBuckets
    MaxRequests <- MCMaxRequests
    Window <- MCWindow
    Values <- MCValues
    Ttl = 1
    MaxSize = 1
    None = None
    MaxTime = 0
    MaxForeign = 0
SPECIFICATION Spec
SYMMETRY Symmetry
INVARIANTS
    GaugeCountsInFlight
CHECK_DEADLOCK FALSE
