\* Two requests of one client, a limit of one upload, a cache with one place and a TTL of one unit, one foreign write.
CONSTANTS
    Requests = {r1, r2}
    Clients = {c1}
    Images = {i1, i2}
    AuthEnabled = TRUE
    Buckets <- MCBuckets
    MaxRequests <- MCMaxRequests
    Window <- MCWindow
    Values <- MCValues
    Ttl = 1
    MaxSize = 1
    None = None
    MaxTime = 2
    MaxForeign = 1
SPECIFICATION Spec
SYMMETRY Symmetry
INVARIANTS
    WindowBound
    CacheBound
    BoundedStaleness
    CoherentUnlessOvertaken
    MetricsUnlessCancelled
CHECK_DEADLOCK FALSE
