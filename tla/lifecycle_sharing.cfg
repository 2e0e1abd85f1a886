\* Two images with equal or different payloads, one of them with a TTL, two runs or downloads, one failing call and one crash.
CONSTANTS
    Images = {i1, i2}
    Payloads = {c1, c2}
    ThumbPath <- OwnThumb
    Procs = {p1}
    Runs = {r1, r2}
    Kinds = {"process", "original", "thumbnail"}
    WithTtl = {i1}
    None = None
    BatchSize = 2
    MaxFaults = 1
    MaxCrashes = 1
SPECIFICATION Spec
SYMMETRY Symmetry
INVARIANTS
    CompletedHasThumb
    ServedWhole
    OriginalAvailableUnlessShared
    NoOrphanOriginal
CHECK_DEADLOCK FALSE
