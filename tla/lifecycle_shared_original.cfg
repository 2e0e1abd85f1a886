\* Two uploads of one file, one of which expires.
CONSTANTS
    Images = {i1, i2}
    Payloads = {c1}
    ThumbPath <- OwnThumb
    Procs = {p1}
    Runs = {r1}
    Kinds = {"process"}
    WithTtl = {i1}
    None = None
    BatchSize = 1
    MaxFaults = 0
    MaxCrashes = 0
SPECIFICATION Spec
INVARIANTS
    OriginalAvailable
CHECK_DEADLOCK FALSE
