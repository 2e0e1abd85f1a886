\* Three runs or downloads on one image in two processes, one of which may crash.
CONSTANTS
    Images = {i1}
    Payloads = {c1}
    ThumbPath <- OwnThumb
    Procs = {p1, p2}
    Runs = {r1, r2, r3}
    Kinds = {"process", "original", "thumbnail"}
    WithTtl = {}
    None = None
    BatchSize = 1
    MaxFaults = 0
    MaxCrashes = 1
SPECIFICATION Spec
SYMMETRY Symmetry
INVARIANTS
    CompletedNamesThumb
    ProcessingIsOwned
CHECK_DEADLOCK FALSE
