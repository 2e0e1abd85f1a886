\* Three requests, each with the key, without one, or in a batch with one permit; two failing calls, one death.
CONSTANTS
    Requests = {r1, r2, r3}
    Images = {i1, i2}
    Keys = {k1}
    None = None
    Concurrency = 1
    MaxFaults = 2
    MaxDeaths = 1
SPECIFICATION Spec
SYMMETRY Symmetry
INVARIANTS
    WorkOncePerKey
    ReplayedMeansDone
    InProgressIsOwned
    PermitsBalance
    CountsAreTrue
PROPERTIES
    KeepsContract
