\* Three requests under one key (or none) that differ in one field; two failing calls, one death.
CONSTANTS
    Requests = {r1, r2, r3}
    Keys = {k1}
    Contents = {c1}
    Fields = {f1, f2}
    None = None
    MaxFaults = 2
    MaxDeaths = 1
SPECIFICATION Spec
SYMMETRY Symmetry
INVARIANTS
    TypeOK
    OneOwner
    SameAnswerUnlessLateAck
    AnswerMatchesRequest
    NoDuplicateWorkUnlessFault
    InProgressIsOwned
    TaskHasRow
PROPERTIES
    KeepsContract
