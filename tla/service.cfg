\* An API process with three requests at a time, or a worker; three faults.
CONSTANTS
    Tasks = {t1, t2, t3}
    Loop = t1
    MaxFaults = 3
    None = None
SPECIFICATION Spec
INVARIANTS
    OneProducer
    SendsOnRunningProducer
    StopReleases
PROPERTIES
    SignalEnds
    WorkerRejoins
CHECK_DEADLOCK FALSE
