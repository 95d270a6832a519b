\* An L1 with a layer 2, deletions vetoed as in the shipped relay.
SPECIFICATION Spec
CONSTANTS
    Ids = {e1, e2}
    Procs = {p1, p2}
    HasL2 = TRUE
    Deletes = FALSE
    CollectorOn = TRUE
    EventHigh = 0
    EventLow = 0
    IndexHigh = 0
    IndexLow = 0
    MaxSerial = 2
    MaxFaults = 2
    NoId = NoId
SYMMETRY Symmetry
INVARIANTS
    TypeOK
    FullRecordReachable
    NoDebris
    AckedIsStored
    SweepReclaims
PROPERTY
    LifeSpec
CHECK_DEADLOCK FALSE
