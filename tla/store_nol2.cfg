\* A single store with deletions, wipes and a fair collector.
SPECIFICATION FairSpec
CONSTANTS
    Ids = {e1, e2}
    Procs = {p1, p2}
    HasL2 = FALSE
    Deletes = TRUE
    CollectorOn = TRUE
    EventHigh = 1
    EventLow = 1
    IndexHigh = 0
    IndexLow = 0
    MaxSerial = 2
    MaxFaults = 2
    NoId = NoId
INVARIANTS
    IndexesAgree
    SweepReclaims
PROPERTIES
    NoLateDuplicate
    Reclaimed
CHECK_DEADLOCK FALSE
