\* A single store: an event is saved, evicted and saved again.
SPECIFICATION Spec
CONSTANTS
    Ids = {e1, e2}
    Procs = {p1}
    HasL2 = FALSE
    Deletes = FALSE
    CollectorOn = TRUE
    EventHigh = 0
    EventLow = 0
    IndexHigh = 0
    IndexLow = 0
    MaxSerial = 2
    MaxFaults = 0
    NoId = NoId
INVARIANT
    AckedIsStored
CHECK_DEADLOCK FALSE
