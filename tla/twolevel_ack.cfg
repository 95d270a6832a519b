\* A save that fails at both levels, and what its client is told.
SPECIFICATION Spec
CONSTANTS
    Events = {e1}
    Foreign = {}
    Modes = {"ic", "badgerbadger"}
    Queried = {}
    Savers = {p1}
    PollOverlap = 2
    MaxLag = 1
    MaxMisses = 1
    MaxTime = 1
    LastSave = 0
    MaxFaults = 2
    NoEvent = NoEvent
INVARIANT
    AckedBacked
CHECK_DEADLOCK FALSE
