\* Both ways the relay is wired: polling, saving, pruning and querying.
SPECIFICATION FairSpec
CONSTANTS
    Events = {e1, e2}
    Foreign = {e2}
    Modes = {"ic", "badgerbadger"}
    Queried = {"badgerbadger"}
    Savers = {p1}
    PollOverlap = 2
    MaxLag = 1
    MaxMisses = 1
    MaxTime = 3
    LastSave = 0
    MaxFaults = 1
    NoEvent = NoEvent
INVARIANTS
    TypeOK
    PollMissesNothing
PROPERTIES
    FetchedIsCast
    QueryCloses
CHECK_DEADLOCK FALSE
