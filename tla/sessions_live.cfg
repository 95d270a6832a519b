\* A relay open to all and one client: two REQs, its own events, and liveness.
SPECIFICATION FairSpec
CONSTANTS
    Conns = {c1}
    Subs = {s1, s2}
    alice = alice
    bob = bob
    carol = carol
    note = note
    dm = dm
    Keys = {}
    Events = {note}
    Author <- OpenAuthor
    Recipients <- OpenRecipients
    Privileged = {}
    ReqFilters <- OpenFilters
    AuthRequired = FALSE
    AllowIPs = {}
    IgnoreAfter = 0
    Publishers = {c1}
    Subscribers = {c1}
    MaxFilters = 2
    MaxReqs = 2
    NoKey = NoKey
INVARIANTS
    TypeOK
    DueDelivered
PROPERTY
    QueriesEnd
CHECK_DEADLOCK FALSE
