\* A relay open to all: one REQ.
SPECIFICATION FairSpec
CONSTANTS
    Conns = {c1, c2}
    Subs = {s1}
    alice = alice
    bob = bob
    carol = carol
    note = note
    dm = dm
    Keys = {}
    Events = {note}
    Author <- OpenAuthor
    Recipients <- OpenRecipients
    Privileged = {}
    ReqFilters <- OneFilter
    AuthRequired = FALSE
    AllowIPs = {}
    IgnoreAfter = 0
    Publishers = {c1}
    Subscribers = {c2}
    MaxFilters = 2
    MaxReqs = 1
    NoKey = NoKey
PROPERTY
    EoseComes
CHECK_DEADLOCK FALSE
