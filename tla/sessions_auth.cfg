\* A relay that requires authentication: private events and rejected REQs.
SPECIFICATION Spec
CONSTANTS
    Conns = {c1, c2}
    Subs = {s1}
    alice = alice
    bob = bob
    carol = carol
    note = note
    dm = dm
    Keys = {alice, bob}
    Events = {note, dm}
    Author <- MCAuthor
    Recipients <- MCRecipients
    Privileged = {dm}
    ReqFilters <- AuthFilters
    AuthRequired = TRUE
    AllowIPs = {}
    IgnoreAfter = 0
    Publishers = {c1}
    Subscribers = {c2}
    MaxFilters = 2
    MaxReqs = 1
    NoKey = NoKey
INVARIANTS
    PrivateToParties
    DueDelivered
CHECK_DEADLOCK FALSE
