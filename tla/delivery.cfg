\* A query from the store's indexes to its channel, messages as they are
\* written and read, and a client's calls.
SPECIFICATION Spec
CONSTANTS
    Serials = {1, 2, 3}
    Content <- MCContent
    Asked <- MCAsked
    Stores <- MCStores
    StoreLimit = 3
    Buffer = 1
    Infinity = 9
    MaxQueries = 2
    MaxChanges = 1
    querier = querier
    counter = counter
    Queriers = {querier}
    Counters = {counter}
    Publishing = p
    Workloads <- MCWorkloads
    Events = {e1, e2}
    InboxLimit = 1
    Challenged <- MCChallenged
    NoOne = NoOne
    Messages <- MCMessages
    MaxSid = 64
    IdLength = 2
INVARIANTS
    NewestUpToLimit
    ClosedOnce
    EoseComplete
    PublishedIsAccepted
    ReadBack
PROPERTIES
    EndsWhenRead
    CallsEnd
CHECK_DEADLOCK FALSE
