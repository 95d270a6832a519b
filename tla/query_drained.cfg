\* Events asked for by their ids, in a store that has them.
SPECIFICATION AskedSpec
CONSTANTS
    Serials = {1, 2, 3}
    Content <- MCContent
    Asked <- MCById
    Stores <- MCStores
    StoreLimit = 3
    Buffer = 1
    Infinity = 9
    MaxQueries = 2
    MaxChanges = 1
    querier = querier
    counter = counter
    Queriers = {querier}
    Counters = {counter}
    Publishing = p
    Workloads <- MCWorkloads
    Events = {e1, e2}
    InboxLimit = 1
    Challenged <- MCChallenged
    NoOne = NoOne
    Messages = {}
    MaxSid = 64
    IdLength = 2
INVARIANT
    AllDelivered
CHECK_DEADLOCK FALSE
