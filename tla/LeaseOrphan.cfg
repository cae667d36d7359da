SPECIFICATION FairSpec
CONSTANTS
    NoRecord = NoRecord
    NoInbox = NoInbox
    NoDid = NoDid
    NoId = NoId
    Aliases = {inbox}
    MaxLeaseHours = 1
    Batch = 1
    TextLimit = 3
    EgressPriced = FALSE
    Ids = {i1}
    Dids = {alice}
    Requests = {r1}
    Janitors = {j1}
    Hours = {1}
    MaxTime = 2
    MaxPaid = 2
    MaxFaults = 1
PROPERTY OrphanEventuallyPurged
CHECK_DEADLOCK FALSE
