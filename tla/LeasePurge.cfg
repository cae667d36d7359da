SPECIFICATION FairSpec
CONSTANTS
    NoRecord = NoRecord
    NoInbox = NoInbox
    NoDid = NoDid
    NoId = NoId
    Aliases = {inbox}
    MaxLeaseHours = 1
    Batch = 1
    TextLimit = 3
    EgressPriced = FALSE
    Ids = {i1, i2}
    Dids = {alice}
    Requests = {r1}
    Janitors = {j1, j2}
    Hours = {1}
    MaxTime = 2
    MaxPaid = 2
    MaxFaults = 1
PROPERTY ExpiredEventuallyPurged
CHECK_DEADLOCK FALSE
