SPECIFICATION Spec
CONSTANTS
    NoRecord = NoRecord
    NoInbox = NoInbox
    NoDid = NoDid
    NoId = NoId
    Aliases = {inbox}
    MaxLeaseHours = 1
    Batch = 1
    TextLimit = 6
    EgressPriced = FALSE
    Ids = {i1}
    Dids = {alice}
    Requests = {r1, r2}
    Janitors = {}
    Hours = {1, 2}
    MaxTime = 1
    MaxPaid = 5
    MaxFaults = 0
PROPERTY ConfirmedExtensionTakesEffect
CHECK_DEADLOCK FALSE
