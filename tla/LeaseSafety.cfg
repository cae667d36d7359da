SPECIFICATION Spec
CONSTANTS
    NoRecord = NoRecord
    NoInbox = NoInbox
    NoDid = NoDid
    NoId = NoId
    Aliases = {inbox}
    MaxLeaseHours = 1
    Batch = 1
    TextLimit = 5
    EgressPriced = TRUE
    Ids = {i1}
    Dids = {alice, bob}
    Requests = {r1, r2}
    Janitors = {j1}
    Hours = {0, 1, 2}
    MaxTime = 3
    MaxPaid = 5
    MaxFaults = 1
SYMMETRY Symmetry
INVARIANTS TypeOK RecordHasBlob BlobHasRecord LeaseNeverExceedsPaid PaidTimeStands DeleteIsFinal AccessStillHolds
PROPERTIES NotPurgedWithinTerm PaidTimeNotPurged ImplementsContract
CHECK_DEADLOCK FALSE
