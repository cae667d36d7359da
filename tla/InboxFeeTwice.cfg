SPECIFICATION Spec
CONSTANTS
    NoLease = NoLease
    NoInbox = NoInbox
    NoDid = NoDid
    NoCreation = NoCreation
    NoCall = NoCall
    NoView = NoView
    NoAlias = NoAlias
    Default = default
    Names = {default, work}
    Nodes = {here, there}
    Dids = {alice, bob}
    Ids = {i1, i2}
    Requests = {r1, r2}
    Calls = {c1}
    Hours = {1}
    TextLimit = 3
    MaxDate = 3
    MaxTime = 2
    MaxFees = 2
    MaxFaults = 1
SYMMETRY Symmetry
CONSTRAINT OnePart
INVARIANT OneTimeFee
CHECK_DEADLOCK FALSE
