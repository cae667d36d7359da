SPECIFICATION Spec
CONSTANTS
    NoProof = NoProof
    Nothing = Nothing
    h1 = h1
    t1 = t1
    L402 = {h1}
    X402 = {t1}
    PaymentIds = {"hash", "tx", "TX"}
    Hashes = {"hash"}
    Mocks = {}
    Names <- TwoSpellings
    Prices = {1, 2}
    Requests = {r1, r2}
    MaxFaults = 1
SYMMETRY Symmetry
INVARIANTS TypeOK GrantsMatchSettlement LateProofRefused ConsumedForService GrantsBounded
PROPERTY ImplementsLedger
CHECK_DEADLOCK FALSE
