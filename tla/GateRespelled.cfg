SPECIFICATION Spec
CONSTANTS
    NoProof = NoProof
    Nothing = Nothing
    h1 = h1
    t1 = t1
    L402 = {h1}
    X402 = {t1}
    PaymentIds = {"hash", "tx", "TX"}
    Hashes = {}
    Mocks = {}
    Names <- TwoSpellings
    Prices = {1}
    Requests = {r1}
    MaxFaults = 0
INVARIANT PaymentUsedOnce
CHECK_DEADLOCK FALSE
