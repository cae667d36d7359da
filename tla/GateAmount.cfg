SPECIFICATION Spec
CONSTANTS
    NoProof = NoProof
    Nothing = Nothing
    h1 = h1
    t1 = t1
    L402 = {h1}
    X402 = {t1}
    PaymentIds = {"hash", "tx"}
    Hashes = {}
    Mocks = {}
    Names <- TwoSpellings
    Prices = {1, 2}
    Requests = {r1}
    MaxFaults = 0
INVARIANT TokenAmountSettled
CHECK_DEADLOCK FALSE
