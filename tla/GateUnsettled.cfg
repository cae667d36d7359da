SPECIFICATION Spec
CONSTANTS
    NoProof = NoProof
    Nothing = Nothing
    h1 = h1
    t1 = t1
    L402 = {h1}
    X402 = {t1}
    PaymentIds = {"hash", "own", "mock"}
    Hashes = {"hash", "own"}
    Mocks = {"mock"}
    Names <- TwoSpellings
    Prices = {1}
    Requests = {r1}
    MaxFaults = 0
INVARIANT OnlySettledServed
CHECK_DEADLOCK FALSE
