SPECIFICATION NodeSpec
CONSTANTS
    NoText = NoText
    NoNonce = NoNonce
    NoProof = NoProof
    Nothing = Nothing
    s1 = s1
    s2 = s2
    x1 = x1
    x2 = x2
    h1 = h1
    t1 = t1
    Sigs = {s1}
    SigTexts = {x1, x2}
    SigOf <- TwoTexts
    Requests = {r1, r2}
    Window = 1
    MaxTime = 2
    MaxFaults = 0
    L402 = {h1}
    X402 = {t1}
    PaymentIds = {"tx"}
    Hashes = {}
    Mocks = {}
    Names <- OneSpelling
    Prices = {1}
    Cost <- UnitCost
SYMMETRY Symmetry
INVARIANT PaidOncePerSignature
CHECK_DEADLOCK FALSE
