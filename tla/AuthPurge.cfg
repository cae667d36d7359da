SPECIFICATION FairSpec
CONSTANTS
    NoText = NoText
    NoNonce = NoNonce
    s1 = s1
    s2 = s2
    Sigs = {s1, s2}
    SigTexts = {"a", "A", "b"}
    SigOf <- TwoTexts
    Requests = {r1, r2}
    Window = 1
    MaxTime = 3
    MaxFaults = 1
INVARIANTS TypeOK AcceptedOnceInWindow SpentStaysKnown CopiesBounded
PROPERTY NonceEventuallyPurged
CHECK_DEADLOCK FALSE
