SPECIFICATION Spec
CONSTANTS
    NoText = NoText
    NoNonce = NoNonce
    s1 = s1
    s2 = s2
    Sigs = {s1}
    SigTexts = {"a"}
    SigOf <- TwoTexts
    Requests = {r1, r2}
    Window = 1
    MaxTime = 3
    MaxFaults = 0
INVARIANT SignatureSingleUse
CHECK_DEADLOCK FALSE
