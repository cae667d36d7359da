SPECIFICATION Spec
CONSTANTS
    NoText = NoText
    NoNonce = NoNonce
    s1 = s1
    s2 = s2
    Sigs = {s1}
    SigTexts = {"a", "A"}
    SigOf <- TwoTexts
    Requests = {r1, r2}
    Window = 1
    MaxTime = 2
    MaxFaults = 0
INVARIANT SignatureOnceInWindow
CHECK_DEADLOCK FALSE
