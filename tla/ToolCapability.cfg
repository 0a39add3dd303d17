SPECIFICATION Spec
CONSTANTS
    c1 = c1
    r1 = r1
    r2 = r2
    r3 = r3
    r4 = r4
    Call = {c1}
    Req = {r1, r2}
    CallOf <- PresentedTwice
    NoReq = NoReq
    Valued = {c1}
    Cap = 1
    ClaimTries = 2
    Capabilities = TRUE
    Task = {}
    Amountless = {}
CHECK_DEADLOCK FALSE
INVARIANT RefusalReleases
