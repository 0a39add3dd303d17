SPECIFICATION Spec
CONSTANTS
    c1 = c1  c2 = c2  r1 = r1  r2 = r2
    Call = {c1, c2}
    Req = {r1}
    CallOf <- MixedCallOf
    NoReq = NoReq
    Valued = {c1, c2}
    Cap = 1
    InProcess = {c1}
    Candid = {c1}
    Claiming = {r1}
    OrphanLooks = 2
    CaptureTries = 2
    ClaimTries = 1
    SettleTries = 1
INVARIANTS
    ReleasedNeverRan
    SpendWithinCap
PROPERTIES
    CallsEnd
    RequestsEnd
CHECK_DEADLOCK FALSE
