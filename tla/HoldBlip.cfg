SPECIFICATION Spec
CONSTANTS
    c1 = c1  c2 = c2  r1 = r1  r2 = r2
    Call = {c1}
    Req = {r1}
    CallOf <- OneCallOf
    NoReq = NoReq
    Valued = {c1}
    Cap = 1
    InProcess = {}
    Candid = {c1}
    Claiming = {r1}
    OrphanLooks = 1
    CaptureTries = 1
    ClaimTries = 1
    SettleTries = 1
PROPERTY
    RefusalIsNotBooked
CHECK_DEADLOCK FALSE
