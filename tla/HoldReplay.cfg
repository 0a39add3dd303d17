SPECIFICATION Spec
CONSTANTS
    c1 = c1  c2 = c2  r1 = r1  r2 = r2
    Call = {c1}
    Req = {r1, r2}
    CallOf <- ReplayedCallOf
    NoReq = NoReq
    Valued = {c1}
    Cap = 1
    InProcess = {}
    Candid = {}
    Claiming = {r1, r2}
    OrphanLooks = 3
    CaptureTries = 3
    ClaimTries = 2
    SettleTries = 3
INVARIANTS
    OneExecution
    ExecutedStaysCommitted
    NoStrandedClaim
    UnrunSpendOnlyWhenBlind
PROPERTY
    KeepsPromise
CHECK_DEADLOCK FALSE
