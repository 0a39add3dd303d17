SPECIFICATION Spec
CONSTANTS
    c1 = c1
    r1 = r1
    r2 = r2
    r3 = r3
    r4 = r4
    Call = {c1}
    Req = {r1, r2, r3, r4}
    CallOf <- PresentedToBoth
    NoReq = NoReq
    Valued = {}
    Cap = 1
    ClaimTries = 2
    Capabilities = TRUE
    Task = {r3, r4}
    Amountless = {r2, r4}
CHECK_DEADLOCK FALSE
INVARIANTS RunsOnce RunStaysCommitted SettledBeforeAnswered RefusedIsReleased
