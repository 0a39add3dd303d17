SPECIFICATION Spec
CONSTANTS
    p1 = p1  p2 = p2  p3 = p3
    a1 = a1  a2 = a2  a3 = a3  a4 = a4
    Process = {p1, p2, p3}
    Attempt = {a1, a2, a3, a4}
    ProcOf <- ClaimedCalls
    SameRequest = {a1, a2, a3}
    SameContext = {a1, a3, a4}
    Legacy = {p3}
    Python = {p1}
    Nobody = Nobody
    MaxReopens = 1
INVARIANTS
    AtMostOnce
    SpentOnTheApproved
PROPERTIES
    GivenBackNeverRan
    SettledIsNotRerun
    InUseMeansInUse
CHECK_DEADLOCK FALSE
