SPECIFICATION Spec
CONSTANTS
    k1 = k1
    k2 = k2
    Key <- TwoKeys
    MaxRequests = 3
    MaxFailing = 2
    MaxCrashes = 1
    MaxOutages = 1
    SpoolCap = 1
    MaxWindows = 1
    Evicted = 1
    MaxBooked = 2
CHECK_DEADLOCK FALSE
INVARIANTS
    CountsAgree
    NamedIsBookedOnce
    SpooledIsKept
    DrainLosesNothing
PROPERTY
    SpoolDrains
