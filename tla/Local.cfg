SPECIFICATION Spec
CONSTANTS
    g1 = g1  g2 = g2
    Call = {g1, g2}
    Valued = {g2}
    MaxVersion = 1
    VerdictOf <- Verdicts
    AnchorOf <- Anchors
    LifecycleMaxAge = 0
    MaxStaleness = 1
    AnchorTtl = 1
    MaxClock = 3
    SilenceUntil = 2
    None = None
INVARIANTS
    VerdictIsRecent
    PushIsHeeded
PROPERTIES
    NoRollback
    CallsEnd
CHECK_DEADLOCK FALSE
