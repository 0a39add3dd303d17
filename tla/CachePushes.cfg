SPECIFICATION Spec
CONSTANTS
    a1 = a1  a2 = a2
    g1 = g1  g2 = g2  g3 = g3  g4 = g4
    Agent = {a1, a2}
    Call = {g1, g2, g3, g4}
    NoCall = NoCall
    AgentOf <- ThreeAndOne
    MaxAgents = 1
    Watch = TRUE
    MaxChanges = 1
    MaxDrops = 1
INVARIANTS
    OutdatedOnlyBehindAPush
    FailureIsNotCached
    NothingLeaks
PROPERTY
    OutdatedBundleIsRetired
CHECK_DEADLOCK FALSE
