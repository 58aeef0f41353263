\* Half a lot, a hundredth and three lots; more parents than managers.
SPECIFICATION FairSpec
CONSTANTS
    m1 = m1
    m2 = m2
    m3 = m3
    NoManager = NoManager
    Managers = {m1, m2, m3}
    Trader = m1
    Values = {1, 2, 4}
    PointValue = 3
    Volumes = {100, 5000, 30000}
    MaxParents = 4
INVARIANTS
    OneRowEach
    TotalIsHighest
    ChainLookedAt
    MixedFails
PROPERTIES
    DivisionEnds
CHECK_DEADLOCK FALSE
