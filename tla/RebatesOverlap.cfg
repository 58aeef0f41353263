\* Firings that may overlap.
SPECIFICATION Spec
CONSTANTS
    NoDeal = NoDeal
    NoManager = NoManager
    d1 = d1
    d2 = d2
    m1 = m1
    m2 = m2
    p1 = p1
    p2 = p2
    Deals = {d1, d2}
    Managers = {m1, m2}
    Payees <- DeepPayees
    Payouts = {}
    ByLogin = {}
    Concurrent = TRUE
    MaxTime = 2
    MaxFirings = 2
    MaxFails = 1
INVARIANTS
    RowsTwiceExplained
    CreditedTwiceExplained
    RebatedUpToWatermark
PROPERTIES
    WatermarkBackExplained
