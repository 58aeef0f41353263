\* Firings one after the other, and fail once.
SPECIFICATION FairSpec
CONSTANTS
    NoDeal = NoDeal
    NoManager = NoManager
    d1 = d1
    d2 = d2
    m1 = m1
    m2 = m2
    p1 = p1
    p2 = p2
    Deals = {d1, d2}
    Managers = {m1}
    Payees <- FlatPayees
    Payouts = {}
    ByLogin = {}
    Concurrent = FALSE
    MaxTime = 2
    MaxFirings = 3
    MaxFails = 1
PROPERTIES
    EveryDealPassed
