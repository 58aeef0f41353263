\* One deal and one payout by login.
SPECIFICATION Spec
CONSTANTS
    NoDeal = NoDeal
    NoManager = NoManager
    d1 = d1
    d2 = d2
    m1 = m1
    m2 = m2
    p1 = p1
    p2 = p2
    Deals = {d1, d2}
    Managers = {m1}
    Payees <- FlatPayees
    Payouts = {p1}
    ByLogin = {p1}
    Concurrent = FALSE
    MaxTime = 1
    MaxFirings = 1
    MaxFails = 0
INVARIANTS
    OverWasPaid
