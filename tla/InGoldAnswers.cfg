\* An A-book and a B-book order, and four callbacks whose gateways are told the outcome.
SPECIFICATION FairSpec
CONSTANTS
    NoOrder = NoOrder
    NoReq = NoReq
    Orders = {o1, o2}
    BBook = {o1}
    Amounts = {1}
    Locked = {l1, l2}
    Plain = {p1}
    Untold = {}
    Notify = {n1}
    Gaozhi = {}
    Reviews = {}
INVARIANTS
    AckedPaymentRecorded
PROPERTY
    EveryRequestAnswered
