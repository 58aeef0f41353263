\* A B-book order, two callbacks under the monitor, a Gaozhi result and a review.
SPECIFICATION Spec
CONSTANTS
    NoOrder = NoOrder
    NoReq = NoReq
    Orders = {o1}
    BBook = {o1}
    Amounts = {1, 2}
    Locked = {l1, l2}
    Plain = {}
    Untold = {}
    Notify = {}
    Gaozhi = {g1}
    Reviews = {r1}
SYMMETRY RequestSymmetry
INVARIANTS
    TypeOK
    ExtraCreditExplained
    LockedCreditsOnce
PROPERTY
    LedgerSpec
