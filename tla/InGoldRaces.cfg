\* A B-book order, an unsynchronized callback and two reviews.
SPECIFICATION Spec
CONSTANTS
    NoOrder = NoOrder
    NoReq = NoReq
    Orders = {o1}
    BBook = {o1}
    Amounts = {1, 2}
    Locked = {}
    Plain = {p1}
    Untold = {p1}
    Notify = {}
    Gaozhi = {}
    Reviews = {r1, r2}
SYMMETRY RequestSymmetry
INVARIANTS
    PassBacked
    RefusalExplained
