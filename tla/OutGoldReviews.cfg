\* Two orders of a B-book account that also loses on a deal, one of an A-book account,
\* three reviews.
SPECIFICATION Spec
CONSTANTS
    NoOrder = NoOrder
    o1 = o1
    o2 = o2
    o3 = o3
    c1 = c1
    c2 = c2
    Orders = {o1, o2, o3}
    Customers = {c1, c2}
    Owner <- Owners
    BBook = {c1}
    Amounts <- Signed
    Balance = 2
    loss = loss
    Moves = {loss}
    Holder <- Loser
    Worth <- Loss
    Reviews = {r1, r2, r3}
SYMMETRY Symmetry
INVARIANTS
    TypeOK
    PassDebited
    DebitedRefusalExplained
    OverdrawExplained
PROPERTIES
    LedgerSpec
