\* Four reviews of one registration, on one book, and rows saved meanwhile.
SPECIFICATION Spec
CONSTANTS
    Null = Null
    root = root
    m1 = m1
    m2 = m2
    ax = ax
    ay = ay
    az = az
    aw = aw
    r1 = r1
    r2 = r2
    r3 = r3
    Requests = {r1, r2, r3, r4}
    Starters = {m1}
    Start <- Waiting
    Kinds <- ReviewsAndRewrites
    Accounts = {}
    Levels = {}
    Parents = {}
    NewType = "common"
    Books = {abook}
    First <- Zero
    Removable = {}
SYMMETRY RequestSymmetry
INVARIANTS
    TypeOK
    PassHasAccount
    OrphanExplained
    TakenExplained
PROPERTIES
    LedgerSpec
CHECK_DEADLOCK FALSE
