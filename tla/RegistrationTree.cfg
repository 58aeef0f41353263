\* A broker and two agents: edits, moves, saved rows and a refusal among them.
SPECIFICATION Spec
CONSTANTS
    Null = Null
    root = root
    m1 = m1
    m2 = m2
    ax = ax
    ay = ay
    az = az
    aw = aw
    r1 = r1
    r2 = r2
    r3 = r3
    Requests = {r1, r2, r3}
    Starters = {root, m1, m2}
    Start <- Chain
    Kinds <- OneOfEach
    Accounts = {aw}
    Levels = {2}
    Parents = {m2}
    NewType = "common"
    Books = {}
    First <- Zero
    Removable = {m2}
INVARIANTS
    DisorderExplained
    CycleExplained
    SameAccountExplained
    UndoExplained
CHECK_DEADLOCK FALSE
