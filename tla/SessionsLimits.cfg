\* Three requests of an account two sessions of which are logged in: log-ins of a
\* third one, page requests, one drop of the counter or the queue.
SPECIFICATION Spec
CONSTANTS
    Null = Null
    Requests = {r1, r2, r3}
    SessionIds = {s1, s2, s3}
    Starters = {s1, s2}
    maxSession = 1
    MaxRetry = 1
    MaxDrops = 1
    MaxOver = 1
SYMMETRY SessionSymmetry
INVARIANTS
    LimitExplained
    KickExplained
    RetryExplained
    RefusedExplained
CHECK_DEADLOCK FALSE
