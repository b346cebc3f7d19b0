SPECIFICATION Spec
CONSTANTS
    Tokens = {t1, t2}
    Families = {f1, f2}
    Requests = {r1, r2}
    Purgers = {w1, w2}
    Null = Null
    Lifetime = 0
    Grace = 0
    MaxTime = 1
    MaxFaults = 1
SYMMETRY Symmetry
CHECK_DEADLOCK FALSE
INVARIANTS TypeOK OneLiveTokenPerFamily SessionSurvives RequestsNeverDeadlock
PROPERTIES RevocationKillsPresentedToken ImplementsSessionChain
