SPECIFICATION Spec
CONSTANTS
    Tokens = {t1, t2}
    Families = {f1}
    Requests = {r1, r2}
    Purgers = {}
    Null = Null
    Lifetime = 2
    Grace = 1
    MaxTime = 0
    MaxFaults = 0
CHECK_DEADLOCK FALSE
INVARIANT RevokedFamilyHasNoLiveToken
