SPECIFICATION FairSpec
CONSTANTS
    Tokens = {t1, t2}
    Families = {f1}
    Requests = {r1, r2}
    Purgers = {w1}
    Null = Null
    Lifetime = 0
    Grace = 0
    MaxTime = 1
    MaxFaults = 0
CHECK_DEADLOCK FALSE
PROPERTIES RequestsFinish ExpiredEventuallyPurged
