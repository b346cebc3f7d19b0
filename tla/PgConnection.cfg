SPECIFICATION FairSpec
CONSTANTS
    Requests = {r1, r2, r3}
    None = None
    PoolSize = 2
    MaxStatements = 2
    MaxDepth = 2
    MaxFaults = 1
CHECK_DEADLOCK FALSE
INVARIANTS AllOrNothing OnlyFailedBeginKeepsClient
PROPERTIES EveryRequestAnswered
