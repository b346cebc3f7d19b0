SPECIFICATION FairSpec
CONSTANTS
    Users = {u1}
    Keys = {k1, k2}
    Requests = {r1, r2}
    Workers = {w1}
    None = None
    BatchSize = 1
    MaxAttempts = 2
    AmbiguousCommit = TRUE
    MaxRequestFaults = 1
    MaxWorkerFaults = 1
CHECK_DEADLOCK FALSE
PROPERTIES PicturesLostInDoubtOnly UnusedObjectsDeleted ChangesAnswered
