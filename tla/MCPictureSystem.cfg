SPECIFICATION Spec
CONSTANTS
    Users = {u1, u2}
    Keys = {k1, k2, k3}
    Requests = {r1, r2}
    Workers = {w1}
    None = None
    BatchSize = 2
    MaxAttempts = 2
    AmbiguousCommit = FALSE
    MaxRequestFaults = 1
    MaxWorkerFaults = 1
CHECK_DEADLOCK FALSE
SYMMETRY Symmetry
INVARIANTS TypeOK PictureIntact ScheduledOnceAndUnreferenced EveryObjectAccountedFor
PROPERTIES ImplementsObjectLifecycle
