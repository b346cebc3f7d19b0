SPECIFICATION FairSpec
CONSTANTS
    Keys = {k1, k2}
    Workers = {w1, w2}
    BatchSize = 2
    MaxAttempts = 3
    MaxFaults = 2
CHECK_DEADLOCK FALSE
INVARIANTS DoneMeansDeleted TriesBounded
PROPERTIES EventuallyDeleted
