SPECIFICATION DeploymentSpec
CONSTANTS
    Clients = {c1, c2}
    Jobs = {purge, outbox}
    MaxSignals = 2
    Null = Null
    u1 = u1
    u2 = u2
    t1 = t1
    t2 = t2
    f1 = f1
    f2 = f2
    a = a
    b = b
    Databases <- MCDatabases
INVARIANTS ConnectedClientsServed JobsNeverOverlap ServesOnlyMatchingSchema BlockedOnlyByDuplicates
PROPERTIES JobStartsBeforeShutdown JobsKeepRunning ShutdownCompletes AccountsSurviveUpgrade
