SPECIFICATION Spec
CHECK_DEADLOCK FALSE
CONSTANTS
    r1 = r1
    r2 = r2
    Requests = {r1, r2}
    MaxCommit = 2
    MaxJobs = 2
    MaxCrashes = 1
    MaxRedeliveries = 0
    Keep = 1
    MayBeKilled = TRUE
    RedisMayFail = TRUE
    DatabaseMayFail = TRUE
INVARIANTS TypeOK PublishedTogether ActiveHasJob ActiveSyncHasJob
PROPERTIES SyncKeepsPreviousVersion StatusesSettle
