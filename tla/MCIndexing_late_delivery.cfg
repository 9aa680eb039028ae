SPECIFICATION Spec
CHECK_DEADLOCK FALSE
CONSTANTS
    r1 = r1
    r2 = r2
    Requests = {r1}
    MaxCommit = 3
    MaxJobs = 1
    MaxCrashes = 0
    MaxRedeliveries = 0
    Keep = 2
    MayBeKilled = FALSE
    RedisMayFail = FALSE
    DatabaseMayFail = FALSE
INVARIANTS AcceptedPushIndexed
