SPECIFICATION Spec
CHECK_DEADLOCK FALSE
CONSTANTS
    r1 = r1
    r2 = r2
    Requests = {r1}
    MaxHead = 1
    MaxCommands = 1
    MaxRuns = 2
    MaxAttempts = 1
    MaxRedeliveries = 1
    MaxCrashes = 0
    KeepRuns = 1
    FailingHeads = {}
    MayBeKilled = TRUE
    RedisMayFail = TRUE
    DatabaseMayFail = TRUE
INVARIANTS TypeOK RunHasJob OneLiveRunPerDelivery
PROPERTIES ImplementsRunLifecycle RunsEnd
