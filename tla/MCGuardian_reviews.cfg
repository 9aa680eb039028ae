SPECIFICATION Spec
CHECK_DEADLOCK FALSE
CONSTANTS
    r1 = r1
    r2 = r2
    Requests = {r1, r2}
    MaxHead = 2
    MaxCommands = 0
    MaxRuns = 2
    MaxAttempts = 1
    MaxRedeliveries = 0
    MaxCrashes = 1
    KeepRuns = 9
    FailingHeads = {2}
    MayBeKilled = TRUE
    RedisMayFail = FALSE
    DatabaseMayFail = FALSE
SYMMETRY RequestSymmetry
INVARIANTS AtMostOneJob CompleteMeansPublished PendingExplained VerdictNotOlder
PROPERTIES CommentNeverOlder
