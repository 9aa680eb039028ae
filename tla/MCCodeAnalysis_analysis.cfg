SPECIFICATION Spec
CONSTANTS
    None = None
    Absent = Absent
    Skipped = Skipped
    Unreadable = Unreadable
    Unhashable = Unhashable
    Failure = Failure
    models = models
    package = package
    service = service
    suite = suite
    Directories <- MCDirectories
    Candidates <- MCCandidates
    ScanOrder <- MCScanOrder
    Contents <- MCContents
    Documents <- MCDocuments
    Replies <- MCReplies
    TestPaths = {suite}
    MaxHops = 20
    ModelBases = {"Model"}
    Writes = {"save", "add"}
    Reads = {"filter"}
    Cutoff = 2
    MaxPath = 4
    MaxDepth = 2
    MaxCycles = 1
    MaxComponents = 4
    GraphLimit = 7
    MaxRules = 3
    MaxRelationships = 2
    MaxFound = 1
    MaxViolations = 2
    MaxFiles = 2
    MaxChanged = 3
    MaxShown = 2
    MaxFindings = 1
    MaxEvidence = 4
    MaxCited = 3
    MaxNodes = 26
    Context = 1
CHECK_DEADLOCK FALSE
INVARIANTS ReferencesKept OrderIndependent QueriesAgree ChangesExplained PolicyDecides PatchFindsChanges PlanGrounded
