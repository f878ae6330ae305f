SPECIFICATION Spec
CONSTANTS
    Tasks = {t1, t2, t3}
    Pools <- MCPools
    Jobs = {j1}
    AttemptNumbers = {1, 2}
    ExternalRuns = {r1, r2}
    RETRIES = 1
    MaxStarts = 2
    None = none
    LocalJobs = {l1, l2}
    THREADS = 1
    MaxApiCalls = 2
    MaxResumptions = 1
    MaxExits = 1
    WebJobs = {w1, w2}
    Requests = {q1, q2}
    NoJob = nojob
    MaxPageFaults = 1
    MaxLeft = 1
    Artifacts = {a1, a2, a3}
    Allowed = {a1, a2}
    ImportModes = {"parallel_direct", "volume", "bundle", "direct"}
    MaxExecutions = 2
    Stems = {speech_dialog, music}
    MaxExcerpts = 2
    Models = {"x1", "x2"}
    Pipelines <- MCPipelines
    TargetStems <- MCTargetStems
    MaxInputs = 2
    RAW_GROUPS = {"broad_stems", "specialist_substems"}
    Outputs <- MCOutputs
    GroupOf <- MCGroupOf
    LooseAliases <- MCLooseAliases
    TARGET_RULES <- MCTargetRules
    required_stems = {"drums", "piano"}
    MaxAttempts = 2
    Pairs <- MCPairs
    MaxCalls = 3
    Songs = {s1, s2, s3, s4}
    LABEL_GROUPS = {"positive", "confuser", "target_absent"}
    PickCounts <- MCPickCounts
    RequiredExamples <- MCRequiredExamples
    Fraction = 50
    Readings <- MCReadings
    MaxRows = 4
    MaxValues = 2
    AcceptPrecision = 60
    MinimumRecall = 50
    PositiveRetention = 50
    Folds = 2
INVARIANTS OwnOutputs OneTerminalEffect PaidForCompleted ImportedFiles CompletedIsOwn ReportedOutputs ContractDelivers BakeoffCompletes CalibrationSound ShownIsServed
PROPERTIES LedgerKept DeletedStays
SYMMETRY Symmetry
CHECK_DEADLOCK FALSE
