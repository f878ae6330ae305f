SPECIFICATION Spec
CONSTANTS
    SIZE = 7
    WORKERS = 3
    MaxInterruptions = 2
    Contents = {c1, c2}
    Registered = c1
    Members = {m1, m2}
    MaxCrashes = 2
    Absent = absent
    Entries = {1, 2, 3}
    Offset <- MCOffset
    ARCHIVESIZE = 5
    MAXGAP = 0
    MaxCuts = 2
    MaxRevisions = 1
    Archives = {1, 2}
    FilePaths = {1, 2, 3, 4, 5, 6, 7, 8}
    Compositions = {0, 1, 2, 3, 4, 5}
    AudioHashes = {9, 10, 11, 12, 13, 14, 15, 16, 17, 18, 19, 20, 21, 22, 23, 24}
    Usual <- MCUsual
    KindOf <- MCKindOf
    Windows = 2
    BUDGET = 2
    MaxCount = 40
    MaxVersions = 2
    MaxRuns = 2
    MaxCalls = 2
    MaxDeaths = 1
    Touched <- AllTouched
INVARIANTS VerifiedIsRestorable ReportedIsWhole SplitsApart RulesCover ExportDescribed ValidationSetWhole PrefixAudited
PROPERTIES TransfersEnd SelectedWhole
CHECK_DEADLOCK FALSE
