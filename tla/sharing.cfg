SPECIFICATION Spec
CONSTANTS
    PageTokens = 2
    PageBytes = 3
    PageCapacity = 3
    MaxManagedBytes = 12
    MaxSnapshotBytes = 2
    EmergencyBytes = 2
    MaxPrefixEntries = 2
    Immediate = TRUE
    MaxGeneration = 9
    MaxClock = 3
    PhysicalPages = {p1, p2, p3}
    None = None
    Requests <- MCRequests
    SnapshotSizes = {1}
    Blocks = {a, b}
    Faults = {"poll", "restore", "publish", "allocate", "prepare", "commit", "abort", "copy"}
    CanBranch = TRUE
    PageReuse = 1
    SequenceReuse = 0
    MaxSequences = 2
    PrefixIdBound = 2
SYMMETRY Symmetry
INVARIANTS TypeOK ReferencesExact SequencesValid AccountingExact PhysicalPagesExact PublishedTablesExact
PROPERTIES FailureAtomic SealedImmutable HistoryStable
