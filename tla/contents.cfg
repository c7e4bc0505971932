SPECIFICATION ContentSpec
CONSTANTS
    PageTokens = 2
    PageBytes = 3
    PageCapacity = 4
    MaxManagedBytes = 12
    MaxSnapshotBytes = 2
    EmergencyBytes = 2
    MaxPrefixEntries = 1
    Immediate = TRUE
    MaxGeneration = 9
    MaxClock = 2
    PhysicalPages = {p1, p2, p3, p4}
    None = None
    Requests <- ContentRequests
    SnapshotSizes = {0}
    Tokens = {t, u}
    Blank = blank
    Blocks <- TokenBlocks
    Faults = {"publish", "retire"}
    CanBranch = TRUE
    PageReuse = 1
    SequenceReuse = 1
    MaxSequences = 2
    PrefixIdBound = 2
INVARIANTS EntriesHoldTheirKeys
PROPERTIES RefinesStore
SYMMETRY ContentSymmetry
