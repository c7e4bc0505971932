SPECIFICATION Spec
CONSTANTS
    PageTokens = 2
    PageBytes = 3
    PageCapacity = 3
    MaxManagedBytes = 10
    MaxSnapshotBytes = 2
    EmergencyBytes = 2
    MaxPrefixEntries = 2
    Immediate = TRUE
    MaxGeneration = 9
    MaxClock = 3
    PhysicalPages = {p1, p2, p3}
    None = None
    Requests <- ShortRequests
    SnapshotSizes = {1}
    Blocks = {a}
    Faults = {"retire"}
    CanBranch = TRUE
    PageReuse = 1
    SequenceReuse = 1
    MaxSequences = 2
    PrefixIdBound = 2
SYMMETRY Symmetry
INVARIANT PhysicalPagesExact
