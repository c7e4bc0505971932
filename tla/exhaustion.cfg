SPECIFICATION Spec
CONSTANTS
    PageTokens = 2
    PageBytes = 3
    PageCapacity = 3
    MaxManagedBytes = 12
    MaxSnapshotBytes = 1
    EmergencyBytes = 2
    MaxPrefixEntries = 2
    Immediate = TRUE
    MaxGeneration = 1
    MaxClock = 3
    PhysicalPages = {p1, p2, p3}
    None = None
    Requests <- LongRequest
    SnapshotSizes = {1}
    Blocks = {a, b}
    Faults = {"retire"}
    CanBranch = TRUE
    PageReuse = 1
    SequenceReuse = 1
    MaxSequences = 2
    PrefixIdBound = 2
SYMMETRY Symmetry
INVARIANTS FreeListsExact CapacityRespected TablesReadHeldPages
