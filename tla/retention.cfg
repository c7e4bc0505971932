SPECIFICATION Spec
CONSTANTS
    PageTokens = 1
    PageBytes = 3
    PageCapacity = 3
    MaxManagedBytes = 13
    MaxSnapshotBytes = 3
    EmergencyBytes = 2
    MaxPrefixEntries = 3
    Immediate = TRUE
    MaxGeneration = 9
    MaxClock = 4
    PhysicalPages = {p1, p2, p3}
    None = None
    Requests <- ShortRequest
    SnapshotSizes = {1, 2}
    Blocks = {a, b}
    Faults = {}
    CanBranch = FALSE
    PageReuse = 1
    SequenceReuse = 1
    MaxSequences = 1
    PrefixIdBound = 3
SYMMETRY Symmetry
INVARIANTS PrefixesValid LruExact
PROPERTIES EvictsColdestFirst RecencyOrderStable
