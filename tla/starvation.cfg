SPECIFICATION FairSpec
CONSTANTS
    PageTokens = 2
    PageBytes = 3
    PageCapacity = 2
    MaxManagedBytes = 12
    MaxSnapshotBytes = 2
    EmergencyBytes = 2
    MaxPrefixEntries = 2
    Immediate = FALSE
    MaxGeneration = 9
    MaxClock = 3
    PhysicalPages = {p1, p2}
    None = None
    Requests <- LongRequest
    SnapshotSizes = {1}
    Blocks = {a}
    Faults = {}
    CanBranch = FALSE
    PageReuse = 1
    SequenceReuse = 1
    MaxSequences = 1
    PrefixIdBound = 2
PROPERTIES IdleCacheAdmits
