SPECIFICATION Spec
CONSTANTS
    PageTokens = 2
    PageBytes = 3
    PageCapacity = 2
    MaxManagedBytes = 12
    MaxSnapshotBytes = 2
    EmergencyBytes = 2
    MaxPrefixEntries = 1
    Immediate = FALSE
    MaxGeneration = 9
    MaxClock = 2
    PhysicalPages = {p1, p2}
    None = None
    Requests <- MCRequests
    SnapshotSizes = {1}
    Blocks = {a, b}
    Faults = {}
    CanBranch = FALSE
    PageReuse = 1
    SequenceReuse = 1
    MaxSequences = 2
    PrefixIdBound = 2
SYMMETRY Symmetry
INVARIANTS AccountingExact ReservationsBacked PhysicalPagesExact PressureIsNeverAnError
PROPERTIES HandlesNeverRevive
