SPECIFICATION Spec
CONSTANTS
    PageTokens = 2
    MaxNonce = 3
    MaxGeneration = 1
    Slots = {s1, s2}
    MaxPosition = 3
    RowsBound = 2
    BatchBound = 2
    Faults = {"allocate", "prepare", "publish", "commit", "abort"}
INVARIANTS TypeOK ReservationsStayPending NoReservationLost TransactionsExact SegmentsExact
PROPERTIES BatchErrorExact
SYMMETRY Symmetry
CHECK_DEADLOCK FALSE
