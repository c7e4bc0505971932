SPECIFICATION Spec
CONSTANTS
    Blocks = {a, b}
    MaxBlockId = 3
    MaxRefs = 4
    MaxPrefixId = 3
    KeyBound = 2
    PrefixIdBound = 4
INVARIANTS TypeOK NoDanglingBlocks BlocksExact
PROPERTIES RefinesMap
SYMMETRY Symmetry
CHECK_DEADLOCK FALSE
