SPECIFICATION Spec
CONSTANTS
    Rows = {1, 2, 3, 4, 5}
    Limits <- MCLimits
    Offsets <- MCOffsets
    defaultListLimit = 2
    maxListLimit = 3
    MaxInt32 = 3
    PageCap = 2
    Overfills = TRUE
    MaxChanges = 3
INVARIANTS
    NothingOverlooked
    NothingRepeated
    OnlyFirstRefused
PROPERTIES
    WalkEnds
CHECK_DEADLOCK FALSE
