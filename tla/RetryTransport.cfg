SPECIFICATION FairSpec
CONSTANTS
    Calls = {c1, c2}
    MaxRetries = 2
    Limited = TRUE
    Burst = 2
    MaxRefills = 2
CHECK_DEADLOCK FALSE
INVARIANTS
    Inv
    NoBodyLeaked
    RateCapped
PROPERTIES
    KeepsContract
