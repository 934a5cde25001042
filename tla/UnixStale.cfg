SPECIFICATION Spec
CONSTANTS
    Process = {p1, p2}
    None = None
    Other = Other
CHECK_DEADLOCK FALSE
PROPERTIES
    OnlyStaleRemoved
