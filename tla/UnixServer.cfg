SPECIFICATION Spec
CONSTANTS
    Process = {p1, p2, p3}
    None = None
    Other = Other
CHECK_DEADLOCK FALSE
INVARIANTS
    SequentialInv
    Reachable
    StartsAfresh
    NoLitter
PROPERTIES
    ForeignFileKept
    SignalStops
