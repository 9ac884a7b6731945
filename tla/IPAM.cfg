SPECIFICATION Spec
CONSTANTS
    p1 = p1
    p2 = p2
    n1 = n1
    n2 = n2
    Procs = {p1, p2}
    Pools = {n1}
    Overlap = {}
    Ranges <- MCRanges
    Predefined <- MCPredefined
    Bits = 8
    BlockLen = 2
    Wanted = {3}
    Serial = {TRUE}
    MaxOps = 3
    MaxCrashes = 1
    NoRange = NoRange
    None = None
INVARIANTS
    MasksExact
    NoLeak
    
PROPERTIES
    AddressesExclusive
CHECK_DEADLOCK FALSE
ACTION_CONSTRAINT ReleasedAlone
