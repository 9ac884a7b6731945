SPECIFICATION Spec
CONSTANTS
    n1 = n1
    e1 = e1
    e2 = e2
    s1 = s1
    s2 = s2
    p1 = p1
    p2 = p2
    Net = {n1}
    Endpoint = {e1, e2}
    Sandbox = {s1}
    NetOf <- MCNetOf
    Rank <- MCRank
    Caller = {p1, p2}
    Main = Main
    MayFail = {"CreateNetwork", "DeleteNetwork", "CreateEndpoint", "DeleteEndpoint", "Join"}
    MaxIndex = 2
    MaxFaults = 1
    MaxCrashes = 1
    None = None
INVARIANTS
    
    EndpointBacked
    
PROPERTIES
    StartClean
    
ACTION_CONSTRAINTS
    ContainerLock
    FreshCount
    SafeCrash
    FewEvents
    FreeCallerFirst
CHECK_DEADLOCK FALSE
