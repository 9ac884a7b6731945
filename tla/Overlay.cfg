SPECIFICATION Spec
CONSTANTS
    l1 = l1
    r1 = r1
    r2 = r2
    ip1 = ip1
    mac1 = mac1
    mac2 = mac2
    v0 = v0
    v1 = v1
    v2 = v2
    None = None
    Locals <- MCLocals
    Remotes <- MCRemotes
    IpOf <- MCIpOf
    MacOf <- MCMacOf
    VtepOf <- MCVtepOf
    MaxNets = 2
    MaxJoins = 2
    MaxFails = 1
INVARIANTS
    PeersFollowTable
    
    NeighborsFollowPeers
    SandboxCounted
PROPERTY SendersServed
ACTION_CONSTRAINTS
    WalkFirst
    HandFirst
    FewEvents
CHECK_DEADLOCK FALSE
