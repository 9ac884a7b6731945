SPECIFICATION Spec
CONSTANTS
    n1 = n1
    n2 = n2
    n3 = n3
    e1 = e1
    e2 = e2
    any4 = any4
    any6 = any6
    Net = {n1, n2, n3}
    Endpoint = {e1, e2}
    NetOf <- MCNetOf
    Conflict <- MCConflict
    DefaultBridge = {n1}
    V4 = {any4}
    V6 = {any6}
    AnyV4 = any4
    AnyV6 = any6
    DefHost = any4
    V6Listenable = TRUE
    Container6 = FALSE
    Proxy = TRUE
    ProxyFound = TRUE
    Requests <- MCRequests
    Begin = 1
    End = 2
    Attempts = 2
    MaxFaults = 1
    MaxCrashes = 1
    MaxReloads = 1
    None = None
INVARIANTS
    PortsHeld
    
    
    RulesMatch
ACTION_CONSTRAINT CleanupAlone
CONSTRAINTS FewEvents InOrder
CHECK_DEADLOCK FALSE
