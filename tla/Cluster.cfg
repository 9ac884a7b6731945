SPECIFICATION Spec
CONSTANTS
    a = a
    b = b
    c = c
    Node = {a, b}
    Network = {n1}
    AddrOf <- OwnAddr
    MaxClock = 2
    NodeReap = 1
    NetworkReap = 1
INVARIANTS
    TypeOK
    AttachmentIndexesAgree
    RemoteAttachmentsActive
    OwnClockNewest
PROPERTY RemoteTimeMonotone
CONSTRAINT FewInFlight
CHECK_DEADLOCK FALSE
SYMMETRY Symmetry
