SPECIFICATION FormedSpec
CONSTANTS
    a = a
    b = b
    k1 = k1
    c1 = c1
    Node = {a, b}
    Key = {k1}
    Conn = {c1}
    Writer <- OwnerWrites
    MaxEpoch = 3
    MaxTime = 2
    EntryReap = 1
    NetworkReap = 2
INVARIANTS
    TypeOK
    OwnersInNetwork
    EntriesCounted
    WatchersAgree
CONSTRAINT Bounds
ACTION_CONSTRAINTS ChecksStay TellsStay
CHECK_DEADLOCK FALSE
