SPECIFICATION ConvergenceSpec
CONSTANTS
    a = a
    b = b
    c = c
    Node = {a, b}
    Network = {n1}
    AddrOf <- OwnAddr
    MaxClock = 4
    NodeReap = 1
    NetworkReap = 1
PROPERTY Convergence
ACTION_CONSTRAINT NoOverlap
CHECK_DEADLOCK FALSE
