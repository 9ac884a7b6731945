SPECIFICATION Spec
CONSTANTS
    Nodes = {n1, n2}
    Nil = Nil
    MaxRing = 3
    MaxLag = 1
    MaxPeerings = 4
INVARIANTS
    Understood
    KeysMatch
    KernelFollowsKeys
PROPERTY
    EveryoneRotates
ACTION_CONSTRAINT
    SetupAlone
CHECK_DEADLOCK FALSE
