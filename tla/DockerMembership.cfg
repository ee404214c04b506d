SPECIFICATION MCSpec
CONSTANTS
    Node = {a, b, c}
    Initial = {a}
    Proc = {p, q}
    MaxAttempts = 2
    MaxOutages = 1
    Clusters <- MCPlain
    Concurrent = TRUE
SYMMETRY MCSymmetry
CHECK_DEADLOCK FALSE
INVARIANTS
    TypeOK
    RemovedHaveLeft
    AddedAreMembers
