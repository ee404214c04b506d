SPECIFICATION MCSpecInTurn
CONSTANTS
    Node = {a, b, c}
    Initial = {a}
    Proc = {p, q}
    MaxAttempts = 1
    MaxOutages = 1
    Clusters <- MCNamed
    Concurrent = FALSE
CHECK_DEADLOCK FALSE
INVARIANTS
    NamesExist
    NamesAreMembers
    NamesComplete
PROPERTY
    Ends
