SPECIFICATION Spec
CONSTANTS
    Peer = {a, b}
    Proxy = {lb}
    Gateway = gateway
    Loopback = loopback
    Outside = outside
    MaxCommands = 2
SYMMETRY Symmetric
CHECK_DEADLOCK FALSE
INVARIANTS
    TypeOK
    SparesThroughout
    BlockTakesEffect
    PartitionSeparates
