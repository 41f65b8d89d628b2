\* One change whose hash the two sides compute differently, one socket.
SPECIFICATION Spec
CONSTANTS
    ConstraintSets <- DeliverySets
    Garbled <- CorruptOnly
    Overrides <- LowOrNone
    MaxPushes = 1
    MaxConns = 1
    MaxOps = 0
    AckCap = 1
INVARIANTS
    FailedAckEscalates
CHECK_DEADLOCK FALSE
