SPECIFICATION FairSpec
CONSTANTS
    ConstraintSets <- DeliverySets
    Garbled <- CorruptOnly
    Overrides <- LowOrNone
    MaxPushes = 2
    MaxConns = 2
    MaxOps = 2
    AckCap = 1
INVARIANTS
    TypeOK
    AckedWasApplied
    BaselineIsNewestAcked
    PendingSeverityCurrent
    UnansweredIsHalted
    VerdictOfLatest
    LiveTransportRegistered
PROPERTIES
    HistoryImmutable
    NoAckStolen
    DeliveryEnds
    ReplacedSocketsEnd
    KeepsPromise
ACTION_CONSTRAINT Focus
CHECK_DEADLOCK FALSE
