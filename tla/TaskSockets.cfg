SPECIFICATION Spec
CONSTANTS
    None = None
    t1 = t1
    d1 = d1
    Triggers <- OneTrigger
    Direct <- OneMessage
    Shared = FALSE
    MaxTries <- TriggerTwice
    MaxSockets = 2
    MaxFaults = 2
INVARIANTS
    LiveSocketIsRegistered
CHECK_DEADLOCK FALSE
