\* A Stop overlaps a Start, then the gateway restarts.
SPECIFICATION Spec
CONSTANTS
    c1 = c1
    c2 = c2
    Callers <- OneCaller
    RestartVM = FALSE
    MaxTasks = 2
    MaxProcs = 3
    MaxGateways = 2
INVARIANT NoDuplicateVM
CHECK_DEADLOCK FALSE
