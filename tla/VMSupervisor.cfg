\* Two callers of Stop beside the Starts, a restart policy, and a gateway that
\* restarts once: what holds whatever the order of the goroutines.
SPECIFICATION FairSpec
CONSTANTS
    c1 = c1
    c2 = c2
    Callers <- TwoCallers
    RestartVM = TRUE
    MaxTasks = 2
    MaxProcs = 3
    MaxGateways = 1
INVARIANTS
    TypeOK
    OneVM
    StoppedStaysDown
PROPERTIES
    StopsEnd
    CrashIsAnswered
CHECK_DEADLOCK FALSE
