\* A trigger, posted at most twice, and a direct message; two sockets; one fault;
\* the state directory is mounted.
SPECIFICATION FairSpec
CONSTANTS
    None = None
    t1 = t1
    d1 = d1
    Triggers <- OneTrigger
    Direct <- OneMessage
    Shared = TRUE
    MaxTries <- TriggerTwice
    MaxSockets = 2
    MaxFaults = 1
INVARIANTS
    TypeOK
    HaltedTaskIsDropped
    PollTakesOnce
    AnsweredOnce
PROPERTIES
    FiledTaskRuns
CHECK_DEADLOCK FALSE
