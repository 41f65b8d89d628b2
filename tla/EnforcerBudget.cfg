\* Two calls at once for two tasks, answers of cost up to two, restarts of the
\* enforcer and a gateway that may not answer: how far a task's budget is overspent.
SPECIFICATION Spec
CONSTANTS
    c1 = c1
    c2 = c2
    ta = ta
    tb = tb
    NoTask = NoTask
    Calls <- TwoCalls
    Tasks <- TwoTasks
    TaskLimit = 2
    DailyLimit = 1
    MaxUsage = 1
    MaxTools = 1
    MaxSends = 5
INVARIANT
    TaskSpendBounded
VIEW Relevant
SYMMETRY Symmetric
