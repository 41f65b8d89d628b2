\* Two agents for one slot, two requests at once (of one agent at most one that
\* is no reading of its status), three in all, one crash or restart.
SPECIFICATION Spec
CONSTANTS
  a1 = a1  a2 = a2  r1 = r1  r2 = r2
  Agents = {a1, a2}
  Names <- TwoAgents
  Requests = {r1, r2}
  Overlap = FALSE
  MaxAgents = 1
  MaxOps = 3
  MaxFaults = 1
SYMMETRY AnyRequest
VIEW Observed
INVARIANTS
  TypeOK
  StoppedStaysDown
  NothingHalfStarted
  HaltIsRemembered
  CapacityBound
PROPERTIES
  BootsEnforced
CHECK_DEADLOCK FALSE
