\* One agent, two requests for it at once.
SPECIFICATION Spec
CONSTANTS
  a1 = a1  a2 = a2  r1 = r1  r2 = r2
  Agents = {a1}
  Names <- OneAgent
  Requests = {r1, r2}
  Overlap = TRUE
  MaxAgents = 1
  MaxOps = 2
  MaxFaults = 0
SYMMETRY AnyRequest
VIEW Observed
INVARIANTS
  HaltedIsDown
CHECK_DEADLOCK FALSE
