CONSTANTS
  a1 = a1  a2 = a2  led = led  flat = flat  m1 = m1  m2 = m2  None = None
  Missions = {m1}
  Agents = {a1, a2, a3}
  Teams = {led}
  Members <- MCMembers
  Coordinator <- MCCoordinator
  Coverage <- MCCoverage
  Requests = {r1, r2}
  Interfaces = {"mcp"}
  Crashes = TRUE
  MaxCreates = 1
  MaxVersion = 2
SPECIFICATION Spec
INVARIANTS HistoryCoversOlderVersions OnlyAssigneesHold
SYMMETRY RequestSymmetry
VIEW WithoutBus
CHECK_DEADLOCK FALSE
