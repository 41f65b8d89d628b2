CONSTANTS
  a1 = a1  a2 = a2  led = led  flat = flat  m1 = m1  m2 = m2  None = None
  Missions = {m1, m2}
  Agents = {a1, a2}
  Teams = {led, flat}
  Members <- MCMembers
  Coordinator <- MCCoordinator
  Coverage <- MCCoverage
  Requests = {r1}
  Interfaces = {"http"}
  Crashes = FALSE
  MaxCreates = 2
  MaxVersion = 3
SPECIFICATION Spec
INVARIANTS TypeOK RoutesFollowStatus ActiveIsRouted RoutedOnce CopiesAreCurrent
CHECK_DEADLOCK FALSE
