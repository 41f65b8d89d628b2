CONSTANTS
  m1 = m1  m2 = m2  n1 = n1  hourly = hourly  daily = daily
  empty = empty  r1 = r1  r2 = r2  None = None
  Missions = {m1, m2}
  Names = {n1}
  Crons = {hourly, daily, empty}
  Parses = {hourly, daily}
  NoCron = empty
  Requests = {r1, r2}
SYMMETRY Interchangeable
SPECIFICATION Spec
INVARIANTS TypeOK EveryJobIsKnown SchedulesFollowStatus
CHECK_DEADLOCK FALSE
