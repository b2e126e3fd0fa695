CONSTANTS
  u1 = u1
  u2 = u2
  m1 = m1
  m2 = m2
  ghost = ghost
  Users = {u1}
  Machines = {m1, m2}
  Admins = {}
  priority <- MCPriority
  Configured <- MCConfigured
  Legacy <- MCLegacy
  OkThreshold = 2
  FailThreshold = 3
  MaxEdits = 1
  MaxRestarts = 1
  MaxFaults = 1
SPECIFICATION Spec
PROPERTIES  HealthFollows
CHECK_DEADLOCK FALSE
