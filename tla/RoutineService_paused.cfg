\* Two clients change one routine at once; nothing fails.
SPECIFICATION ServiceSpec
CONSTANTS
  r1 = r1
  x = x
  y = y
  Routines = {r1}
  Crons = {x}
  Requests <- RoutineRequests
  NoRequest = NoRequest
  k1 = k1
  k2 = k2
  k3 = k3
  Keys = {k1, k2, k3}
  c1 = c1
  c2 = c2
  Clients = {c1, c2}
  EarlyClients = {}
  SchedulerThrows = FALSE
  DbFails = FALSE
  Crashes = FALSE
SYMMETRY KeySymmetry
INVARIANTS
  PausedStopsFiring
CHECK_DEADLOCK FALSE
