\* Two calls, one of them a tool of the worker; failures and restarts.
SPECIFICATION ServiceSpec
CONSTANTS
  r1 = r1
  x = x
  y = y
  Routines = {r1}
  Crons = {x, y}
  Requests <- MCRequests
  NoRequest = NoRequest
  k1 = k1
  k2 = k2
  k3 = k3
  Keys = {k1, k2, k3}
  c1 = c1
  c2 = c2
  Clients = {c1, c2}
  EarlyClients = {c1}
  SchedulerThrows = TRUE
  DbFails = TRUE
  Crashes = TRUE
SYMMETRY KeySymmetry
INVARIANTS
  OneEffectPerKey
  StatusTellsTheEffect
  AuditTellsTheOutcome
  TasksFollowRows
CHECK_DEADLOCK FALSE
