\* Two chats, or a parent and its delegated child, of one turn each.
SPECIFICATION ProgressSpec
CONSTANTS
  j1 = j1
  j2 = j2
  w1 = w1
  w2 = w2
  c1 = c1
  c2 = c2
  Jobs = {j1, j2}
  Workers = {w1}
  Calls = {c1}
  EffectCalls = {c1}
  MaxAttempts = 1
  None = None
  DbFails = FALSE
  RootJobs = {j1}
CHECK_DEADLOCK FALSE
PROPERTIES
  StopIsCarriedOut
  EveryClaimEndsInTime
  StopReachesTheChild
