\* Does the worker that observed a stop settle the turn it still owns?
SPECIFICATION WorkerSpec
CONSTANTS
  j1 = j1
  j2 = j2
  w1 = w1
  w2 = w2
  c1 = c1
  c2 = c2
  Jobs = {j1}
  Workers = {w1}
  Calls = {c1}
  EffectCalls = {c1}
  MaxAttempts = 1
  None = None
  DbFails = FALSE
  RootJobs = {j1}
CHECK_DEADLOCK FALSE
PROPERTY
  OwnerClassifiesTheStop
