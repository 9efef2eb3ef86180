\* One chat, two turns, two processes, one external call, every failure; or a
\* parent that delegates.
SPECIFICATION WorkerSpec
CONSTANTS
  j1 = j1
  j2 = j2
  w1 = w1
  w2 = w2
  c1 = c1
  c2 = c2
  Jobs = {j1, j2}
  Workers = {w1, w2}
  Calls = {c1}
  EffectCalls = {c1}
  MaxAttempts = 2
  None = None
  DbFails = TRUE
  RootJobs = {j1}
SYMMETRY WorkerSymmetry
CONSTRAINT Bounded
CHECK_DEADLOCK FALSE
INVARIANTS
  EffectsAreAccountedFor
  OneCallInFlight
